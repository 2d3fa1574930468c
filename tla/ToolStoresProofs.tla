-------------------------- MODULE ToolStoresProofs --------------------------
(* Proofs about ToolStores, for any number of threads, users and exports and *)
(* all limits of the cache.                                                  *)
EXTENDS ToolStores, SequenceTheorems, TLAPS

-----------------------------------------------------------------------------
(* The inductive invariant *)

\* The rows of an entry were read before they were stored, by no more than the
\* time of a statement; and a key has one entry.
CacheInv ==
    /\ \A n \in DOMAIN store : store[n].rows <= store[n].stored + Timeout
    /\ \A m, n \in DOMAIN store : store[m].key = store[n].key => m = n
    /\ \A t \in Threads : at[t] = "query" => item[t] \in Keys /\ seen[t] \in 0..Timeout
    /\ RowsFresh

\* Whoever has the id of an export finds its owner in its metadata as long as
\* its file is there.
Owned(x) == file[x] # "unused" /\ (file[x] = "gone" \/ meta[x] = madeBy[x])

\* The places of the threads that work on an export.
Holding == {"written", "saved", "sweep", "unlink", "unlinkMeta", "found", "check"}

\* Of a thread at work on an export: what it knows of it stays true.
Held(t) ==
    /\ at[t] \in Holding => /\ user[t] \in Users /\ item[t] \in Exports
                            /\ file[item[t]] # "unused"
    /\ at[t] = "written" => madeBy[item[t]] = PrincipalOf[user[t]]
    /\ at[t] \in Holding \ {"written"} => Owned(item[t])
    /\ at[t] \in {"unlink", "unlinkMeta"} => seen[t] \in Exports
    /\ at[t] = "unlinkMeta" => file[seen[t]] = "gone"
    /\ at[t] = "check" => file[item[t]] = "gone" \/ seen[t] = madeBy[item[t]]

ExportInv ==
    /\ \A x \in Exports : file[x] # "unused" => madeBy[x] # None
    /\ \A x \in known : Owned(x)
    /\ \A t \in Threads : Held(t)
    /\ \A p \in given : file[p[2]] # "unused"
    /\ OnlyOwnersRead

IInv == TypeOK /\ CacheInv /\ ExportInv

THEOREM Initially == Init => IInv
<1> SUFFICES ASSUME Init PROVE IInv
    OBVIOUS
<1>1. TypeOK
    BY NumbersAssumption DEF Init, TypeOK
<1>2. CacheInv
    BY DEF Init, CacheInv, RowsFresh
<1>3. ExportInv
    BY DEF Init, ExportInv, Held, Holding, OnlyOwnersRead
<1> QED BY <1>1, <1>2, <1>3 DEF IInv

-----------------------------------------------------------------------------
(* The cache *)

\* The cache without the entry of a key, if it has one.
LEMMA WithoutKey ==
    ASSUME TypeOK, CacheInv, NEW k \in Keys
    PROVE  /\ Without(k) \in Seq(Entry)
           /\ Len(Without(k)) \in Nat /\ Len(Without(k)) <= Len(store)
           /\ Cached(k) => Len(Without(k)) = Len(store) - 1
           /\ \A n \in 1..Len(Without(k)) :
                  /\ Without(k)[n].key # k
                  /\ Without(k)[n].rows <= Without(k)[n].stored + Timeout
           /\ \A m, n \in 1..Len(Without(k)) :
                  Without(k)[m].key = Without(k)[n].key => m = n
<1>1. store \in Seq(Entry) /\ Len(store) \in Nat /\ DOMAIN store = 1..Len(store)
    BY DEF TypeOK
<1>2. CASE ~Cached(k)
    <2>1. Without(k) = store
        BY <1>2 DEF Without
    <2>2. \A n \in 1..Len(store) : store[n].key # k
        BY <1>1, <1>2 DEF Cached
    <2>3. /\ \A n \in 1..Len(store) : store[n].rows <= store[n].stored + Timeout
          /\ \A m, n \in 1..Len(store) : store[m].key = store[n].key => m = n
        BY <1>1 DEF CacheInv
    <2>4. Cached(k) => Len(Without(k)) = Len(store) - 1
        BY <1>2
    <2>5. Len(store) <= Len(store)
        BY <1>1
    <2> QED BY <1>1, <2>1, <2>2, <2>3, <2>4, <2>5, Zenon
<1>3. CASE Cached(k)
    <2> DEFINE p == Position(k)
               w == Without(k)
    <2>1. p \in 1..Len(store) /\ store[p].key = k
        BY <1>1, <1>3 DEF Cached, Position
    <2>2. w = SubSeq(store, 1, p - 1) \o SubSeq(store, p + 1, Len(store))
        BY <1>3 DEF Without, RemoveAt
    <2> HIDE DEF p, w
    <2>3. /\ SubSeq(store, 1, p - 1) \in Seq(Entry)
          /\ Len(SubSeq(store, 1, p - 1)) = p - 1
          /\ \A n \in 1..(p - 1) : SubSeq(store, 1, p - 1)[n] = store[n]
        BY <1>1, <2>1
    <2>4. /\ SubSeq(store, p + 1, Len(store)) \in Seq(Entry)
          /\ Len(SubSeq(store, p + 1, Len(store))) = Len(store) - p
          /\ \A n \in 1..(Len(store) - p) : SubSeq(store, p + 1, Len(store))[n] = store[p + n]
        <3> DEFINE l == Len(store)
        <3>1. \A i \in (p + 1)..l : store[i] \in Entry
            BY <1>1, <2>1
        <3>2. /\ SubSeq(store, p + 1, l) \in Seq(Entry)
              /\ Len(SubSeq(store, p + 1, l)) = IF p + 1 <= l THEN l - (p + 1) + 1 ELSE 0
              /\ \A i \in 1..(l - (p + 1) + 1) :
                     SubSeq(store, p + 1, l)[i] = store[p + 1 + i - 1]
            BY <1>1, <2>1, <3>1, SubSeqProperties
        <3> HIDE DEF l
        <3>3. l \in Nat /\ p \in 1..l
            BY <1>1, <2>1 DEF l
        <3>4. \A i \in 1..(l - p) : i \in 1..(l - (p + 1) + 1) /\ p + 1 + i - 1 = p + i
            BY <3>3
        <3>5. \A i \in 1..(l - p) : SubSeq(store, p + 1, l)[i] = store[p + i]
            BY <3>2, <3>4
        <3>6. Len(SubSeq(store, p + 1, l)) = l - p
            BY <3>2, <3>3
        <3> QED BY <3>2, <3>5, <3>6 DEF l
    <2>5. /\ w \in Seq(Entry) /\ Len(w) = Len(store) - 1
          /\ \A n \in 1..(Len(store) - 1) :
                 w[n] = IF n < p THEN store[n] ELSE store[n + 1]
        <3> DEFINE a == SubSeq(store, 1, p - 1)
                   b == SubSeq(store, p + 1, Len(store))
        <3>1. /\ a \in Seq(Entry) /\ Len(a) = p - 1 /\ \A n \in 1..(p - 1) : a[n] = store[n]
              /\ b \in Seq(Entry) /\ Len(b) = Len(store) - p
              /\ \A n \in 1..(Len(store) - p) : b[n] = store[p + n]
              /\ w = a \o b
            BY <2>2, <2>3, <2>4
        <3> HIDE DEF a, b
        <3>2. /\ w \in Seq(Entry) /\ Len(w) = Len(a) + Len(b)
              /\ \A n \in 1..(Len(a) + Len(b)) :
                     w[n] = IF n <= Len(a) THEN a[n] ELSE b[n - Len(a)]
            BY <3>1, ConcatProperties
        <3>3. Len(w) = Len(store) - 1
            BY <1>1, <2>1, <3>1, <3>2
        <3>4. ASSUME NEW n \in 1..(Len(store) - 1)
              PROVE  w[n] = IF n < p THEN store[n] ELSE store[n + 1]
            <4>1. CASE n < p
                BY <1>1, <2>1, <3>1, <3>2, <4>1
            <4>2. CASE n >= p
                <5>1. n - (p - 1) \in 1..(Len(store) - p) /\ p + (n - (p - 1)) = n + 1
                    BY <1>1, <2>1, <4>2
                <5>2. w[n] = b[n - (p - 1)]
                    BY <1>1, <2>1, <3>1, <3>2, <4>2
                <5> QED BY <2>1, <3>1, <4>2, <5>1, <5>2
            <4> QED BY <1>1, <2>1, <4>1, <4>2
        <3> QED BY <3>2, <3>3, <3>4
    <2>6. \A n \in 1..Len(w) : w[n].key # k
        BY <1>1, <2>1, <2>5 DEF CacheInv
    <2>7. \A n \in 1..Len(w) : w[n].rows <= w[n].stored + Timeout
        BY <1>1, <2>1, <2>5 DEF CacheInv
    <2>8. \A m, n \in 1..Len(w) : w[m].key = w[n].key => m = n
        BY <1>1, <2>1, <2>5 DEF CacheInv
    <2>9. Len(w) \in Nat /\ Len(w) <= Len(store) /\ Len(w) = Len(store) - 1
        BY <1>1, <2>1, <2>5
    <2>10. w = Without(k)
        BY DEF w
    <2> QED BY <2>5, <2>6, <2>7, <2>8, <2>9, <2>10, Zenon
<1> QED BY <1>2, <1>3

\* The cache with a new last entry in place of the one of its key.
LEMMA WithKey ==
    ASSUME TypeOK, CacheInv, NEW k \in Keys,
           NEW e \in Entry, e.key = k, e.rows <= e.stored + Timeout,
           NEW all, all = Append(Without(k), e)
    PROVE  /\ all \in Seq(Entry) /\ Len(all) = Len(Without(k)) + 1
           /\ \A n \in 1..Len(all) : all[n].rows <= all[n].stored + Timeout
           /\ \A m, n \in 1..Len(all) : all[m].key = all[n].key => m = n
<1> DEFINE w == Without(k)
<1>1. /\ w \in Seq(Entry) /\ Len(w) \in Nat
      /\ \A n \in 1..Len(w) : w[n].key # k /\ w[n].rows <= w[n].stored + Timeout
      /\ \A m, n \in 1..Len(w) : w[m].key = w[n].key => m = n
    BY WithoutKey
<1>2. all = Append(w, e)
    OBVIOUS
<1> HIDE DEF w
<1>3. all \in Seq(Entry) /\ Len(all) = Len(w) + 1
    BY <1>1, <1>2
<1>4. all[Len(w) + 1] = e /\ \A n \in 1..Len(w) : all[n] = w[n]
    BY <1>1, <1>2
<1>5. \A n \in 1..Len(all) : n = Len(w) + 1 \/ n \in 1..Len(w)
    BY <1>1, <1>3
<1>6. \A n \in 1..Len(all) : all[n].rows <= all[n].stored + Timeout
    BY <1>1, <1>4, <1>5
<1>7. \A m, n \in 1..Len(all) : all[m].key = all[n].key => m = n
    BY <1>1, <1>4, <1>5
<1> QED BY <1>3, <1>6, <1>7 DEF w

\* The other threads' queries are as fresh as they were.
LEMMA OthersFresh ==
    ASSUME TypeOK, CacheInv, NEW t \in Threads,
           \A u \in Threads : u # t => at'[u] = at[u] /\ item'[u] = item[u] /\ seen'[u] = seen[u],
           at'[t] = "query" => item'[t] \in Keys /\ seen'[t] \in 0..Timeout,
           at'[t] = "answered" => seen'[t] <= CacheTtl + Timeout,
           \A n \in DOMAIN store' : store'[n].rows <= store'[n].stored + Timeout,
           \A m, n \in DOMAIN store' : store'[m].key = store'[n].key => m = n
    PROVE  CacheInv'
BY DEF CacheInv, RowsFresh

LEMMA HitSafe ==
    ASSUME TypeOK, CacheInv, NEW t \in Threads, NEW k \in Keys, Hit(t, k)
    PROVE  TypeOK' /\ CacheInv'
<1> DEFINE e == EntryOf(k)
<1>1. store \in Seq(Entry) /\ Len(store) \in Nat /\ DOMAIN store = 1..Len(store)
    BY DEF TypeOK
<1>2. Position(k) \in DOMAIN store /\ store[Position(k)].key = k
    BY <1>1 DEF Hit, Cached, Position
<1>3. e \in Entry /\ e.key = k /\ e.rows <= e.stored + Timeout /\ e.stored <= CacheTtl
    BY <1>1, <1>2 DEF EntryOf, CacheInv, Hit
<1>4. e.rows \in Nat /\ e.rows <= CacheTtl + Timeout
    BY <1>3, NumbersAssumption DEF Entry
<1>5. store' = Append(Without(k), e)
    BY DEF Hit, Touched
<1>6. /\ at' = [at EXCEPT ![t] = "answered"]
      /\ item' = [item EXCEPT ![t] = k] /\ seen' = [seen EXCEPT ![t] = e.rows]
      /\ UNCHANGED <<user, fileVars, given>>
    BY DEF Hit
<1>7. Len(Without(k)) = Len(store) - 1
    BY WithoutKey DEF Hit
<1> HIDE DEF e
<1>8. /\ store' \in Seq(Entry) /\ Len(store') = Len(store)
      /\ \A n \in 1..Len(store') : store'[n].rows <= store'[n].stored + Timeout
      /\ \A m, n \in 1..Len(store') : store'[m].key = store'[n].key => m = n
    <2>1. /\ store' \in Seq(Entry) /\ Len(store') = Len(Without(k)) + 1
          /\ \A n \in 1..Len(store') : store'[n].rows <= store'[n].stored + Timeout
          /\ \A m, n \in 1..Len(store') : store'[m].key = store'[n].key => m = n
        <3> DEFINE all == Append(Without(k), e)
        <3>1. /\ all \in Seq(Entry) /\ Len(all) = Len(Without(k)) + 1
              /\ \A n \in 1..Len(all) : all[n].rows <= all[n].stored + Timeout
              /\ \A m, n \in 1..Len(all) : all[m].key = all[n].key => m = n
            BY <1>3, WithKey
        <3> HIDE DEF all
        <3>2. store' = all
            BY <1>5 DEF all
        <3> QED BY <3>1, <3>2, Zenon
    <2> QED BY <1>1, <1>7, <2>1
<1>9. TypeOK'
    BY <1>4, <1>6, <1>8 DEF TypeOK, fileVars
<1>10. /\ at'[t] = "answered" /\ seen'[t] = e.rows
       /\ \A u \in Threads : u # t => at'[u] = at[u] /\ item'[u] = item[u] /\ seen'[u] = seen[u]
    BY <1>6 DEF TypeOK
<1>11. DOMAIN store' = 1..Len(store')
    BY <1>8
<1>12. CacheInv'
    BY <1>4, <1>8, <1>10, <1>11, OthersFresh
<1> QED BY <1>9, <1>12

LEMMA MissSafe ==
    ASSUME TypeOK, CacheInv, NEW t \in Threads, NEW k \in Keys, Miss(t, k)
    PROVE  TypeOK' /\ CacheInv'
<1>1. /\ store' = Without(k)
      /\ at' = [at EXCEPT ![t] = "query"]
      /\ item' = [item EXCEPT ![t] = k] /\ seen' = [seen EXCEPT ![t] = 0]
      /\ UNCHANGED <<user, fileVars, given>>
    BY DEF Miss
<1>2. /\ store' \in Seq(Entry) /\ Len(store') \in Nat /\ Len(store') <= Len(store)
      /\ \A n \in 1..Len(store') : store'[n].rows <= store'[n].stored + Timeout
      /\ \A m, n \in 1..Len(store') : store'[m].key = store'[n].key => m = n
    <2> DEFINE w == Without(k)
    <2>1. /\ w \in Seq(Entry) /\ Len(w) \in Nat /\ Len(w) <= Len(store)
          /\ \A n \in 1..Len(w) : w[n].rows <= w[n].stored + Timeout
          /\ \A m, n \in 1..Len(w) : w[m].key = w[n].key => m = n
        BY WithoutKey
    <2> HIDE DEF w
    <2> QED BY <1>1, <2>1, Zenon DEF w
<1>3. Len(store) \in Nat /\ Len(store) <= MaxEntries /\ MaxEntries \in Nat
    BY NumbersAssumption DEF TypeOK
<1>4. TypeOK'
    <2>1. Len(store') <= MaxEntries
        BY <1>2, <1>3
    <2> QED BY <1>1, <1>2, <2>1 DEF TypeOK, fileVars
<1>5. /\ at'[t] = "query" /\ item'[t] = k /\ seen'[t] = 0
      /\ \A u \in Threads : u # t => at'[u] = at[u] /\ item'[u] = item[u] /\ seen'[u] = seen[u]
    BY <1>1 DEF TypeOK
<1>6. DOMAIN store' = 1..Len(store') /\ 0 \in 0..Timeout
    BY <1>2, NumbersAssumption
<1> QED BY <1>2, <1>4, <1>5, <1>6, OthersFresh

LEMMA PutSafe ==
    ASSUME TypeOK, CacheInv, NEW t \in Threads, Put(t)
    PROVE  TypeOK' /\ CacheInv'
<1> DEFINE k == item[t]
           e == [key |-> k, stored |-> 0, rows |-> seen[t]]
           all == Append(Without(k), e)
<1>1. at[t] = "query" /\ k \in Keys /\ seen[t] \in 0..Timeout
    BY DEF Put, CacheInv
<1>2. e \in Entry /\ e.key = k /\ e.rows <= e.stored + Timeout
    BY <1>1, NumbersAssumption DEF Entry
<1>3. /\ store' = IF Len(all) > MaxEntries THEN Tail(all) ELSE all
      /\ at' = [at EXCEPT ![t] = "answered"]
      /\ UNCHANGED <<user, item, seen, fileVars, given>>
    BY DEF Put
<1>4. Len(Without(k)) \in Nat /\ Len(Without(k)) <= MaxEntries
    <2>1. Len(Without(k)) \in Nat /\ Len(Without(k)) <= Len(store)
        BY <1>1, WithoutKey
    <2>2. Len(store) \in Nat /\ Len(store) <= MaxEntries /\ MaxEntries \in Nat
        BY NumbersAssumption DEF TypeOK
    <2> HIDE DEF k
    <2> QED BY <2>1, <2>2
<1>5. /\ all \in Seq(Entry) /\ Len(all) = Len(Without(k)) + 1
      /\ \A n \in 1..Len(all) : all[n].rows <= all[n].stored + Timeout
      /\ \A m, n \in 1..Len(all) : all[m].key = all[n].key => m = n
    <2> HIDE DEF e, k
    <2> QED BY <1>1, <1>2, WithKey
<1> HIDE DEF all, e, k
<1>6. /\ store' \in Seq(Entry) /\ Len(store') \in Nat /\ Len(store') <= MaxEntries
      /\ \A n \in 1..Len(store') : store'[n].rows <= store'[n].stored + Timeout
      /\ \A m, n \in 1..Len(store') : store'[m].key = store'[n].key => m = n
    <2>1. CASE Len(all) > MaxEntries
        <3>1. all # <<>> /\ store' = Tail(all)
            BY <1>3, <1>4, <1>5, <2>1, NumbersAssumption
        <3>2. /\ store' \in Seq(Entry) /\ Len(store') = Len(all) - 1
              /\ \A n \in 1..Len(store') : n + 1 \in 1..Len(all) /\ store'[n] = all[n + 1]
            BY <1>4, <1>5, <3>1, HeadTailProperties
        <3>3. Len(store') \in Nat /\ Len(store') <= MaxEntries
            BY <1>4, <1>5, <3>2
        <3>4. \A n \in 1..Len(store') : store'[n].rows <= store'[n].stored + Timeout
            BY <1>5, <3>2
        <3>5. \A m, n \in 1..Len(store') : store'[m].key = store'[n].key => m = n
            BY <1>5, <3>2
        <3> QED BY <3>2, <3>3, <3>4, <3>5
    <2>2. CASE ~(Len(all) > MaxEntries)
        <3>1. store' = all /\ Len(all) \in Nat /\ Len(all) <= MaxEntries
            BY <1>3, <1>4, <1>5, <2>2, NumbersAssumption
        <3> QED BY <1>5, <3>1, Zenon
    <2> QED BY <2>1, <2>2
<1>7. TypeOK'
    BY <1>3, <1>6 DEF TypeOK, fileVars
<1>8. /\ at'[t] = "answered" /\ seen'[t] \in 0..Timeout
      /\ \A u \in Threads : u # t => at'[u] = at[u] /\ item'[u] = item[u] /\ seen'[u] = seen[u]
    BY <1>1, <1>3 DEF TypeOK
<1>9. DOMAIN store' = 1..Len(store') /\ seen'[t] <= CacheTtl + Timeout
    BY <1>6, <1>8, NumbersAssumption
<1> QED BY <1>6, <1>7, <1>8, <1>9, OthersFresh

LEMMA OlderTogether ==
    ASSUME NEW e \in Entry, e.rows <= e.stored + Timeout,
           NEW o, o = [e EXCEPT !.stored = Older(@), !.rows = Older(@)]
    PROVE  o \in Entry /\ o.key = e.key /\ o.rows <= o.stored + Timeout
<1>1. e.key \in Keys /\ e.stored \in Nat /\ e.rows \in Nat
    BY DEF Entry
<1>2. Older(e.stored) \in Nat /\ Older(e.rows) \in Nat /\ Older(e.rows) <= Older(e.stored) + Timeout
    BY <1>1, NumbersAssumption DEF Older
<1>3. o = [key |-> e.key, stored |-> Older(e.stored), rows |-> Older(e.rows)]
    BY DEF Entry
<1> QED BY <1>1, <1>2, <1>3 DEF Entry

LEMMA TickSafe ==
    ASSUME TypeOK, CacheInv, Tick
    PROVE  TypeOK' /\ CacheInv'
<1>1. store \in Seq(Entry) /\ Len(store) \in Nat /\ DOMAIN store = 1..Len(store)
    BY DEF TypeOK
<1>2. store' = [n \in DOMAIN store |->
                   [store[n] EXCEPT !.stored = Older(@), !.rows = Older(@)]]
    BY DEF Tick
<1>3. \A n \in DOMAIN store : /\ store'[n] \in Entry /\ store'[n].key = store[n].key
                              /\ store'[n].rows <= store'[n].stored + Timeout
    <2> SUFFICES ASSUME NEW n \in DOMAIN store
                 PROVE  /\ store'[n] \in Entry /\ store'[n].key = store[n].key
                        /\ store'[n].rows <= store'[n].stored + Timeout
        OBVIOUS
    <2> DEFINE e == store[n]
               o == [e EXCEPT !.stored = Older(@), !.rows = Older(@)]
    <2>1. store'[n] = o
        BY <1>2, Zenon
    <2>2. e \in Entry /\ e.rows <= e.stored + Timeout
        BY <1>1 DEF CacheInv
    <2>3. o \in Entry /\ o.key = e.key /\ o.rows <= o.stored + Timeout
        <3> HIDE DEF e
        <3> QED BY <2>2, OlderTogether
    <2> HIDE DEF o
    <2> QED BY <2>1, <2>3
<1>4. store' \in Seq(Entry) /\ Len(store') = Len(store) /\ DOMAIN store' = DOMAIN store
    <2>1. store' \in [1..Len(store) -> Entry]
        BY <1>1, <1>2, <1>3
    <2> QED BY <1>1, <2>1
<1>5. UNCHANGED <<at, user, item, fileVars, given>>
    BY DEF Tick
<1>6. \A t \in Threads : /\ at[t] = "query" => seen[t] \in Nat /\ seen[t] < Timeout
                         /\ seen'[t] = IF at[t] = "query" THEN seen[t] + 1 ELSE seen[t]
    <2>1. \A t \in Threads : at[t] = "query" => seen[t] < Timeout
        BY DEF Tick
    <2>2. seen' = [t \in Threads |-> IF at[t] = "query" THEN seen[t] + 1 ELSE seen[t]]
        BY DEF Tick
    <2>3. \A t \in Threads : at[t] = "query" => seen[t] \in Nat
        BY NumbersAssumption DEF CacheInv
    <2> QED BY <2>1, <2>2, <2>3
<1>7. TypeOK'
    <2>1. seen' = [t \in Threads |-> IF at[t] = "query" THEN seen[t] + 1 ELSE seen[t]]
        BY DEF Tick
    <2>2. \A t \in Threads : seen'[t] \in Nat \cup {seen[t]}
        BY <1>6
    <2>3. \A t \in Threads : seen[t] \in Nat \cup Exports \cup Principals \cup {None}
        BY DEF TypeOK
    <2>4. seen' \in [Threads -> Nat \cup Exports \cup Principals \cup {None}]
        BY <2>1, <2>2, <2>3
    <2> QED BY <1>4, <1>5, <2>4 DEF TypeOK, fileVars
<1>8. CacheInv'
    <2>1. \A t \in Threads : at'[t] = "query" => item'[t] \in Keys /\ seen'[t] \in 0..Timeout
        BY <1>5, <1>6, NumbersAssumption DEF CacheInv
    <2>2. RowsFresh'
        BY <1>5 DEF RowsFresh, Tick
    <2>3. \A m, n \in DOMAIN store' : store'[m].key = store'[n].key => m = n
        BY <1>3, <1>4 DEF CacheInv
    <2> QED BY <1>3, <1>4, <2>1, <2>2, <2>3 DEF CacheInv
<1> QED BY <1>7, <1>8

LEMMA EndQuerySafe ==
    ASSUME TypeOK, CacheInv, NEW t \in Threads, EndQuery(t)
    PROVE  TypeOK' /\ CacheInv'
<1>1. TypeOK'
    BY DEF TypeOK, EndQuery, Leave, fileVars
<1>2. CacheInv'
    BY DEF TypeOK, EndQuery, Leave, CacheInv, RowsFresh
<1> QED BY <1>1, <1>2

\* Steps of downloads and exports, of which no query takes notice.
LEMMA CacheUntouched ==
    ASSUME TypeOK, CacheInv, store' = store,
           \A t \in Threads : at'[t] \in {"query", "answered"} =>
               at'[t] = at[t] /\ item'[t] = item[t] /\ seen'[t] = seen[t]
    PROVE  CacheInv'
BY DEF CacheInv, RowsFresh

-----------------------------------------------------------------------------
(* Exports *)

\* What is true of the files for good: they are not made twice, do not come
\* back, and do not lose their owner.
FilesGoOn ==
    \A x \in Exports :
        /\ file[x] # "unused" => file'[x] # "unused" /\ madeBy'[x] = madeBy[x]
        /\ file[x] = "gone" => file'[x] = "gone"
        /\ Owned(x) => Owned(x)'

StandsStill(t) ==
    at'[t] = at[t] /\ user'[t] = user[t] /\ item'[t] = item[t] /\ seen'[t] = seen[t]

LEMMA ExportsKept ==
    ASSUME TypeOK, TypeOK', ExportInv, FilesGoOn,
           \A x \in Exports : file'[x] # "unused" => madeBy'[x] # None,
           \A t \in Threads : Held(t)' \/ StandsStill(t),
           \A x \in known' : x \in known \/ Owned(x)',
           \A p \in given' : \/ p \in given
                             \/ /\ file'[p[2]] # "unused"
                                /\ p[1] \in Admins \/ PrincipalOf[p[1]] = madeBy'[p[2]]
    PROVE  ExportInv'
<1>1. \A x \in known' : Owned(x)'
    BY DEF ExportInv, FilesGoOn, TypeOK
<1>2. ASSUME NEW t \in Threads PROVE Held(t)'
    <2>1. CASE Held(t)'
        BY <2>1
    <2>2. CASE StandsStill(t)
        <3>1. Held(t)
            BY DEF ExportInv
        <3>2. item[t] \in Exports /\ file[item[t]] # "unused" =>
                  file'[item[t]] # "unused" /\ madeBy'[item[t]] = madeBy[item[t]]
            BY DEF FilesGoOn
        <3>3. item[t] \in Exports /\ Owned(item[t]) => Owned(item[t])'
            <4>1. item'[t] = item[t]
                BY <2>2 DEF StandsStill
            <4> QED BY <4>1 DEF FilesGoOn, Owned
        <3>4. \A x \in Exports : file[x] = "gone" => file'[x] = "gone"
            BY DEF FilesGoOn
        <3>5. /\ at'[t] \in Holding => /\ user'[t] \in Users /\ item'[t] \in Exports
                                       /\ file'[item'[t]] # "unused"
              /\ at'[t] = "written" => madeBy'[item'[t]] = PrincipalOf[user'[t]]
            BY <2>2, <3>1, <3>2 DEF Held, StandsStill, Holding
        <3>6. at'[t] \in Holding \ {"written"} => Owned(item[t])'
            BY <2>2, <3>1, <3>3 DEF Held, StandsStill
        <3>7. /\ at'[t] \in {"unlink", "unlinkMeta"} => seen'[t] \in Exports
              /\ at'[t] = "unlinkMeta" => file'[seen'[t]] = "gone"
              /\ at'[t] = "check" => file'[item'[t]] = "gone" \/ seen'[t] = madeBy'[item'[t]]
            BY <2>2, <3>1, <3>2, <3>4 DEF Held, StandsStill, Holding
        <3> QED BY <3>5, <3>6, <3>7 DEF Held
    <2> QED BY <2>1, <2>2
<1>3. \A p \in given' : /\ file'[p[2]] # "unused"
                        /\ p[1] \in Admins \/ PrincipalOf[p[1]] = madeBy'[p[2]]
    <2> SUFFICES ASSUME NEW p \in given
                 PROVE  /\ file'[p[2]] # "unused"
                        /\ p[1] \in Admins \/ PrincipalOf[p[1]] = madeBy'[p[2]]
        OBVIOUS
    <2>1. p[2] \in Exports /\ file[p[2]] # "unused"
        BY DEF ExportInv, TypeOK
    <2>2. p[1] \in Admins \/ PrincipalOf[p[1]] = madeBy[p[2]]
        BY DEF ExportInv, OnlyOwnersRead
    <2> QED BY <2>1, <2>2 DEF FilesGoOn
<1> QED BY <1>1, <1>2, <1>3 DEF ExportInv, OnlyOwnersRead

\* Steps that leave files and metadata alone.
LEMMA FilesUntouched == ASSUME UNCHANGED <<file, meta, madeBy>> PROVE FilesGoOn
BY DEF FilesGoOn, Owned

\* Queries work on no export.
LEMMA QueriesKeepExports ==
    ASSUME TypeOK, TypeOK', ExportInv, UNCHANGED <<fileVars, given>>,
           \A t \in Threads : at'[t] \notin Holding \/ StandsStill(t)
    PROVE  ExportInv'
<1>1. UNCHANGED <<file, meta, madeBy, known, given>>
    BY DEF fileVars
<1>2. \A t \in Threads : Held(t)' \/ StandsStill(t)
    BY DEF Held, Holding
<1>3. \A x \in Exports : file'[x] # "unused" => madeBy'[x] # None
    BY <1>1 DEF ExportInv
<1> QED BY <1>1, <1>2, <1>3, FilesUntouched, ExportsKept

LEMMA SaveSafe ==
    ASSUME IInv, NEW t \in Threads, NEW u \in Users, NEW x \in Exports, Save(t, u, x)
    PROVE  IInv'
<1> USE DEF IInv
<1>1. TypeOK'
    BY DEF TypeOK, Save, Principals
<1>2. \A v \in Threads : v # t => StandsStill(v)
    BY DEF TypeOK, Save, StandsStill
<1>3. /\ at'[t] = "written" /\ user'[t] = u /\ item'[t] = x
      /\ file[x] = "unused" /\ file'[x] = "young" /\ madeBy'[x] = PrincipalOf[u]
      /\ \A y \in Exports : y # x => file'[y] = file[y] /\ madeBy'[y] = madeBy[y]
      /\ UNCHANGED <<store, meta, known, given>>
    BY DEF TypeOK, Save
<1>4. FilesGoOn
    BY <1>3 DEF FilesGoOn, Owned
<1>5. Held(t)'
    BY <1>3 DEF Held, Holding
<1>6. \A y \in Exports : file'[y] # "unused" => madeBy'[y] # None
    BY <1>3, UsersAssumption DEF ExportInv
<1>7. ExportInv'
    BY <1>1, <1>2, <1>3, <1>4, <1>5, <1>6, ExportsKept
<1>8. CacheInv'
    BY <1>2, <1>3, CacheUntouched DEF StandsStill
<1> QED BY <1>1, <1>7, <1>8

LEMMA SaveMetaSafe == ASSUME IInv, NEW t \in Threads, SaveMeta(t) PROVE IInv'
<1> USE DEF IInv
<1>1. /\ at[t] = "written" /\ user[t] \in Users /\ item[t] \in Exports
      /\ file[item[t]] # "unused" /\ madeBy[item[t]] = PrincipalOf[user[t]]
    BY DEF SaveMeta, ExportInv, Held, Holding
<1>2. TypeOK'
    <2>1. PrincipalOf[user[t]] \in Principals
        BY <1>1 DEF Principals
    <2>2. meta' \in [Exports -> Principals \cup {None}]
        BY <1>1, <2>1 DEF TypeOK, SaveMeta
    <2> QED BY <2>2 DEF TypeOK, SaveMeta
<1>3. \A v \in Threads : v # t => StandsStill(v)
    BY DEF TypeOK, SaveMeta, StandsStill
<1>4. /\ at'[t] \in {"saved", "sweep"}
      /\ meta'[item[t]] = madeBy[item[t]]
      /\ \A y \in Exports : y # item[t] => meta'[y] = meta[y]
      /\ UNCHANGED <<user, item, store, file, known, madeBy, given>>
    BY <1>1 DEF TypeOK, SaveMeta
<1>5. FilesGoOn
    BY <1>4 DEF FilesGoOn, Owned
<1>6. Held(t)'
    BY <1>1, <1>4 DEF Held, Holding, Owned
<1>7. \A y \in Exports : file'[y] # "unused" => madeBy'[y] # None
    BY <1>4 DEF ExportInv
<1>8. ExportInv'
    BY <1>2, <1>3, <1>4, <1>5, <1>6, <1>7, ExportsKept
<1>9. CacheInv'
    BY <1>3, <1>4, CacheUntouched DEF StandsStill
<1> QED BY <1>2, <1>8, <1>9

\* The steps of a thread that change no file and no metadata, and after which
\* what it holds is as it should be.
LEMMA ThreadStep ==
    ASSUME IInv, TypeOK', NEW t \in Threads,
           UNCHANGED <<store, file, meta, madeBy>>,
           \A v \in Threads : v # t => StandsStill(v),
           at'[t] \notin {"query", "answered"},
           Held(t)',
           \A x \in known' : x \in known \/ Owned(x),
           \A p \in given' : \/ p \in given
                             \/ /\ file[p[2]] # "unused"
                                /\ p[1] \in Admins \/ PrincipalOf[p[1]] = madeBy[p[2]]
    PROVE  IInv'
<1>1. FilesGoOn
    BY FilesUntouched
<1>2. \A x \in Exports : file'[x] # "unused" => madeBy'[x] # None
    BY DEF IInv, ExportInv
<1>3. \A x \in known' : x \in known \/ Owned(x)'
    BY DEF Owned
<1>4. ExportInv'
    BY <1>1, <1>2, <1>3, ExportsKept DEF IInv
<1>5. CacheInv'
    BY CacheUntouched DEF StandsStill, IInv
<1> QED BY <1>4, <1>5 DEF IInv

LEMMA SaveFailsSafe == ASSUME IInv, NEW t \in Threads, SaveFails(t) PROVE IInv'
<1>1. TypeOK'
    BY DEF TypeOK, SaveFails, Leave, IInv
<1>2. \A v \in Threads : v # t => StandsStill(v)
    BY DEF TypeOK, SaveFails, Leave, StandsStill, IInv
<1>3. at'[t] = "idle" /\ UNCHANGED <<store, file, meta, madeBy, known, given>>
    BY DEF TypeOK, SaveFails, Leave, IInv
<1>4. Held(t)'
    BY <1>3 DEF Held, Holding
<1> QED BY <1>1, <1>2, <1>3, <1>4, ThreadStep

LEMMA AnnounceSafe == ASSUME IInv, NEW t \in Threads, Announce(t) PROVE IInv'
<1>0. item[t] \in Exports /\ Owned(item[t])
    BY DEF Announce, IInv, ExportInv, Held, Holding
<1>1. TypeOK'
    BY <1>0 DEF TypeOK, Announce, Leave, IInv
<1>2. \A v \in Threads : v # t => StandsStill(v)
    BY DEF TypeOK, Announce, Leave, StandsStill, IInv
<1>3. at'[t] = "idle" /\ UNCHANGED <<store, file, meta, madeBy, given>>
    BY DEF TypeOK, Announce, Leave, IInv
<1>4. Held(t)'
    BY <1>3 DEF Held, Holding
<1>5. \A x \in known' : x \in known \/ Owned(x)
    BY <1>0 DEF Announce
<1> QED BY <1>1, <1>2, <1>3, <1>4, <1>5, ThreadStep

LEMMA FindSafe ==
    ASSUME IInv, NEW t \in Threads, NEW u \in Users, NEW x \in Exports, Find(t, u, x)
    PROVE  IInv'
<1>1. TypeOK'
    BY DEF TypeOK, Find, fileVars, IInv
<1>2. \A v \in Threads : v # t => StandsStill(v)
    BY DEF TypeOK, Find, StandsStill, IInv
<1>3. /\ at'[t] = "found" /\ user'[t] = u /\ item'[t] = x
      /\ UNCHANGED <<store, file, meta, madeBy, known, given>>
    BY DEF TypeOK, Find, fileVars, IInv
<1>4. Owned(x)
    BY DEF Find, IInv, ExportInv
<1>5. Held(t)'
    BY <1>3, <1>4 DEF Held, Holding, Owned
<1> QED BY <1>1, <1>2, <1>3, <1>5, ThreadStep

LEMMA ReadMetaSafe == ASSUME IInv, NEW t \in Threads, ReadMeta(t) PROVE IInv'
<1>0. user[t] \in Users /\ item[t] \in Exports /\ Owned(item[t])
    BY DEF ReadMeta, IInv, ExportInv, Held, Holding
<1>1. TypeOK'
    <2>1. meta[item[t]] \in Principals \cup {None}
        BY <1>0 DEF IInv, TypeOK
    <2> QED BY <2>1 DEF TypeOK, ReadMeta, fileVars, IInv
<1>2. \A v \in Threads : v # t => StandsStill(v)
    BY DEF TypeOK, ReadMeta, StandsStill, IInv
<1>3. /\ at'[t] = "check" /\ seen'[t] = meta[item[t]]
      /\ UNCHANGED <<user, item, store, file, meta, madeBy, known, given>>
    BY DEF TypeOK, ReadMeta, fileVars, IInv
<1>4. Held(t)'
    BY <1>0, <1>3 DEF Held, Holding, Owned
<1> QED BY <1>1, <1>2, <1>3, <1>4, ThreadStep

\* A download is given only a file whose owner was read: without metadata the
\* file is gone by then.
LEMMA DownloadSafe == ASSUME IInv, NEW t \in Threads, Download(t) PROVE IInv'
<1>0. /\ user[t] \in Users /\ item[t] \in Exports /\ file[item[t]] # "unused"
      /\ file[item[t]] = "gone" \/ seen[t] = madeBy[item[t]]
      /\ madeBy[item[t]] # None
    BY DEF Download, IInv, ExportInv, Held, Holding
<1>1. \A p \in given' : \/ p \in given
                        \/ /\ file[p[2]] # "unused"
                           /\ p[1] \in Admins \/ PrincipalOf[p[1]] = madeBy[p[2]]
    <2>1. CASE MayDownload(t) /\ file[item[t]] \in {"young", "old"}
        <3>1. given' = given \cup {<<user[t], item[t]>>}
            BY <2>1 DEF Download
        <3>2. user[t] \in Admins \/ PrincipalOf[user[t]] = madeBy[item[t]]
            BY <1>0, <2>1 DEF MayDownload
        <3> QED BY <1>0, <3>1, <3>2
    <2>2. CASE ~(MayDownload(t) /\ file[item[t]] \in {"young", "old"})
        BY <2>2 DEF Download
    <2> QED BY <2>1, <2>2
<1>2. TypeOK'
    <2>1. given' \subseteq Users \X Exports
        BY <1>0 DEF Download, IInv, TypeOK
    <2> QED BY <2>1 DEF TypeOK, Download, Leave, fileVars, IInv
<1>3. \A v \in Threads : v # t => StandsStill(v)
    BY DEF TypeOK, Download, Leave, StandsStill, IInv
<1>4. at'[t] = "idle" /\ UNCHANGED <<store, file, meta, madeBy, known>>
    BY DEF TypeOK, Download, Leave, fileVars, IInv
<1>5. Held(t)'
    BY <1>4 DEF Held, Holding
<1> QED BY <1>1, <1>2, <1>3, <1>4, <1>5, ThreadStep

-----------------------------------------------------------------------------
(* Cleaning up *)

LEMMA ExpireFileSafe == ASSUME IInv, NEW x \in Exports, ExpireFile(x) PROVE IInv'
<1>1. /\ file[x] = "young" /\ file'[x] = "old"
      /\ \A y \in Exports : y # x => file'[y] = file[y]
      /\ UNCHANGED <<at, user, item, seen, store, meta, known, madeBy, given>>
    BY DEF ExpireFile, threadVars, IInv, TypeOK
<1>2. TypeOK'
    BY DEF TypeOK, ExpireFile, threadVars, IInv
<1>3. FilesGoOn
    BY <1>1 DEF FilesGoOn, Owned
<1>4. \A y \in Exports : file'[y] # "unused" => madeBy'[y] # None
    BY <1>1 DEF IInv, ExportInv
<1>5. \A t \in Threads : StandsStill(t)
    BY <1>1 DEF StandsStill
<1>6. ExportInv'
    BY <1>1, <1>2, <1>3, <1>4, <1>5, ExportsKept DEF IInv
<1>7. CacheInv'
    BY <1>1, CacheUntouched DEF IInv
<1> QED BY <1>2, <1>6, <1>7 DEF IInv

LEMMA SweepSafe ==
    ASSUME IInv, NEW t \in Threads,
           SweepEnds(t) \/ \E x \in Exports : Expired(t, x)
    PROVE  IInv'
<1>0. /\ user[t] \in Users /\ item[t] \in Exports /\ Owned(item[t])
    BY DEF SweepEnds, Expired, IInv, ExportInv, Held, Holding
<1>1. TypeOK'
    BY DEF TypeOK, SweepEnds, Expired, fileVars, IInv
<1>2. \A v \in Threads : v # t => StandsStill(v)
    BY DEF TypeOK, SweepEnds, Expired, StandsStill, IInv
<1>3. /\ at'[t] = "saved" \/ (at'[t] = "unlink" /\ seen'[t] \in Exports)
      /\ UNCHANGED <<user, item, store, file, meta, madeBy, known, given>>
    BY DEF TypeOK, SweepEnds, Expired, fileVars, IInv
<1>4. Held(t)'
    BY <1>0, <1>3 DEF Held, Holding, Owned
<1> QED BY <1>1, <1>2, <1>3, <1>4, ThreadStep

\* The file goes first: from then on nobody is given it.
LEMMA UnlinkSafe == ASSUME IInv, NEW t \in Threads, Unlink(t) PROVE IInv'
<1>0. /\ at[t] = "unlink" /\ seen[t] \in Exports /\ file[seen[t]] = "old"
      /\ user[t] \in Users /\ item[t] \in Exports /\ Owned(item[t])
    BY DEF Unlink, IInv, ExportInv, Held, Holding
<1>1. /\ at'[t] = "unlinkMeta" /\ file'[seen[t]] = "gone"
      /\ \A y \in Exports : y # seen[t] => file'[y] = file[y]
      /\ UNCHANGED <<user, item, seen, store, meta, known, madeBy, given>>
    BY <1>0 DEF Unlink, IInv, TypeOK
<1>2. TypeOK'
    BY <1>0 DEF TypeOK, Unlink, IInv
<1>3. \A v \in Threads : v # t => StandsStill(v)
    BY DEF TypeOK, Unlink, StandsStill, IInv
<1>4. FilesGoOn
    BY <1>0, <1>1 DEF FilesGoOn, Owned
<1>5. \A y \in Exports : file'[y] # "unused" => madeBy'[y] # None
    BY <1>0, <1>1 DEF IInv, ExportInv
<1>6. Held(t)'
    BY <1>0, <1>1 DEF Held, Holding, Owned
<1>7. ExportInv'
    BY <1>1, <1>2, <1>3, <1>4, <1>5, <1>6, ExportsKept DEF IInv
<1>8. CacheInv'
    BY <1>1, <1>3, CacheUntouched DEF StandsStill, IInv
<1> QED BY <1>2, <1>7, <1>8 DEF IInv

\* Metadata are deleted only of a file that is gone.
LEMMA UnlinkTheMetaSafe == ASSUME IInv, NEW t \in Threads, UnlinkTheMeta(t) PROVE IInv'
<1>0. /\ at[t] = "unlinkMeta" /\ seen[t] \in Exports /\ file[seen[t]] = "gone"
      /\ user[t] \in Users /\ item[t] \in Exports /\ Owned(item[t])
    BY DEF UnlinkTheMeta, IInv, ExportInv, Held, Holding
<1>1. /\ at'[t] = "sweep"
      /\ \A y \in Exports : y # seen[t] => meta'[y] = meta[y]
      /\ UNCHANGED <<user, item, store, file, known, madeBy, given>>
    BY <1>0 DEF UnlinkTheMeta, IInv, TypeOK
<1>2. TypeOK'
    BY <1>0 DEF TypeOK, UnlinkTheMeta, IInv
<1>3. \A v \in Threads : v # t => StandsStill(v)
    BY DEF TypeOK, UnlinkTheMeta, StandsStill, IInv
<1>4. FilesGoOn
    BY <1>0, <1>1 DEF FilesGoOn, Owned
<1>5. \A y \in Exports : file'[y] # "unused" => madeBy'[y] # None
    BY <1>1 DEF IInv, ExportInv
<1>6. Held(t)'
    BY <1>0, <1>1 DEF Held, Holding, Owned
<1>7. ExportInv'
    BY <1>1, <1>2, <1>3, <1>4, <1>5, <1>6, ExportsKept DEF IInv
<1>8. CacheInv'
    BY <1>1, <1>3, CacheUntouched DEF StandsStill, IInv
<1> QED BY <1>2, <1>7, <1>8 DEF IInv

LEMMA RestartSafe == ASSUME IInv, Restart PROVE IInv'
<1>1. /\ \A t \in Threads : at'[t] = "idle"
      /\ store' = <<>>
      /\ UNCHANGED <<file, meta, known, madeBy, given>>
    BY DEF Restart
<1>2. TypeOK'
    BY NumbersAssumption DEF TypeOK, Restart, IInv
<1>3. ExportInv'
    <2>1. \A t \in Threads : Held(t)'
        BY <1>1 DEF Held, Holding
    <2>2. \A x \in Exports : file'[x] # "unused" => madeBy'[x] # None
        BY <1>1 DEF IInv, ExportInv
    <2> QED BY <1>1, <1>2, <2>1, <2>2, FilesUntouched, ExportsKept DEF IInv
<1>4. CacheInv'
    BY <1>1 DEF CacheInv, RowsFresh
<1> QED BY <1>2, <1>3, <1>4 DEF IInv

-----------------------------------------------------------------------------
(* The theorems *)

\* The steps of the cache leave the exports alone.
LEMMA QuerySafe ==
    ASSUME IInv,
           \/ Tick
           \/ \E t \in Threads : Put(t) \/ EndQuery(t) \/ \E k \in Keys : Hit(t, k) \/ Miss(t, k)
    PROVE  IInv'
<1>1. TypeOK' /\ CacheInv'
    BY HitSafe, MissSafe, PutSafe, EndQuerySafe, TickSafe DEF IInv
<1>2. UNCHANGED <<fileVars, given>>
    BY DEF Hit, Miss, Put, EndQuery, Tick
<1>3. \A t \in Threads : at'[t] \notin Holding \/ StandsStill(t)
    <2>1. CASE Tick
        <3>1. UNCHANGED <<at, user, item>>
            BY <2>1 DEF Tick
        <3>2. seen' = [t \in Threads |-> IF at[t] = "query" THEN seen[t] + 1 ELSE seen[t]]
            BY <2>1 DEF Tick
        <3> QED BY <3>1, <3>2 DEF Holding, StandsStill
    <2>2. ASSUME NEW t \in Threads,
                 Put(t) \/ EndQuery(t) \/ \E k \in Keys : Hit(t, k) \/ Miss(t, k)
          PROVE  \A v \in Threads : at'[v] \notin Holding \/ StandsStill(v)
        <3>1. at'[t] \in {"idle", "query", "answered"}
            BY <2>2 DEF Hit, Miss, Put, EndQuery, Leave, IInv, TypeOK
        <3>2. \A v \in Threads : v # t => StandsStill(v)
            BY <2>2 DEF Hit, Miss, Put, EndQuery, Leave, StandsStill, IInv, TypeOK
        <3> QED BY <3>1, <3>2 DEF Holding
    <2> QED BY <2>1, <2>2
<1>4. ExportInv'
    BY <1>1, <1>2, <1>3, QueriesKeepExports DEF IInv
<1> QED BY <1>1, <1>4 DEF IInv

LEMMA Step == IInv /\ [Next]_vars => IInv'
<1> SUFFICES ASSUME IInv, [Next]_vars PROVE IInv'
    OBVIOUS
<1>1. ASSUME NEW t \in Threads, NEW k \in Keys, Hit(t, k) \/ Miss(t, k) PROVE IInv'
    BY <1>1, QuerySafe
<1>2. ASSUME NEW t \in Threads, Put(t) \/ EndQuery(t) PROVE IInv'
    BY <1>2, QuerySafe
<1>3. CASE Tick
    BY <1>3, QuerySafe
<1>4. ASSUME NEW t \in Threads, NEW u \in Users, NEW x \in Exports,
             Save(t, u, x) \/ Find(t, u, x)
      PROVE  IInv'
    BY <1>4, SaveSafe, FindSafe
<1>5. ASSUME NEW t \in Threads, SaveMeta(t) \/ SaveFails(t) \/ Announce(t) PROVE IInv'
    BY <1>5, SaveMetaSafe, SaveFailsSafe, AnnounceSafe
<1>6. ASSUME NEW x \in Exports, ExpireFile(x) \/ \E t \in Threads : Expired(t, x) PROVE IInv'
    BY <1>6, ExpireFileSafe, SweepSafe
<1>7. ASSUME NEW t \in Threads, Unlink(t) \/ UnlinkTheMeta(t) \/ SweepEnds(t) PROVE IInv'
    BY <1>7, UnlinkSafe, UnlinkTheMetaSafe, SweepSafe
<1>8. ASSUME NEW t \in Threads, ReadMeta(t) \/ Download(t) PROVE IInv'
    BY <1>8, ReadMetaSafe, DownloadSafe
<1>9. CASE UNCHANGED vars
    <2>1. UNCHANGED <<at, user, item, seen, store, file, meta, saving, known, madeBy, given>>
        BY <1>9 DEF vars, threadVars, fileVars
    <2>2. TypeOK'
        BY <2>1 DEF IInv, TypeOK
    <2>3. CacheInv'
        BY <2>1, CacheUntouched DEF IInv
    <2>4. ExportInv'
        BY <2>1, <2>2, QueriesKeepExports DEF IInv, StandsStill, fileVars
    <2> QED BY <2>2, <2>3, <2>4 DEF IInv
<1> QED BY <1>1, <1>2, <1>3, <1>4, <1>5, <1>6, <1>7, <1>8, <1>9, RestartSafe DEF Next

\* The inductive invariant holds in every state.
THEOREM Invariance == Spec => []IInv
BY Initially, Step, PTL DEF Spec

\* No file is ever read by a user of another principal who is no admin: between
\* the two writes of a save and the two deletions of a cleanup, however many
\* run at once and wherever the process restarts.
THEOREM OwnersOnly == Spec => []OnlyOwnersRead
<1>1. IInv => OnlyOwnersRead
    BY DEF IInv, ExportInv
<1> QED BY Invariance, <1>1, PTL

\* No query is answered with rows older than the time to live of an entry and
\* the time of a statement.
THEOREM AnswersFresh == Spec => []RowsFresh
<1>1. IInv => RowsFresh
    BY DEF IInv, CacheInv
<1> QED BY Invariance, <1>1, PTL
=============================================================================
