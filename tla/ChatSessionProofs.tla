-------------------------- MODULE ChatSessionProofs --------------------------
(***************************************************************************)
(* Proofs about ChatSession: for any number of requests, workers, users    *)
(* and sessions, with and without a disk, a request's context is its own   *)
(* user's and session's, the DSL a session offers was executed             *)
(* successfully, a worker answers a clarification once, and the request    *)
(* after a recorded turn builds on it.                                     *)
(***************************************************************************)
EXTENDS ChatSession, SequenceTheorems, TLAPS

\* A request that has begun: its caller does not change any more.
Known(r) == At(r) # "arrived"

CallersKnown == \A r \in Requests : Known(r) => caller[r] \in Callers

\* The session state x is one of user u in session s: it goes back to turns that
\* u took in s, and its DSL to one that succeeded.
Proper(x, u, s) ==
    /\ x.owner = u
    /\ x.base \in succeeded \cup {None}
    /\ \A t \in Turns(x) : Known(t) /\ User(t) = u /\ SessionOf(t) = s

\* An object belongs to the user and the session of the request that made it.
ObjectsProper ==
    \A o \in Requests : heap[o] # None => Known(o) /\ Proper(heap[o], User(o), SessionOf(o))

\* A request works on an object of its own user, session and worker.
MineProper ==
    \A r \in Requests : Mine(r) # None =>
        /\ InFlight(r) /\ heap[Mine(r)] # None
        /\ User(Mine(r)) = User(r) /\ SessionOf(Mine(r)) = SessionOf(r)
        /\ Worker(Mine(r)) = Worker(r)

ItemsProper ==
    \A w \in Workers, s \in Sessions : items[w][s] # None =>
        /\ heap[items[w][s]] # None
        /\ SessionOf(items[w][s]) = s /\ Worker(items[w][s]) = w

\* What is on disk, and what is about to be written there.
StoredProper ==
    /\ \A s \in Sessions : disk[s] # None => Proper(disk[s], disk[s].owner, s)
    /\ \A r \in Requests : frame[r].image # None =>
           Known(r) /\ Proper(frame[r].image, User(r), SessionOf(r))

\* What the place of a request says about its turn.
Fits(r) ==
    /\ At(r) = "drop" => frame[r].intent \in {"chitchat", "glossary", "data"}
    /\ At(r) = "resolve" => frame[r].intent = "data"
    /\ At(r) = "run" => frame[r].intent \in {"glossary", "data"}
    /\ At(r) = "ask" => \/ frame[r].intent \in {"clarify", "glossary"}
                        \/ frame[r].intent = "data" /\ frame[r].result # "none"
    /\ At(r) = "record" => frame[r].result = "ok"
    /\ At(r) \in {"switch", "note", "check", "store", "dump"} => Mine(r) # None
    /\ frame[r].result = "ok" => r \in succeeded
    /\ At(r) \in {"arrived", "look"} => filled[r] = None

PlacesFit == \A r \in Requests : Fits(r)

\* The turn of a question is past asking it.
Past(t) ==
    At(t) \in {"switch", "record", "note", "check", "store", "dump", "write", "over"}

SlotProper(x, s) ==
    /\ Past(x.asked)
    /\ User(x.asked) = x.owner /\ SessionOf(x.asked) = s

SlotsProper ==
    /\ \A w \in Workers, s \in Sessions : slots[w][s] # None => SlotProper(slots[w][s], s)
    /\ \A s \in Sessions : slotDisk[s] # None => SlotProper(slotDisk[s], s)
    /\ \A r \in Requests : filled[r] # None =>
           /\ Past(filled[r])
           /\ User(filled[r]) = User(r) /\ SessionOf(filled[r]) = SessionOf(r)

\* Nothing overlaps a request that is alone.
AloneInFlight ==
    \A r \in alone :
        /\ Known(r)
        /\ \A q \in Requests :
               InFlight(r) /\ InFlight(q) /\ SessionOf(q) = SessionOf(r) => q = r

\* The question that it answered is gone from its worker's memory and the disk.
Answers(x, r) == x # None /\ x.asked = filled[r]
Consumed ==
    \A r \in alone : filled[r] # None /\ At(r) # "consume" =>
        /\ ~Answers(slots[Worker(r)][SessionOf(r)], r)
        /\ ~Answers(slotDisk[SessionOf(r)], r)

IInv ==
    /\ TypeOK
    /\ CallersKnown /\ PlacesFit
    /\ ObjectsProper /\ MineProper /\ ItemsProper /\ StoredProper
    /\ SlotsProper /\ AloneInFlight /\ Consumed
    /\ AnsweredOnce

-----------------------------------------------------------------------------
(* The turns of a session state *)

LEMMA NewBase ==
    ASSUME NEW x \in Session, NEW b \in Requests \cup {None}
    PROVE  /\ [x EXCEPT !.base = b] \in Session
           /\ [x EXCEPT !.base = b].owner = x.owner
           /\ [x EXCEPT !.base = b].base = b
           /\ \A t \in Turns([x EXCEPT !.base = b]) : t \in Turns(x) \/ (t = b /\ b # None)
<1> DEFINE y == [x EXCEPT !.base = b]
<1>1. y \in Session /\ y.owner = x.owner /\ y.base = b /\ y.history = x.history
  BY DEF Session
<1> HIDE DEF y
<1>2. \A t \in Turns(y) : t \in Turns(x) \/ (t = b /\ b # None)
  BY <1>1 DEF Turns
<1> QED  BY <1>1, <1>2 DEF y

LEMMA NewHistory ==
    ASSUME NEW x \in Session, NEW h \in Seq(Requests), NEW r,
           \A i \in DOMAIN h : h[i] = r \/ \E j \in DOMAIN x.history : h[i] = x.history[j]
    PROVE  /\ [x EXCEPT !.history = h] \in Session
           /\ [x EXCEPT !.history = h].owner = x.owner
           /\ [x EXCEPT !.history = h].base = x.base
           /\ \A t \in Turns([x EXCEPT !.history = h]) : t \in Turns(x) \/ t = r
<1> DEFINE y == [x EXCEPT !.history = h]
<1>1. y \in Session /\ y.owner = x.owner /\ y.base = x.base /\ y.history = h
  BY DEF Session
<1> HIDE DEF y
<1>2. \A t \in Turns(y) : t \in Turns(x) \/ t = r
  BY <1>1 DEF Turns
<1> QED  BY <1>1, <1>2 DEF y

LEMMA Noted ==
    ASSUME NEW h \in Seq(Requests), NEW r \in Requests, NEW m \in {<<r, r>>, <<r>>}
    PROVE  /\ h \o m \in Seq(Requests)
           /\ \A i \in DOMAIN (h \o m) : (h \o m)[i] = r \/ \E j \in DOMAIN h : (h \o m)[i] = h[j]
<1>1. m \in Seq(Requests) /\ Len(m) \in {1, 2} /\ \A i \in 1..Len(m) : m[i] = r
  <2>1. CASE m = <<r>>
    BY <2>1
  <2>2. CASE m = <<r, r>>
    BY <2>2
  <2> QED  BY <2>1, <2>2
<1> DEFINE c == h \o m
<1>2. /\ c \in Seq(Requests) /\ Len(c) = Len(h) + Len(m)
      /\ \A i \in 1..(Len(h) + Len(m)) : c[i] = IF i <= Len(h) THEN h[i] ELSE m[i - Len(h)]
  BY <1>1, ConcatProperties
<1>3. Len(h) \in Nat /\ DOMAIN h = 1..Len(h) /\ DOMAIN c = 1..Len(c)
  BY <1>2, LenProperties
<1> HIDE DEF c
<1>4. ASSUME NEW i \in DOMAIN c PROVE c[i] = r \/ \E j \in DOMAIN h : c[i] = h[j]
  <2>1. CASE i <= Len(h)
    BY <1>1, <1>2, <1>3, <2>1
  <2>2. CASE ~(i <= Len(h))
    <3>1. i - Len(h) \in 1..Len(m)
      BY <1>1, <1>2, <1>3, <2>2
    <3> QED  BY <1>1, <1>2, <1>3, <2>2, <3>1
  <2> QED  BY <2>1, <2>2
<1> QED  BY <1>2, <1>4 DEF c

LEMMA Trims ==
    ASSUME NEW h \in Seq(Requests)
    PROVE  /\ Trimmed(h) \in Seq(Requests)
           /\ \A i \in DOMAIN Trimmed(h) : \E j \in DOMAIN h : Trimmed(h)[i] = h[j]
<1>1. Len(h) \in Nat /\ DOMAIN h = 1..Len(h)
  BY LenProperties
<1>2. CASE Len(h) > 2 * HistoryTurns
  <2> DEFINE m == Len(h) - 2 * HistoryTurns + 1
             c == SubSeq(h, m, Len(h))
  <2>1. 2 * HistoryTurns \in Nat
    BY LimitsAssumption
  <2>2. m \in 1..(Len(h) + 1) /\ Len(h) \in m - 1 .. Len(h)
    BY <1>1, <1>2, <2>1
  <2>3. /\ c \in Seq(Requests) /\ Len(c) = Len(h) - m + 1
        /\ \A i \in 1..(Len(h) - m + 1) : c[i] = h[m + i - 1]
    BY <2>2, SubSeqProperties
  <2>4. DOMAIN c = 1..Len(c)
    BY <2>3, LenProperties
  <2>5. Trimmed(h) = c
    BY <1>2 DEF Trimmed
  <2> HIDE DEF c, m
  <2>6. ASSUME NEW i \in DOMAIN c PROVE m + i - 1 \in DOMAIN h /\ c[i] = h[m + i - 1]
    BY <1>1, <2>2, <2>3, <2>4
  <2> QED  BY <2>3, <2>5, <2>6
<1>3. CASE ~(Len(h) > 2 * HistoryTurns)
  BY <1>3 DEF Trimmed
<1> QED  BY <1>2, <1>3

LEMMA TrimmedState ==
    ASSUME NEW y \in Session, NEW r
    PROVE  LET x == [y EXCEPT !.history = Trimmed(y.history)]
           IN  /\ x \in Session /\ x.owner = y.owner /\ x.base = y.base
               /\ \A t \in Turns(x) : t \in Turns(y) \/ t = r
<1> DEFINE c == Trimmed(y.history)
<1>1. /\ c \in Seq(Requests)
      /\ \A i \in DOMAIN c : c[i] = r \/ \E j \in DOMAIN y.history : c[i] = y.history[j]
  <2>1. y.history \in Seq(Requests)
    BY DEF Session
  <2> QED  BY <2>1, Trims
<1> HIDE DEF c
<1>2. /\ [y EXCEPT !.history = c] \in Session
      /\ [y EXCEPT !.history = c].owner = y.owner
      /\ [y EXCEPT !.history = c].base = y.base
      /\ \A t \in Turns([y EXCEPT !.history = c]) : t \in Turns(y) \/ t = r
  BY <1>1, NewHistory
<1> QED  BY <1>2 DEF c

-----------------------------------------------------------------------------
(* What every step of a request does *)

Frames ==
    [at : Places, intent : Intents, mine : Requests \cup {None},
     result : {"none", "failed", "empty", "ok"}, image : Session \cup {None}]

\* Request r goes on, the others wait.
Proceeds(r) ==
    /\ frame' \in [Requests -> Frames]
    /\ \A q \in Requests \ {r} : frame'[q] = frame[q]
    /\ InFlight(r) /\ frame'[r].at # "arrived"
    /\ UNCHANGED caller

LEMMA OverTyped ==
    /\ Frame("over") \in Frames /\ Frame("over").at = "over" /\ Frame("over").mine = None
    /\ Frame("over").result = "none" /\ Frame("over").image = None
BY DEF Frame, Frames, Places, Intents

LEMMA Entering ==
    ASSUME TypeOK, NEW r \in Requests, NEW f \in Frames, Enter(r, f)
    PROVE  /\ frame' \in [Requests -> Frames]
           /\ \A q \in Requests \ {r} : frame'[q] = frame[q]
           /\ frame'[r].at = f.at
           /\ f.at # "over" => frame'[r] = f
           /\ f.at = "over" => /\ frame'[r].mine = None /\ frame'[r].result = "none"
                               /\ frame'[r].image = None
<1>1. frame \in [Requests -> Frames]
  BY DEF TypeOK, Frames
<1>2. frame'[r] = IF f.at = "over" THEN Frame("over") ELSE f
  BY <1>1 DEF Enter
<1>3. frame' \in [Requests -> Frames] /\ \A q \in Requests \ {r} : frame'[q] = frame[q]
  BY <1>1, OverTyped DEF Enter
<1> QED  BY <1>2, <1>3, OverTyped

LEMMA Going ==
    ASSUME TypeOK, NEW r \in Requests, NEW place \in Places, Go(r, place)
    PROVE  /\ frame' \in [Requests -> Frames]
           /\ \A q \in Requests \ {r} : frame'[q] = frame[q]
           /\ frame'[r].at = place
           /\ place # "over" => /\ frame'[r].mine = Mine(r)
                                /\ frame'[r].intent = frame[r].intent
                                /\ frame'[r].result = frame[r].result
                                /\ frame'[r].image = frame[r].image
           /\ place = "over" => /\ frame'[r].mine = None /\ frame'[r].result = "none"
                                /\ frame'[r].image = None
<1> DEFINE f == [frame[r] EXCEPT !.at = place]
<1>1. frame[r] \in Frames
  BY DEF TypeOK, Frames
<1>2. f \in Frames /\ f.at = place
  BY <1>1 DEF Frames
<1>3. /\ f.mine = Mine(r) /\ f.intent = frame[r].intent
      /\ f.result = frame[r].result /\ f.image = frame[r].image
  BY <1>1 DEF Frames, Mine
<1>4. Enter(r, f)
  BY DEF Go
<1> HIDE DEF f
<1> QED  BY <1>2, <1>3, <1>4, Entering

\* Callers do not change, nor does a request arrive again.
Lasting ==
    /\ \A t \in Requests : Known(t) => Known(t)' /\ caller'[t] = caller[t]
    /\ succeeded \subseteq succeeded'

LEMMA ProperLasts ==
    ASSUME Lasting, NEW x \in Session, NEW u, NEW s, Proper(x, u, s)
    PROVE  /\ x.owner = u /\ x.base \in succeeded' \cup {None}
           /\ \A t \in Turns(x) : Known(t)' /\ caller'[t].user = u /\ caller'[t].session = s
<1>1. \A t \in Turns(x) : t \in Requests
  BY DEF Turns, Session
<1> QED  BY <1>1 DEF Proper, Lasting, User, SessionOf

LEMMA ObjectsLast ==
    ASSUME TypeOK, ObjectsProper, Lasting, heap' \in [Requests -> Session \cup {None}],
           \A o \in Requests : \/ heap'[o] = None \/ heap'[o] = heap[o]
                               \/ /\ Known(o)'
                                  /\ Proper(heap'[o], caller'[o].user, caller'[o].session)
    PROVE  ObjectsProper'
<1> SUFFICES ASSUME NEW o \in Requests, heap'[o] # None
             PROVE  Known(o)' /\ Proper(heap[o], User(o), SessionOf(o))'
  BY DEF ObjectsProper
<1> DEFINE x == heap'[o]
           u == caller'[o].user
           s == caller'[o].session
<1>1. Known(o)' /\ Proper(x, u, s)
  BY DEF ObjectsProper, Lasting, User, SessionOf
<1>2. x \in Session
  OBVIOUS
<1>3. /\ x.owner = u /\ x.base \in succeeded' \cup {None}
      /\ \A t \in Turns(x) : Known(t)' /\ caller'[t].user = u /\ caller'[t].session = s
  BY <1>1, <1>2, ProperLasts
<1> QED  BY <1>1, <1>3 DEF Proper, User, SessionOf

LEMMA StoredLasts ==
    ASSUME TypeOK, StoredProper, Lasting,
           disk' \in [Sessions -> Session \cup {None}], frame' \in [Requests -> Frames],
           \A s \in Sessions : \/ disk'[s] = None \/ disk'[s] = disk[s]
                               \/ Proper(disk'[s], disk'[s].owner, s),
           \A r \in Requests : \/ frame'[r].image = None
                               \/ Known(r) /\ frame'[r].image = frame[r].image
                               \/ Known(r) /\ Proper(frame'[r].image, User(r), SessionOf(r))
    PROVE  StoredProper'
<1>1. ASSUME NEW s \in Sessions, disk'[s] # None
      PROVE  Proper(disk[s], disk[s].owner, s)'
  <2> DEFINE x == disk'[s]
  <2>1. Proper(x, x.owner, s) /\ x \in Session
    BY <1>1 DEF StoredProper
  <2>2. /\ x.base \in succeeded' \cup {None}
        /\ \A t \in Turns(x) : Known(t)' /\ caller'[t].user = x.owner /\ caller'[t].session = s
    BY <2>1, ProperLasts
  <2> QED  BY <2>2 DEF Proper, User, SessionOf
<1>2. ASSUME NEW r \in Requests, frame'[r].image # None
      PROVE  Known(r)' /\ Proper(frame[r].image, User(r), SessionOf(r))'
  <2> DEFINE x == frame'[r].image
             u == caller[r].user
             s == caller[r].session
  <2>1. Known(r) /\ Proper(x, u, s) /\ x \in Session
    BY <1>2 DEF StoredProper, User, SessionOf, Frames
  <2>2. /\ x.owner = u /\ x.base \in succeeded' \cup {None}
        /\ \A t \in Turns(x) : Known(t)' /\ caller'[t].user = u /\ caller'[t].session = s
    BY <2>1, ProperLasts
  <2>3. Known(r)' /\ caller'[r] = caller[r]
    BY <2>1 DEF Lasting
  <2> QED  BY <2>2, <2>3 DEF Proper, User, SessionOf
<1> QED  BY <1>1, <1>2 DEF StoredProper

-----------------------------------------------------------------------------
(* What a step of a request leaves of the invariant *)

\* Only the request itself moved.
LEMMA Continues ==
    ASSUME IInv, NEW r \in Requests, Proceeds(r), Fits(r)', UNCHANGED alone,
           succeeded \subseteq succeeded',
           \A q \in Requests \ {r} : filled'[q] = filled[q]
    PROVE  Lasting /\ CallersKnown' /\ PlacesFit' /\ AloneInFlight'
<1>1. \A q \in Requests : (InFlight(q)' => InFlight(q)) /\ (Known(q) <=> Known(q)')
  BY DEF Proceeds, InFlight, Known, At
<1>2. Lasting
  BY <1>1 DEF Lasting, Proceeds
<1>3. CallersKnown'
  BY <1>1 DEF IInv, CallersKnown, Proceeds
<1>4. PlacesFit'
  <2>1. ASSUME NEW q \in Requests \ {r} PROVE Fits(q)'
    <3>1. frame'[q] = frame[q] /\ filled'[q] = filled[q] /\ Fits(q)
      BY DEF Proceeds, IInv, PlacesFit
    <3> QED  BY <3>1 DEF Fits, At, Mine
  <2> QED  BY <2>1 DEF PlacesFit
<1>5. AloneInFlight'
  <2>1. alone \subseteq Requests /\ alone' = alone /\ caller' = caller
    BY DEF IInv, TypeOK, Proceeds
  <2> SUFFICES ASSUME NEW q \in alone, NEW p \in Requests,
                      InFlight(q)', InFlight(p)', caller[p].session = caller[q].session
               PROVE  p = q
    BY <1>1, <2>1 DEF IInv, AloneInFlight, SessionOf
  <2> QED  BY <1>1, <2>1 DEF IInv, AloneInFlight, SessionOf
<1> QED  BY <1>2, <1>3, <1>4, <1>5

\* No object goes away; the request keeps its object or makes one of its own,
\* and stores no other.
LEMMA HeldOn ==
    ASSUME IInv, NEW r \in Requests, Proceeds(r),
           \A o \in Requests : heap[o] # None => heap'[o] # None,
           \/ frame'[r].mine = None
           \/ /\ InFlight(r)'
              /\ frame'[r].mine = Mine(r) \/ (frame'[r].mine = r /\ heap'[r] # None),
           \A w \in Workers, s \in Sessions :
               \/ items'[w][s] \in {None, items[w][s]}
               \/ w = Worker(r) /\ s = SessionOf(r) /\ items'[w][s] = Mine(r)
    PROVE  MineProper' /\ ItemsProper'
<1>1. \A q \in Requests : Mine(q) \in Requests \cup {None}
  BY DEF IInv, TypeOK, Mine
<1>2. \A w \in Workers, s \in Sessions : items[w][s] \in Requests \cup {None}
  BY DEF IInv, TypeOK
<1>3. MineProper'
  <2> SUFFICES ASSUME NEW q \in Requests, frame'[q].mine # None
               PROVE  /\ InFlight(q)' /\ heap'[frame'[q].mine] # None
                      /\ caller'[frame'[q].mine].user = caller'[q].user
                      /\ caller'[frame'[q].mine].session = caller'[q].session
                      /\ caller'[frame'[q].mine].worker = caller'[q].worker
    BY DEF MineProper, Mine, User, SessionOf, Worker
  <2>1. caller' = caller
    BY DEF Proceeds
  <2>2. CASE frame'[q].mine = Mine(q) /\ InFlight(q)'
    BY <1>1, <2>1, <2>2 DEF IInv, MineProper, User, SessionOf, Worker
  <2>3. CASE q = r /\ frame'[r].mine = r
    BY <1>1, <2>1, <2>3 DEF IInv, MineProper, User, SessionOf, Worker
  <2>4. CASE q # r
    <3>1. frame'[q] = frame[q]
      BY <2>4 DEF Proceeds
    <3>2. Mine(q) # None /\ InFlight(q)
      BY <3>1 DEF Mine, IInv, MineProper
    <3> QED  BY <2>2, <3>1, <3>2 DEF Mine, InFlight, At
  <2> QED  BY <2>2, <2>3, <2>4
<1>4. ItemsProper'
  <2> SUFFICES ASSUME NEW w \in Workers, NEW s \in Sessions, items'[w][s] # None
               PROVE  /\ heap'[items'[w][s]] # None
                      /\ caller'[items'[w][s]].session = s
                      /\ caller'[items'[w][s]].worker = w
    BY DEF ItemsProper, SessionOf, Worker
  <2>1. caller' = caller
    BY DEF Proceeds
  <2>2. CASE items'[w][s] = items[w][s]
    BY <1>2, <2>1, <2>2 DEF IInv, ItemsProper, SessionOf, Worker
  <2>3. CASE w = Worker(r) /\ s = SessionOf(r) /\ items'[w][s] = Mine(r)
    BY <1>1, <2>1, <2>3 DEF IInv, MineProper, SessionOf, Worker
  <2> QED  BY <2>2, <2>3
<1> QED  BY <1>3, <1>4

\* No question is asked, none answered; one that was answered may be removed.
LEMMA QuestionsKept ==
    ASSUME IInv, NEW r \in Requests, Proceeds(r), UNCHANGED <<filled, alone>>,
           Past(r) => Past(r)',
           \A w \in Workers, s \in Sessions : slots'[w][s] \in {None, slots[w][s]},
           \A s \in Sessions : slotDisk'[s] \in {None, slotDisk[s]},
           At(r) = "consume" =>
               slots'[Worker(r)][SessionOf(r)] = None /\ slotDisk'[SessionOf(r)] = None
    PROVE  SlotsProper' /\ Consumed' /\ AnsweredOnce'
<1>1. caller' = caller /\ filled' = filled /\ alone' = alone
  BY DEF Proceeds
<1>2. \A t \in Requests : Past(t) => Past(t)'
  BY DEF Proceeds, Past, At
<1>3. \A t \in Requests : filled[t] \in Requests \cup {None}
  BY DEF IInv, TypeOK
<1>4. \A x \in Slot, s \in Sessions : SlotProper(x, s) =>
          /\ Past(x.asked)'
          /\ caller'[x.asked].user = x.owner /\ caller'[x.asked].session = s
  BY <1>1, <1>2 DEF SlotProper, Slot, User, SessionOf
<1>5. /\ \A w \in Workers, s \in Sessions : slots[w][s] \in Slot \cup {None}
      /\ \A s \in Sessions : slotDisk[s] \in Slot \cup {None}
  BY DEF IInv, TypeOK
<1>6. SlotsProper'
  <2>1. ASSUME NEW w \in Workers, NEW s \in Sessions, slots'[w][s] # None
        PROVE  SlotProper(slots[w][s], s)'
    <3>1. slots'[w][s] = slots[w][s] /\ slots[w][s] \in Slot /\ SlotProper(slots[w][s], s)
      BY <1>5, <2>1 DEF IInv, SlotsProper
    <3> QED  BY <1>4, <3>1 DEF SlotProper, User, SessionOf
  <2>2. ASSUME NEW s \in Sessions, slotDisk'[s] # None
        PROVE  SlotProper(slotDisk[s], s)'
    <3>1. slotDisk'[s] = slotDisk[s] /\ slotDisk[s] \in Slot /\ SlotProper(slotDisk[s], s)
      BY <1>5, <2>2 DEF IInv, SlotsProper
    <3> QED  BY <1>4, <3>1 DEF SlotProper, User, SessionOf
  <2>3. ASSUME NEW q \in Requests, filled[q] # None
        PROVE  /\ Past(filled[q])'
               /\ caller'[filled[q]].user = caller'[q].user
               /\ caller'[filled[q]].session = caller'[q].session
    BY <1>1, <1>2, <1>3, <2>3 DEF IInv, SlotsProper, User, SessionOf
  <2> QED  BY <1>1, <2>1, <2>2, <2>3 DEF SlotsProper, User, SessionOf
<1>7. Consumed'
  <2> SUFFICES ASSUME NEW q \in alone, filled[q] # None, frame'[q].at # "consume",
                      NEW x \in {slots'[caller[q].worker][caller[q].session],
                                 slotDisk'[caller[q].session]},
                      x # None
               PROVE  x.asked # filled[q]
    BY <1>1, Zenon DEF Consumed, Answers, At, Worker, SessionOf
  <2>1. q \in Requests /\ caller[q] \in Callers
    BY DEF IInv, TypeOK, AloneInFlight, CallersKnown
  <2>2. caller[q].worker \in Workers /\ caller[q].session \in Sessions
    BY <2>1, CallersAssumption
  <2>3. At(q) # "consume"
    BY <2>1, <2>2 DEF Proceeds, At, Worker, SessionOf
  <2> QED  BY <2>1, <2>2, <2>3 DEF IInv, Consumed, Answers, Worker, SessionOf
<1>8. AnsweredOnce'
  BY <1>1 DEF IInv, AnsweredOnce, Worker
<1> QED  BY <1>6, <1>7, <1>8

-----------------------------------------------------------------------------
(* The parts that every step keeps *)

LEMMA Whose ==
    ASSUME IInv, NEW r \in Requests, Known(r)
    PROVE  /\ caller[r] \in Callers
           /\ User(r) \in Users /\ SessionOf(r) \in Sessions /\ Worker(r) \in Workers
BY CallersAssumption DEF IInv, CallersKnown, User, SessionOf, Worker

\* The request goes on to another place.
LEMMA Proceeding ==
    ASSUME IInv, NEW r \in Requests, InFlight(r), UNCHANGED caller,
           NEW place \in Places \ {"arrived"}, Go(r, place)
    PROVE  /\ Proceeds(r) /\ frame'[r].at = place
           /\ \/ /\ place # "over"
                 /\ frame'[r].mine = Mine(r) /\ frame'[r].intent = frame[r].intent
                 /\ frame'[r].result = frame[r].result /\ frame'[r].image = frame[r].image
              \/ /\ place = "over"
                 /\ frame'[r].mine = None /\ frame'[r].result = "none" /\ frame'[r].image = None
BY Going DEF IInv, Proceeds

\* The request edits a state, stores it or drops states.
LEMMA SessionsEdited ==
    ASSUME IInv, NEW r \in Requests, Proceeds(r), Lasting,
           heap' \in [Requests -> Session \cup {None}],
           disk' \in [Sessions -> Session \cup {None}],
           \A o \in Requests : \/ heap'[o] = heap[o]
                               \/ /\ heap'[o] # None /\ Known(o)
                                  /\ Proper(heap'[o], User(o), SessionOf(o)),
           \A w \in Workers, s \in Sessions :
               \/ items'[w][s] \in {None, items[w][s]}
               \/ w = Worker(r) /\ s = SessionOf(r) /\ items'[w][s] = Mine(r),
           \A s \in Sessions : \/ disk'[s] = None \/ disk'[s] = disk[s]
                               \/ Proper(disk'[s], disk'[s].owner, s),
           \/ frame'[r].mine = None
           \/ /\ InFlight(r)'
              /\ frame'[r].mine = Mine(r) \/ (frame'[r].mine = r /\ heap'[r] # None),
           \/ frame'[r].image \in {None, frame[r].image}
           \/ Proper(frame'[r].image, User(r), SessionOf(r))
    PROVE  ObjectsProper' /\ MineProper' /\ ItemsProper' /\ StoredProper'
<1>1. TypeOK /\ frame' \in [Requests -> Frames] /\ caller' = caller
  BY DEF IInv, Proceeds
<1>2. ObjectsProper'
  <2>1. \A o \in Requests : \/ heap'[o] = None \/ heap'[o] = heap[o]
                            \/ /\ Known(o)'
                               /\ Proper(heap'[o], caller'[o].user, caller'[o].session)
    BY <1>1 DEF Lasting, User, SessionOf
  <2> QED  BY <1>1, <2>1, ObjectsLast DEF IInv
<1>3. MineProper' /\ ItemsProper'
  BY HeldOn
<1>4. \A q \in Requests : \/ frame'[q].image = None
                          \/ Known(q) /\ frame'[q].image = frame[q].image
                          \/ Known(q) /\ Proper(frame'[q].image, User(q), SessionOf(q))
  <2>1. ASSUME NEW q \in Requests, q # r PROVE frame'[q].image = frame[q].image
    BY <2>1 DEF Proceeds
  <2>2. \A q \in Requests : frame[q].image # None => Known(q)
    BY DEF IInv, StoredProper
  <2>3. Known(r)
    BY DEF Proceeds, InFlight, Known
  <2> QED  BY <2>1, <2>2, <2>3
<1>5. StoredProper'
  BY <1>1, <1>4, StoredLasts DEF IInv
<1> QED  BY <1>2, <1>3, <1>5

-----------------------------------------------------------------------------
(* The steps that leave the questions to the user alone *)

LEMMA NothingAsked ==
    ASSUME IInv, NEW r \in Requests, Proceeds(r), UNCHANGED <<filled, alone, slotVars>>,
           Past(r) => Past(r)', At(r) # "consume"
    PROVE  SlotsProper' /\ Consumed' /\ AnsweredOnce'
BY QuestionsKept DEF slotVars

LEMMA TypeKept ==
    ASSUME TypeOK, frame' \in [Requests -> Frames], UNCHANGED <<caller, filled, alone, slotVars>>,
           succeeded' \subseteq Requests,
           heap' \in [Requests -> Session \cup {None}],
           items' \in [Workers -> [Sessions -> Requests \cup {None}]],
           disk' \in [Sessions -> Session \cup {None}],
           acked' \in [Sessions -> Requests \cup {None}], cleared' \subseteq Requests
    PROVE  TypeOK'
BY DEF TypeOK, slotVars, Frames

\* A step that leaves the questions alone keeps the invariant if it fits.
LEMMA Unasking ==
    ASSUME IInv, NEW r \in Requests, Proceeds(r), Fits(r)',
           UNCHANGED <<filled, alone, slotVars>>,
           Past(r) => Past(r)', At(r) # "consume",
           succeeded \subseteq succeeded', succeeded' \subseteq Requests,
           acked' \in [Sessions -> Requests \cup {None}], cleared' \subseteq Requests,
           heap' \in [Requests -> Session \cup {None}],
           items' \in [Workers -> [Sessions -> Requests \cup {None}]],
           disk' \in [Sessions -> Session \cup {None}],
           \A o \in Requests : \/ heap'[o] = heap[o]
                               \/ /\ heap'[o] # None /\ Known(o)
                                  /\ Proper(heap'[o], User(o), SessionOf(o)),
           \A w \in Workers, s \in Sessions :
               \/ items'[w][s] \in {None, items[w][s]}
               \/ w = Worker(r) /\ s = SessionOf(r) /\ items'[w][s] = Mine(r),
           \A s \in Sessions : \/ disk'[s] = None \/ disk'[s] = disk[s]
                               \/ Proper(disk'[s], disk'[s].owner, s),
           \/ frame'[r].mine = None
           \/ /\ InFlight(r)'
              /\ frame'[r].mine = Mine(r) \/ (frame'[r].mine = r /\ heap'[r] # None),
           \/ frame'[r].image \in {None, frame[r].image}
           \/ Proper(frame'[r].image, User(r), SessionOf(r))
    PROVE  IInv'
<1>1. Lasting /\ CallersKnown' /\ PlacesFit' /\ AloneInFlight'
  BY Continues
<1>2. ObjectsProper' /\ MineProper' /\ ItemsProper' /\ StoredProper'
  BY <1>1, SessionsEdited
<1>3. SlotsProper' /\ Consumed' /\ AnsweredOnce'
  BY NothingAsked
<1>4. TypeOK'
  BY TypeKept DEF IInv, Proceeds
<1> QED  BY <1>1, <1>2, <1>3, <1>4 DEF IInv

\* The states of the sessions stay what they are.
LEMMA Passing ==
    ASSUME IInv, NEW r \in Requests, Proceeds(r), Fits(r)',
           UNCHANGED <<filled, alone, acked, cleared, slotVars, sessionVars>>,
           Past(r) => Past(r)', At(r) # "consume",
           succeeded \subseteq succeeded', succeeded' \subseteq Requests,
           frame'[r].mine = None \/ (frame'[r].mine = Mine(r) /\ InFlight(r)'),
           \/ frame'[r].image \in {None, frame[r].image}
           \/ Proper(frame'[r].image, User(r), SessionOf(r))
    PROVE  IInv'
<1>1. /\ heap' \in [Requests -> Session \cup {None}] /\ heap' = heap
      /\ items' \in [Workers -> [Sessions -> Requests \cup {None}]] /\ items' = items
      /\ disk' \in [Sessions -> Session \cup {None}] /\ disk' = disk
      /\ acked' \in [Sessions -> Requests \cup {None}] /\ cleared' \subseteq Requests
  BY DEF sessionVars, IInv, TypeOK
<1> QED  BY <1>1, Unasking

LEMMA RouteStep == ASSUME IInv, NEW r \in Requests, Route(r) PROVE IInv'
<1>1. PICK i \in Intents, place \in Places :
          /\ CASE i \in {"chitchat", "glossary", "data"} -> place = "drop"
               [] i = "clarify" -> place \in {"ask", Recording(r, "note")}
               [] i = "reset"   -> place = "dropany"
               [] i = "other"   -> place = "over"
          /\ Enter(r, [frame[r] EXCEPT !.at = place, !.intent = i])
  BY DEF Route
<1> DEFINE f == [frame[r] EXCEPT !.at = place, !.intent = i]
<1>2. At(r) = "route" /\ frame[r] \in Frames /\ InFlight(r) /\ Fits(r)
  BY DEF Route, IInv, TypeOK, Frames, InFlight, PlacesFit
<1>3. /\ f \in Frames /\ f.at = place /\ f.intent = i /\ f.mine = Mine(r)
      /\ f.result = frame[r].result /\ f.image = frame[r].image
  BY <1>2 DEF Frames, Mine
<1>4. /\ place \in {"drop", "ask", "note", "dropany", "over"}
      /\ place = "drop" => i \in {"chitchat", "glossary", "data"}
      /\ place = "ask" => i = "clarify"
      /\ place = "note" => Mine(r) # None
  BY <1>1 DEF Recording, Intents
<1>5. UNCHANGED <<caller, filled, sessionVars, slotVars, succeeded, alone, acked, cleared>>
  BY DEF Route, historyVars
<1>6. Enter(r, f)
  BY <1>1
<1> HIDE DEF f
<1>7. /\ frame' \in [Requests -> Frames] /\ \A q \in Requests \ {r} : frame'[q] = frame[q]
      /\ frame'[r].at = place
      /\ place # "over" => frame'[r] = f
      /\ place = "over" => frame'[r].mine = None /\ frame'[r].result = "none" /\ frame'[r].image = None
  BY <1>3, <1>6, Entering DEF IInv
<1>8. Proceeds(r)
  BY <1>2, <1>4, <1>5, <1>7 DEF Proceeds
<1>9. Fits(r)'
  BY <1>2, <1>3, <1>4, <1>5, <1>7 DEF Fits, At, Mine
<1>10. frame'[r].mine = None \/ (frame'[r].mine = Mine(r) /\ InFlight(r)')
  BY <1>3, <1>4, <1>7 DEF InFlight, At
<1>11. frame'[r].image \in {None, frame[r].image} /\ ~Past(r) /\ succeeded' \subseteq Requests
  BY <1>2, <1>3, <1>5, <1>7 DEF Past, IInv, TypeOK
<1> QED  BY <1>2, <1>5, <1>8, <1>9, <1>10, <1>11, Passing

LEMMA RunStep == ASSUME IInv, NEW r \in Requests, Run(r) PROVE IInv'
<1>1. At(r) = "run" /\ frame[r] \in Frames /\ InFlight(r) /\ Fits(r) /\ ~Past(r)
  BY DEF Run, IInv, TypeOK, Frames, InFlight, PlacesFit, Past
<1>2. UNCHANGED <<caller, filled, sessionVars, slotVars, alone, acked, cleared>>
  BY DEF Run
<1>3. CASE Go(r, "over") /\ UNCHANGED succeeded
  <2>1. /\ Proceeds(r) /\ frame'[r].at = "over" /\ frame'[r].mine = None
        /\ frame'[r].result = "none" /\ frame'[r].image = None
    BY <1>1, <1>2, <1>3, Proceeding DEF Places
  <2>2. Fits(r)'
    BY <2>1 DEF Fits, At
  <2>3. succeeded' = succeeded /\ succeeded' \subseteq Requests
    BY <1>3 DEF IInv, TypeOK
  <2> QED  BY <1>1, <1>2, <2>1, <2>2, <2>3, Passing
<1>4. ASSUME NEW result \in {"failed", "empty", "ok", "none"},
             NEW place \in {"ask", Answered(r, result)},
             IF frame[r].intent = "data" THEN result # "none" ELSE result = "none",
             Enter(r, [frame[r] EXCEPT !.at = place, !.result = result]),
             succeeded' = IF result = "ok" THEN succeeded \cup {r} ELSE succeeded
      PROVE  IInv'
  <2> DEFINE f == [frame[r] EXCEPT !.at = place, !.result = result]
  <2>1. /\ place \in {"ask", "switch", "note", "over", "record"}
        /\ place \in {"switch", "note"} /\ result = "none" => Mine(r) # None
        /\ place = "record" => result = "ok"
        /\ place = "switch" => Mine(r) # None
    BY <1>1, <1>4 DEF Answered, Recording, Fits
  <2>2. frame[r].intent = "data" /\ place = "note" => Mine(r) # None
    BY <1>1, <1>4 DEF Answered, Recording
  <2>3. /\ f \in Frames /\ f.at = place /\ f.intent = frame[r].intent /\ f.mine = Mine(r)
        /\ f.result = result /\ f.image = frame[r].image
    BY <1>1, <2>1 DEF Frames, Mine, Places
  <2>4. Enter(r, f)
    BY <1>4
  <2> HIDE DEF f
  <2>5. /\ frame' \in [Requests -> Frames] /\ \A q \in Requests \ {r} : frame'[q] = frame[q]
        /\ frame'[r].at = place
        /\ place # "over" => frame'[r] = f
        /\ place = "over" => frame'[r].mine = None /\ frame'[r].result = "none" /\ frame'[r].image = None
    BY <2>3, <2>4, Entering DEF IInv
  <2>6. Proceeds(r)
    BY <1>1, <1>2, <2>1, <2>5 DEF Proceeds
  <2>7. place = "note" => Mine(r) # None
    BY <1>1, <1>4, <2>1, <2>2 DEF Fits
  <2>8. Fits(r)'
    BY <1>1, <1>4, <2>1, <2>3, <2>5, <2>7 DEF Fits, At, Mine
  <2>9. frame'[r].mine = None \/ (frame'[r].mine = Mine(r) /\ InFlight(r)')
    BY <2>1, <2>3, <2>5 DEF InFlight, At
  <2>10. /\ frame'[r].image \in {None, frame[r].image}
         /\ succeeded \subseteq succeeded' /\ succeeded' \subseteq Requests
    BY <1>4, <2>3, <2>5 DEF IInv, TypeOK
  <2> QED  BY <1>1, <1>2, <2>6, <2>8, <2>9, <2>10, Passing
<1>5. \/ Go(r, "over") /\ UNCHANGED succeeded
      \/ \E result \in {"failed", "empty", "ok", "none"} :
            /\ IF frame[r].intent = "data" THEN result # "none" ELSE result = "none"
            /\ \E place \in {"ask", Answered(r, result)} :
                  Enter(r, [frame[r] EXCEPT !.at = place, !.result = result])
            /\ succeeded' = IF result = "ok" THEN succeeded \cup {r} ELSE succeeded
  BY DEF Run
<1> QED  BY <1>3, <1>4, <1>5

\* A request with a session edits the object it works on.
LEMMA Editing ==
    ASSUME IInv, NEW r \in Requests, Proceeds(r), Fits(r)', Mine(r) # None,
           UNCHANGED <<filled, items, slotVars, succeeded, alone, acked, cleared>>,
           Past(r) => Past(r)', Past(r)' \/ At(r) = "resolve", InFlight(r)',
           At(r) # "consume",
           frame'[r].mine = Mine(r), frame'[r].image = frame[r].image,
           disk' \in [Sessions -> Session \cup {None}],
           \A s \in Sessions : disk'[s] \in {None, disk[s]},
           NEW x \in Session, heap' = [heap EXCEPT ![Mine(r)] = x],
           x.owner = heap[Mine(r)].owner, x.base \in {None, heap[Mine(r)].base, r},
           x.base = r => r \in succeeded,
           \A t \in Turns(x) : t \in Turns(heap[Mine(r)]) \/ t = r
    PROVE  IInv'
<1> DEFINE o == Mine(r)
<1>1. /\ Known(r) /\ o \in Requests /\ heap \in [Requests -> Session \cup {None}]
      /\ heap[o] # None /\ Known(o) /\ Proper(heap[o], User(o), SessionOf(o))
      /\ User(o) = User(r) /\ SessionOf(o) = SessionOf(r)
  BY DEF IInv, TypeOK, Mine, MineProper, ObjectsProper, Proceeds, InFlight, Known
<1>2. heap' \in [Requests -> Session \cup {None}]
  BY <1>1
<1>3. heap'[o] = x /\ \A p \in Requests \ {o} : heap'[p] = heap[p]
  BY <1>1
<1>4. x # None
  BY NoneAssumption
<1>5. Proper(x, User(o), SessionOf(o))
  BY <1>1 DEF Proper
<1>6. /\ items' \in [Workers -> [Sessions -> Requests \cup {None}]] /\ items' = items
      /\ acked' \in [Sessions -> Requests \cup {None}] /\ cleared' \subseteq Requests
      /\ succeeded' = succeeded /\ succeeded' \subseteq Requests
  BY DEF IInv, TypeOK
<1>7. \A p \in Requests : \/ heap'[p] = heap[p]
                          \/ /\ heap'[p] # None /\ Known(p)
                             /\ Proper(heap'[p], User(p), SessionOf(p))
  BY <1>1, <1>3, <1>4, <1>5
<1> HIDE DEF o
<1> QED  BY <1>2, <1>6, <1>7, Unasking

LEMMA ResolveStep == ASSUME IInv, NEW r \in Requests, Resolve(r) PROVE IInv'
<1>1. /\ At(r) = "resolve" /\ InFlight(r) /\ Fits(r) /\ ~Past(r)
      /\ Go(r, "run") /\ UNCHANGED <<caller, filled, items, disk, slotVars, historyVars>>
  BY DEF Resolve, InFlight, Past, IInv, PlacesFit
<1>2. UNCHANGED <<succeeded, alone, acked, cleared>>
  BY <1>1 DEF historyVars
<1>3. /\ Proceeds(r) /\ frame'[r].at = "run"
      /\ frame'[r].mine = Mine(r) /\ frame'[r].intent = frame[r].intent
      /\ frame'[r].result = frame[r].result /\ frame'[r].image = frame[r].image
  BY <1>1, Proceeding DEF Places
<1>4. Fits(r)' /\ InFlight(r)'
  BY <1>1, <1>2, <1>3 DEF Fits, At, Mine, InFlight
<1>5. CASE heap' = heap
  <2>1. UNCHANGED sessionVars
    BY <1>1, <1>5 DEF sessionVars
  <2>2. succeeded' = succeeded /\ succeeded' \subseteq Requests
    BY <1>2 DEF IInv, TypeOK
  <2> QED  BY <1>1, <1>2, <1>3, <1>4, <2>1, <2>2, Passing
<1>6. CASE Mine(r) # None /\ heap' = [heap EXCEPT ![Mine(r)].base = None]
  <2> DEFINE x == [heap[Mine(r)] EXCEPT !.base = None]
  <2>1. heap[Mine(r)] \in Session
    BY <1>6 DEF IInv, TypeOK, MineProper, Mine
  <2>2. /\ x \in Session /\ x.owner = heap[Mine(r)].owner /\ x.base = None
        /\ \A t \in Turns(x) : t \in Turns(heap[Mine(r)])
    BY <2>1, NewBase
  <2>3. heap' = [heap EXCEPT ![Mine(r)] = x]
    BY <1>6
  <2>4. None # r /\ disk' = disk /\ disk' \in [Sessions -> Session \cup {None}]
    BY <1>1, NoneAssumption DEF IInv, TypeOK
  <2> HIDE DEF x
  <2> QED  BY <1>1, <1>2, <1>3, <1>4, <1>6, <2>2, <2>3, <2>4, Editing
<1>7. heap' = heap \/ (Mine(r) # None /\ heap' = [heap EXCEPT ![Mine(r)].base = None])
  BY DEF Resolve
<1> QED  BY <1>5, <1>6, <1>7

LEMMA SwitchStep == ASSUME IInv, NEW r \in Requests, Switch(r) PROVE IInv'
<1>1. /\ At(r) = "switch" /\ InFlight(r) /\ Fits(r) /\ Mine(r) # None
      /\ heap' = [heap EXCEPT ![Mine(r)].base = None]
      /\ Go(r, "note") /\ UNCHANGED <<caller, filled, items, disk, slotVars, historyVars>>
  BY DEF Switch, InFlight, IInv, PlacesFit, Fits
<1>2. UNCHANGED <<succeeded, alone, acked, cleared>>
  BY <1>1 DEF historyVars
<1>3. /\ Proceeds(r) /\ frame'[r].at = "note"
      /\ frame'[r].mine = Mine(r) /\ frame'[r].intent = frame[r].intent
      /\ frame'[r].result = frame[r].result /\ frame'[r].image = frame[r].image
  BY <1>1, Proceeding DEF Places
<1>4. Fits(r)' /\ InFlight(r)' /\ Past(r)'
  BY <1>1, <1>2, <1>3 DEF Fits, At, Mine, InFlight, Past
<1> DEFINE x == [heap[Mine(r)] EXCEPT !.base = None]
<1>5. heap[Mine(r)] \in Session
  BY <1>1 DEF IInv, TypeOK, MineProper, Mine
<1>6. /\ x \in Session /\ x.owner = heap[Mine(r)].owner /\ x.base = None
      /\ \A t \in Turns(x) : t \in Turns(heap[Mine(r)])
  BY <1>5, NewBase
<1>7. heap' = [heap EXCEPT ![Mine(r)] = x]
  BY <1>1
<1>8. None # r /\ disk' = disk /\ disk' \in [Sessions -> Session \cup {None}]
  BY <1>1, NoneAssumption DEF IInv, TypeOK
<1> HIDE DEF x
<1> QED  BY <1>1, <1>2, <1>3, <1>4, <1>6, <1>7, <1>8, Editing

LEMMA NoteStep == ASSUME IInv, NEW r \in Requests, Note(r) PROVE IInv'
<1> DEFINE m == IF frame[r].intent = "glossary" \/ frame[r].result = "ok" THEN <<r, r>> ELSE <<r>>
           h == heap[Mine(r)].history
           c == h \o m
           y == heap[Mine(r)]
           x == [y EXCEPT !.history = c]
<1>1. /\ At(r) = "note" /\ InFlight(r) /\ Fits(r) /\ Mine(r) # None
      /\ heap' = [heap EXCEPT ![Mine(r)].history = @ \o m]
      /\ Go(r, "check") /\ UNCHANGED <<caller, filled, items, disk, slotVars, historyVars>>
  BY DEF Note, InFlight, IInv, PlacesFit, Fits
<1>2. UNCHANGED <<succeeded, alone, acked, cleared>>
  BY <1>1 DEF historyVars
<1>3. /\ Proceeds(r) /\ frame'[r].at = "check"
      /\ frame'[r].mine = Mine(r) /\ frame'[r].intent = frame[r].intent
      /\ frame'[r].result = frame[r].result /\ frame'[r].image = frame[r].image
  BY <1>1, Proceeding DEF Places
<1>4. Fits(r)' /\ InFlight(r)' /\ Past(r)'
  BY <1>1, <1>2, <1>3 DEF Fits, At, Mine, InFlight, Past
<1>5. heap[Mine(r)] \in Session /\ h \in Seq(Requests) /\ m \in {<<r, r>>, <<r>>}
  BY <1>1 DEF IInv, TypeOK, MineProper, Mine, Session
<1>6. heap' = [heap EXCEPT ![Mine(r)] = x]
  BY <1>1
<1> HIDE DEF m
<1>7. /\ c \in Seq(Requests)
      /\ \A i \in DOMAIN c : c[i] = r \/ \E j \in DOMAIN y.history : c[i] = y.history[j]
  BY <1>5, Noted
<1>8. /\ x \in Session /\ x.owner = y.owner /\ x.base = y.base
      /\ \A t \in Turns(x) : t \in Turns(y) \/ t = r
  <2> HIDE DEF c, y
  <2>1. y \in Session
    BY <1>5 DEF y
  <2> QED  BY <1>7, <2>1, NewHistory
<1>9. x.base \in succeeded \cup {None} /\ None # r
  BY <1>1, <1>8, NoneAssumption DEF IInv, TypeOK, MineProper, ObjectsProper, Proper, Mine
<1>10. disk' = disk /\ disk' \in [Sessions -> Session \cup {None}]
  BY <1>1 DEF IInv, TypeOK
<1> HIDE DEF x
<1> QED  BY <1>1, <1>2, <1>3, <1>4, <1>6, <1>8, <1>9, <1>10, Editing

LEMMA RecordStep == ASSUME IInv, NEW r \in Requests, Record(r) PROVE IInv'
<1>1. /\ At(r) = "record" /\ InFlight(r) /\ Known(r) /\ Fits(r) /\ r \in succeeded
      /\ frame[r] \in Frames
      /\ UNCHANGED <<caller, filled, items, disk, slotVars, historyVars>>
  BY DEF Record, InFlight, Known, IInv, TypeOK, Frames, PlacesFit, Fits
<1>2. UNCHANGED <<succeeded, alone, acked, cleared>>
  BY <1>1 DEF historyVars
<1>3. /\ items' = items /\ items' \in [Workers -> [Sessions -> Requests \cup {None}]]
      /\ disk' = disk /\ disk' \in [Sessions -> Session \cup {None}]
      /\ acked' \in [Sessions -> Requests \cup {None}] /\ cleared' \subseteq Requests
      /\ succeeded' = succeeded /\ succeeded' \subseteq Requests /\ None # r
  BY <1>1, <1>2, NoneAssumption DEF IInv, TypeOK
<1>4. CASE Mine(r) = None
  <2> DEFINE x == [owner |-> User(r), base |-> r, history |-> <<>>]
             f == [frame[r] EXCEPT !.at = "note", !.mine = r]
  <2>1. heap' = [heap EXCEPT ![r] = x] /\ Enter(r, f)
    BY <1>4 DEF Record
  <2>2. x \in Session /\ x.owner = User(r) /\ x.base = r /\ x.history = <<>>
    BY <1>1, Whose DEF Session
  <2>3. /\ f \in Frames /\ f.at = "note" /\ f.mine = r /\ f.intent = frame[r].intent
        /\ f.result = frame[r].result /\ f.image = frame[r].image
    BY <1>1 DEF Frames, Places
  <2> HIDE DEF x, f
  <2>4. \A t \in Turns(x) : t = r
    BY <2>2 DEF Turns
  <2>5. Proper(x, User(r), SessionOf(r))
    BY <1>1, <2>2, <2>4 DEF Proper
  <2>6. /\ frame' \in [Requests -> Frames] /\ frame'[r] = f
        /\ \A q \in Requests \ {r} : frame'[q] = frame[q]
    BY <2>1, <2>3, Entering DEF IInv
  <2>7. Proceeds(r)
    BY <1>1, <2>3, <2>6 DEF Proceeds
  <2>8. Fits(r)' /\ InFlight(r)' /\ Past(r)'
    BY <1>1, <1>3, <2>3, <2>6 DEF Fits, At, Mine, InFlight, Past
  <2>9. heap \in [Requests -> Session \cup {None}] /\ x # None
    BY <2>2, NoneAssumption DEF IInv, TypeOK
  <2>10. /\ heap' \in [Requests -> Session \cup {None}] /\ heap'[r] = x /\ heap'[r] # None
         /\ \A o \in Requests : \/ heap'[o] = heap[o]
                                \/ /\ heap'[o] # None /\ Known(o)
                                   /\ Proper(heap'[o], User(o), SessionOf(o))
    BY <1>1, <2>1, <2>2, <2>5, <2>9
  <2>11. frame'[r].mine = r /\ frame'[r].image = frame[r].image
    BY <2>3, <2>6
  <2> QED  BY <1>1, <1>2, <1>3, <2>7, <2>8, <2>10, <2>11, Unasking
<1>5. CASE Mine(r) # None
  <2> DEFINE x == [heap[Mine(r)] EXCEPT !.base = r]
  <2>1. heap' = [heap EXCEPT ![Mine(r)] = x] /\ Go(r, "note")
    BY <1>5 DEF Record
  <2>2. heap[Mine(r)] \in Session
    BY <1>5 DEF IInv, TypeOK, MineProper, Mine
  <2>3. /\ x \in Session /\ x.owner = heap[Mine(r)].owner /\ x.base = r
        /\ \A t \in Turns(x) : t \in Turns(heap[Mine(r)]) \/ t = r
    BY <2>2, NewBase
  <2> HIDE DEF x
  <2>4. /\ Proceeds(r) /\ frame'[r].at = "note"
        /\ frame'[r].mine = Mine(r) /\ frame'[r].intent = frame[r].intent
        /\ frame'[r].result = frame[r].result /\ frame'[r].image = frame[r].image
    BY <1>1, <2>1, Proceeding DEF Places
  <2>5. Fits(r)' /\ InFlight(r)' /\ Past(r)'
    BY <1>1, <1>3, <1>5, <2>4 DEF Fits, At, Mine, InFlight, Past
  <2> QED  BY <1>1, <1>2, <1>3, <1>5, <2>1, <2>3, <2>4, <2>5, Editing
<1> QED  BY <1>4, <1>5

LEMMA CheckStep == ASSUME IInv, NEW r \in Requests, Check(r) PROVE IInv'
<1>1. /\ At(r) = "check" /\ InFlight(r) /\ Fits(r) /\ Mine(r) # None
      /\ UNCHANGED <<caller, filled, items, slotVars, historyVars>>
  BY DEF Check, InFlight, IInv, PlacesFit, Fits
<1>2. UNCHANGED <<succeeded, alone, acked, cleared>>
  BY <1>1 DEF historyVars
<1>3. /\ disk \in [Sessions -> Session \cup {None}] /\ succeeded \subseteq Requests
      /\ None # r
  BY NoneAssumption DEF IInv, TypeOK
<1>4. CASE Go(r, "over") /\ UNCHANGED <<heap, disk>>
  <2>1. /\ Proceeds(r) /\ frame'[r].at = "over" /\ frame'[r].mine = None
        /\ frame'[r].result = "none" /\ frame'[r].image = None
    BY <1>1, <1>4, Proceeding DEF Places
  <2>2. Fits(r)' /\ Past(r)'
    BY <2>1 DEF Fits, At, Past
  <2>3. UNCHANGED sessionVars /\ succeeded' = succeeded
    BY <1>1, <1>2, <1>4 DEF sessionVars
  <2> QED  BY <1>1, <1>2, <1>3, <2>1, <2>2, <2>3, Passing
<1>5. CASE /\ heap' = [heap EXCEPT ![Mine(r)].history = Trimmed(@)]
           /\ Go(r, "store")
           /\ disk' \in {disk, [disk EXCEPT ![SessionOf(r)] = None]}
  <2> DEFINE y == heap[Mine(r)]
             c == Trimmed(y.history)
             x == [y EXCEPT !.history = c]
  <2>1. heap' = [heap EXCEPT ![Mine(r)] = x]
    BY <1>5
  <2>2. y \in Session /\ y.history \in Seq(Requests) /\ y.base \in succeeded \cup {None}
    BY <1>1 DEF IInv, TypeOK, MineProper, ObjectsProper, Proper, Mine, Session
  <2>3. /\ x \in Session /\ x.owner = y.owner /\ x.base = y.base
        /\ \A t \in Turns(x) : t \in Turns(y) \/ t = r
    BY <2>2, TrimmedState
  <2>4. /\ Proceeds(r) /\ frame'[r].at = "store"
        /\ frame'[r].mine = Mine(r) /\ frame'[r].intent = frame[r].intent
        /\ frame'[r].result = frame[r].result /\ frame'[r].image = frame[r].image
    BY <1>1, <1>5, Proceeding DEF Places
  <2>5. Fits(r)' /\ InFlight(r)' /\ Past(r)'
    BY <1>1, <1>2, <2>4 DEF Fits, At, Mine, InFlight, Past
  <2>6. /\ disk' \in [Sessions -> Session \cup {None}]
        /\ \A s \in Sessions : disk'[s] \in {None, disk[s]}
    BY <1>3, <1>5
  <2>7. x.base \in {None, y.base, r} /\ (x.base = r => r \in succeeded)
    BY <1>3, <2>2, <2>3
  <2> HIDE DEF x
  <2> QED  BY <1>1, <1>2, <2>1, <2>3, <2>4, <2>5, <2>6, <2>7, Editing
<1> QED  BY <1>4, <1>5 DEF Check

LEMMA StoreStep == ASSUME IInv, NEW r \in Requests, Store(r) PROVE IInv'
<1> DEFINE w == Worker(r)
           s == SessionOf(r)
           other == {t \in Sessions \ {s} : items[w][t] # None}
<1>1. PICK keep \in SUBSET other :
        /\ items' = [items EXCEPT ![w] = [t \in Sessions |->
                         IF t = s THEN Mine(r) ELSE IF t \in keep THEN @[t] ELSE None]]
        /\ disk' = [t \in Sessions |-> IF t \in other \ keep THEN None ELSE disk[t]]
  BY DEF Store
<1>2. /\ At(r) = "store" /\ InFlight(r) /\ Known(r) /\ Fits(r) /\ Mine(r) # None
      /\ Go(r, IF Durable THEN "dump" ELSE "over")
      /\ UNCHANGED <<caller, filled, heap, slotVars, historyVars>>
  BY DEF Store, InFlight, Known, IInv, PlacesFit, Fits
<1>3. UNCHANGED <<succeeded, alone, acked, cleared>>
  BY <1>2 DEF historyVars
<1> DEFINE place == IF Durable THEN "dump" ELSE "over"
<1>4. /\ Proceeds(r) /\ frame'[r].at = place
      /\ \/ /\ place # "over"
            /\ frame'[r].mine = Mine(r) /\ frame'[r].intent = frame[r].intent
            /\ frame'[r].result = frame[r].result /\ frame'[r].image = frame[r].image
         \/ /\ place = "over"
            /\ frame'[r].mine = None /\ frame'[r].result = "none" /\ frame'[r].image = None
  BY <1>2, Proceeding DEF Places
<1>5. Fits(r)' /\ Past(r)'
  BY <1>2, <1>3, <1>4 DEF Fits, At, Mine, Past
<1>6. InFlight(r)' \/ frame'[r].mine = None
  BY <1>4 DEF InFlight, At
<1>7. /\ items \in [Workers -> [Sessions -> Requests \cup {None}]]
      /\ disk \in [Sessions -> Session \cup {None}] /\ Mine(r) \in Requests \cup {None}
      /\ heap' = heap /\ heap' \in [Requests -> Session \cup {None}]
      /\ acked' \in [Sessions -> Requests \cup {None}] /\ cleared' \subseteq Requests
      /\ succeeded' = succeeded /\ succeeded' \subseteq Requests
  BY <1>2, <1>3 DEF IInv, TypeOK, Mine
<1>8. /\ items' \in [Workers -> [Sessions -> Requests \cup {None}]]
      /\ \A v \in Workers, t \in Sessions :
            \/ items'[v][t] \in {None, items[v][t]}
            \/ v = Worker(r) /\ t = SessionOf(r) /\ items'[v][t] = Mine(r)
  BY <1>1, <1>7
<1>9. /\ disk' \in [Sessions -> Session \cup {None}]
      /\ \A t \in Sessions : disk'[t] = None \/ disk'[t] = disk[t]
  BY <1>1, <1>7
<1> HIDE DEF place
<1> QED  BY <1>2, <1>3, <1>4, <1>5, <1>6, <1>7, <1>8, <1>9, Unasking

LEMMA DumpStep == ASSUME IInv, NEW r \in Requests, Dump(r) PROVE IInv'
<1> DEFINE y == heap[Mine(r)]
           f == [frame[r] EXCEPT !.at = "write", !.image = y]
<1>1. /\ At(r) = "dump" /\ InFlight(r) /\ Known(r) /\ Fits(r) /\ Mine(r) # None
      /\ frame[r] \in Frames /\ Enter(r, f)
      /\ UNCHANGED <<caller, filled, sessionVars, slotVars, historyVars>>
  BY DEF Dump, InFlight, Known, IInv, TypeOK, Frames, PlacesFit, Fits
<1>2. UNCHANGED <<succeeded, alone, acked, cleared>>
  BY <1>1 DEF historyVars
<1>3. y \in Session /\ Proper(y, User(r), SessionOf(r))
  BY <1>1 DEF IInv, TypeOK, MineProper, ObjectsProper, Mine
<1> HIDE DEF y
<1>4. /\ f \in Frames /\ f.at = "write" /\ f.mine = Mine(r) /\ f.intent = frame[r].intent
      /\ f.result = frame[r].result /\ f.image = y
  BY <1>1, <1>3 DEF Frames, Places, Mine
<1> HIDE DEF f
<1>5. /\ frame' \in [Requests -> Frames] /\ frame'[r] = f
      /\ \A q \in Requests \ {r} : frame'[q] = frame[q]
  BY <1>1, <1>4, Entering DEF IInv
<1>6. Proceeds(r)
  BY <1>1, <1>4, <1>5 DEF Proceeds
<1>7. Fits(r)' /\ InFlight(r)' /\ Past(r)'
  BY <1>1, <1>2, <1>4, <1>5 DEF Fits, At, Mine, InFlight, Past
<1>8. succeeded' = succeeded /\ succeeded' \subseteq Requests
  BY <1>2 DEF IInv, TypeOK
<1> QED  BY <1>1, <1>2, <1>3, <1>4, <1>5, <1>6, <1>7, <1>8, Passing

LEMMA WriteStep == ASSUME IInv, NEW r \in Requests, Write(r) PROVE IInv'
<1> DEFINE x == frame[r].image
<1>1. /\ At(r) = "write" /\ InFlight(r) /\ Known(r) /\ Fits(r) /\ Go(r, "over")
      /\ disk' = [disk EXCEPT ![SessionOf(r)] = x]
      /\ acked' \in {acked, [acked EXCEPT ![SessionOf(r)] = r]}
      /\ UNCHANGED <<caller, filled, heap, items, slotVars, succeeded, alone, cleared>>
  BY DEF Write, InFlight, Known, IInv, PlacesFit
<1>2. /\ Proceeds(r) /\ frame'[r].at = "over" /\ frame'[r].mine = None
      /\ frame'[r].result = "none" /\ frame'[r].image = None
  BY <1>1, Proceeding DEF Places
<1>3. Fits(r)' /\ Past(r)'
  BY <1>2 DEF Fits, At, Past
<1>4. /\ disk \in [Sessions -> Session \cup {None}] /\ x \in Session \cup {None}
      /\ acked \in [Sessions -> Requests \cup {None}]
  BY DEF IInv, TypeOK
<1>5. /\ items' = items /\ items' \in [Workers -> [Sessions -> Requests \cup {None}]]
      /\ heap' = heap /\ heap' \in [Requests -> Session \cup {None}]
      /\ cleared' \subseteq Requests /\ succeeded' = succeeded /\ succeeded' \subseteq Requests
  BY <1>1 DEF IInv, TypeOK
<1>6. x # None => Proper(x, x.owner, SessionOf(r))
  BY DEF IInv, StoredProper, Proper
<1>7. acked' \in [Sessions -> Requests \cup {None}]
  BY <1>1, <1>4
<1> HIDE DEF x
<1>8. /\ disk' \in [Sessions -> Session \cup {None}]
      /\ \A s \in Sessions : \/ disk'[s] = disk[s]
                             \/ s = SessionOf(r) /\ disk'[s] = x
  BY <1>1, <1>4
<1>9. \A s \in Sessions : \/ disk'[s] = None \/ disk'[s] = disk[s]
                          \/ Proper(disk'[s], disk'[s].owner, s)
  BY <1>6, <1>8
<1> QED  BY <1>1, <1>2, <1>3, <1>5, <1>7, <1>8, <1>9, Unasking

LEMMA ForgetStep == ASSUME IInv, NEW r \in Requests, Forget(r) PROVE IInv'
<1> DEFINE o == items[Worker(r)][SessionOf(r)]
<1>1. /\ At(r) = "forget" /\ InFlight(r) /\ Known(r) /\ Fits(r) /\ Go(r, "over") /\ ~Past(r)
      /\ UNCHANGED <<caller, filled, heap, slotVars, succeeded, alone, acked>>
  BY DEF Forget, InFlight, Known, IInv, PlacesFit, Past
<1>2. /\ Proceeds(r) /\ frame'[r].at = "over" /\ frame'[r].mine = None
      /\ frame'[r].result = "none" /\ frame'[r].image = None
  BY <1>1, Proceeding DEF Places
<1>3. Fits(r)'
  BY <1>2 DEF Fits, At
<1>4. /\ items \in [Workers -> [Sessions -> Requests \cup {None}]]
      /\ disk \in [Sessions -> Session \cup {None}]
      /\ cleared \subseteq Requests
      /\ heap' = heap /\ heap' \in [Requests -> Session \cup {None}]
      /\ acked' \in [Sessions -> Requests \cup {None}]
      /\ succeeded' = succeeded /\ succeeded' \subseteq Requests
  BY <1>1 DEF IInv, TypeOK
<1>5. CASE o # None /\ heap[o].owner = User(r)
  <2>1. /\ items' = [items EXCEPT ![Worker(r)][SessionOf(r)] = None]
        /\ disk' = [disk EXCEPT ![SessionOf(r)] = None]
        /\ cleared' = cleared \cup Turns(heap[o])
    BY <1>5 DEF Forget
  <2>2. heap[o] \in Session
    BY <1>1, <1>4, <1>5, Whose DEF IInv, ItemsProper
  <2>3. Turns(heap[o]) \subseteq Requests
    BY <2>2 DEF Turns, Session
  <2>4. /\ items' \in [Workers -> [Sessions -> Requests \cup {None}]]
        /\ \A w \in Workers, s \in Sessions : items'[w][s] \in {None, items[w][s]}
    BY <1>4, <2>1
  <2>5. /\ disk' \in [Sessions -> Session \cup {None}]
        /\ \A s \in Sessions : disk'[s] = None \/ disk'[s] = disk[s]
    BY <1>4, <2>1
  <2>6. cleared' \subseteq Requests
    BY <1>4, <2>1, <2>3
  <2> HIDE DEF o
  <2> QED  BY <1>1, <1>2, <1>3, <1>4, <2>4, <2>5, <2>6, Unasking
<1>6. CASE ~(o # None /\ heap[o].owner = User(r))
  <2>1. items' = items /\ disk' = disk /\ cleared' = cleared
    BY <1>6 DEF Forget
  <2>2. UNCHANGED sessionVars
    BY <1>1, <2>1 DEF sessionVars
  <2> QED  BY <1>1, <1>2, <1>3, <1>4, <2>1, <2>2, Passing
<1> QED  BY <1>5, <1>6

-----------------------------------------------------------------------------
(* The steps that work on the questions to the user *)

\* A step that leaves the sessions alone keeps the invariant if it fits and what
\* it does to the questions is right.
LEMMA Asking ==
    ASSUME IInv, NEW r \in Requests, Proceeds(r), Fits(r)',
           UNCHANGED <<sessionVars, historyVars>>,
           filled' \in [Requests -> Requests \cup {None}],
           slots' \in [Workers -> [Sessions -> Slot \cup {None}]],
           slotDisk' \in [Sessions -> Slot \cup {None}],
           \A q \in Requests \ {r} : filled'[q] = filled[q],
           frame'[r].mine = None \/ (frame'[r].mine = Mine(r) /\ InFlight(r)'),
           frame'[r].image \in {None, frame[r].image},
           SlotsProper', Consumed', AnsweredOnce'
    PROVE  IInv'
<1>1. UNCHANGED <<heap, items, disk, succeeded, alone, acked, cleared>>
  BY DEF sessionVars, historyVars
<1>2. /\ heap \in [Requests -> Session \cup {None}] /\ disk \in [Sessions -> Session \cup {None}]
      /\ frame' \in [Requests -> Frames] /\ caller' = caller
  BY DEF IInv, TypeOK, Proceeds
<1>3. Lasting /\ CallersKnown' /\ PlacesFit' /\ AloneInFlight'
  BY <1>1, Continues
<1>4. ObjectsProper' /\ MineProper' /\ ItemsProper' /\ StoredProper'
  BY <1>1, <1>2, <1>3, SessionsEdited
<1>5. TypeOK'
  BY <1>1, <1>2 DEF IInv, TypeOK, Frames
<1> QED  BY <1>3, <1>4, <1>5 DEF IInv

\* Nothing happens to a question, or it is removed.
LEMMA Removing ==
    ASSUME IInv, NEW r \in Requests, Proceeds(r), Fits(r)',
           UNCHANGED <<sessionVars, historyVars, filled>>,
           ~Past(r),
           Delete(Worker(r), SessionOf(r)) \/ (UNCHANGED slotVars /\ At(r) # "consume"),
           frame'[r].mine = None \/ (frame'[r].mine = Mine(r) /\ InFlight(r)'),
           frame'[r].image \in {None, frame[r].image}
    PROVE  IInv'
<1>1. /\ slots \in [Workers -> [Sessions -> Slot \cup {None}]]
      /\ slotDisk \in [Sessions -> Slot \cup {None}]
      /\ filled' \in [Requests -> Requests \cup {None}] /\ filled' = filled /\ alone' = alone
  BY DEF IInv, TypeOK, historyVars
<1>2. Worker(r) \in Workers /\ SessionOf(r) \in Sessions
  BY Whose DEF Proceeds, InFlight, Known
<1>3. /\ slots' \in [Workers -> [Sessions -> Slot \cup {None}]]
      /\ slotDisk' \in [Sessions -> Slot \cup {None}]
      /\ \A w \in Workers, s \in Sessions : slots'[w][s] \in {None, slots[w][s]}
      /\ \A s \in Sessions : slotDisk'[s] \in {None, slotDisk[s]}
      /\ At(r) = "consume" =>
             slots'[Worker(r)][SessionOf(r)] = None /\ slotDisk'[SessionOf(r)] = None
  <2>1. CASE Delete(Worker(r), SessionOf(r))
    BY <1>1, <1>2, <2>1 DEF Delete
  <2>2. CASE UNCHANGED slotVars /\ At(r) # "consume"
    BY <1>1, <2>2 DEF slotVars
  <2> QED  BY <2>1, <2>2
<1>4. SlotsProper' /\ Consumed' /\ AnsweredOnce'
  BY <1>1, <1>3, QuestionsKept
<1> QED  BY <1>1, <1>3, <1>4, Asking

LEMMA ConsumeStep == ASSUME IInv, NEW r \in Requests, Consume(r) PROVE IInv'
<1>1. /\ At(r) = "consume" /\ InFlight(r) /\ Fits(r) /\ ~Past(r) /\ Go(r, "route")
      /\ Delete(Worker(r), SessionOf(r))
      /\ UNCHANGED <<caller, filled, sessionVars, historyVars>>
  BY DEF Consume, InFlight, IInv, PlacesFit, Past
<1>2. /\ Proceeds(r) /\ frame'[r].at = "route"
      /\ frame'[r].mine = Mine(r) /\ frame'[r].intent = frame[r].intent
      /\ frame'[r].result = frame[r].result /\ frame'[r].image = frame[r].image
  BY <1>1, Proceeding DEF Places
<1>3. Fits(r)' /\ InFlight(r)'
  BY <1>1, <1>2 DEF Fits, At, Mine, InFlight, historyVars
<1> QED  BY <1>1, <1>2, <1>3, Removing

LEMMA DropAnyStep == ASSUME IInv, NEW r \in Requests, DropAny(r) PROVE IInv'
<1>1. /\ At(r) = "dropany" /\ InFlight(r) /\ Fits(r) /\ ~Past(r) /\ Go(r, "forget")
      /\ Delete(Worker(r), SessionOf(r))
      /\ UNCHANGED <<caller, filled, sessionVars, historyVars>>
  BY DEF DropAny, InFlight, IInv, PlacesFit, Past
<1>2. /\ Proceeds(r) /\ frame'[r].at = "forget"
      /\ frame'[r].mine = Mine(r) /\ frame'[r].intent = frame[r].intent
      /\ frame'[r].result = frame[r].result /\ frame'[r].image = frame[r].image
  BY <1>1, Proceeding DEF Places
<1>3. Fits(r)' /\ InFlight(r)'
  BY <1>1, <1>2 DEF Fits, At, Mine, InFlight, historyVars
<1> QED  BY <1>1, <1>2, <1>3, Removing

LEMMA DropStep == ASSUME IInv, NEW r \in Requests, Drop(r) PROVE IInv'
<1> DEFINE place == CASE frame[r].intent = "chitchat" -> Recording(r, "note")
                      [] frame[r].intent = "glossary" -> "run"
                      [] frame[r].intent = "data"     -> "resolve"
<1>1. /\ At(r) = "drop" /\ InFlight(r) /\ Fits(r) /\ ~Past(r) /\ Go(r, place) /\ DropOwn(r)
      /\ UNCHANGED <<caller, filled, sessionVars, historyVars>>
  BY DEF Drop, InFlight, IInv, PlacesFit, Past
<1>2. Delete(Worker(r), SessionOf(r)) \/ (UNCHANGED slotVars /\ At(r) # "consume")
  BY <1>1 DEF DropOwn
<1>3. /\ place \in {"note", "over", "run", "resolve"}
      /\ place = "note" => Mine(r) # None
      /\ place = "run" => frame[r].intent = "glossary"
      /\ place = "resolve" => frame[r].intent = "data"
  BY <1>1 DEF Fits, Recording
<1> HIDE DEF place
<1>4. place \in Places \ {"arrived"}
  BY <1>3 DEF Places
<1>5. /\ Proceeds(r) /\ frame'[r].at = place
      /\ \/ /\ place # "over"
            /\ frame'[r].mine = Mine(r) /\ frame'[r].intent = frame[r].intent
            /\ frame'[r].result = frame[r].result /\ frame'[r].image = frame[r].image
         \/ /\ place = "over"
            /\ frame'[r].mine = None /\ frame'[r].result = "none" /\ frame'[r].image = None
  BY <1>1, <1>4, Proceeding
<1>6. Fits(r)' /\ (InFlight(r)' \/ frame'[r].mine = None)
  BY <1>1, <1>3, <1>5 DEF Fits, At, Mine, InFlight, historyVars
<1> QED  BY <1>1, <1>2, <1>5, <1>6, Removing

LEMMA AskStep == ASSUME IInv, NEW r \in Requests, Ask(r) PROVE IInv'
<1> DEFINE w == Worker(r)
           s == SessionOf(r)
           slot == [owner |-> User(r), asked |-> r]
           place == IF frame[r].intent = "clarify" THEN Recording(r, "note")
                    ELSE Answered(r, frame[r].result)
<1>1. /\ At(r) = "ask" /\ InFlight(r) /\ Known(r) /\ Fits(r) /\ ~Past(r) /\ Go(r, place)
      /\ slots' = [slots EXCEPT ![w][s] = slot]
      /\ slotDisk' = IF Durable THEN [slotDisk EXCEPT ![s] = slot] ELSE slotDisk
      /\ UNCHANGED <<caller, filled, sessionVars, historyVars>>
  BY DEF Ask, InFlight, Known, IInv, PlacesFit, Past
<1>2. /\ frame[r].intent \in {"clarify", "glossary"} \/ frame[r].intent = "data"
      /\ frame[r].intent = "data" => frame[r].result \in {"failed", "empty", "ok"}
  BY <1>1 DEF Fits, IInv, TypeOK
<1>3. /\ place \in {"note", "over", "switch", "record"}
      /\ place \in {"note", "switch"} => Mine(r) # None
      /\ place = "record" => frame[r].result = "ok"
  BY <1>2 DEF Recording, Answered
<1> HIDE DEF place
<1>4. place \in Places \ {"arrived"}
  BY <1>3 DEF Places
<1>5. /\ Proceeds(r) /\ frame'[r].at = place
      /\ \/ /\ place # "over"
            /\ frame'[r].mine = Mine(r) /\ frame'[r].intent = frame[r].intent
            /\ frame'[r].result = frame[r].result /\ frame'[r].image = frame[r].image
         \/ /\ place = "over"
            /\ frame'[r].mine = None /\ frame'[r].result = "none" /\ frame'[r].image = None
  BY <1>1, <1>4, Proceeding
<1>6. /\ Fits(r)' /\ Past(r)' /\ (InFlight(r)' \/ frame'[r].mine = None)
  BY <1>1, <1>3, <1>5 DEF Fits, At, Mine, InFlight, historyVars, Past
<1>7. slot \in Slot /\ slot.asked = r /\ slot.owner = User(r)
  BY <1>1, Whose DEF Slot
<1>8. /\ slots \in [Workers -> [Sessions -> Slot \cup {None}]]
      /\ slotDisk \in [Sessions -> Slot \cup {None}]
      /\ filled \in [Requests -> Requests \cup {None}] /\ filled' = filled
      /\ alone \subseteq Requests /\ alone' = alone /\ caller' = caller
      /\ w \in Workers /\ s \in Sessions
  BY <1>1, Whose DEF IInv, TypeOK, historyVars
<1> HIDE DEF slot
<1>9. /\ slots' \in [Workers -> [Sessions -> Slot \cup {None}]]
      /\ slotDisk' \in [Sessions -> Slot \cup {None}]
      /\ \A v \in Workers, t \in Sessions :
             slots'[v][t] = slots[v][t] \/ (t = s /\ slots'[v][t] = slot)
      /\ \A t \in Sessions : slotDisk'[t] = slotDisk[t] \/ (t = s /\ slotDisk'[t] = slot)
  BY <1>1, <1>7, <1>8
<1>10. \A t \in Requests : Past(t) => Past(t)'
  BY <1>5, <1>6 DEF Proceeds, Past, At
<1>11. SlotsProper'
  <2>1. \A x \in Slot, t \in Sessions : SlotProper(x, t) \/ (x = slot /\ t = s) =>
            /\ Past(x.asked)' /\ caller'[x.asked].user = x.owner /\ caller'[x.asked].session = t
    BY <1>6, <1>7, <1>8, <1>10 DEF SlotProper, Slot, User, SessionOf
  <2>2. ASSUME NEW v \in Workers, NEW t \in Sessions, slots'[v][t] # None
        PROVE  SlotProper(slots[v][t], t)'
    <3>1. slots'[v][t] \in Slot
      BY <1>9, <2>2
    <3>2. SlotProper(slots'[v][t], t) \/ (slots'[v][t] = slot /\ t = s)
      BY <1>9, <2>2 DEF IInv, SlotsProper
    <3> QED  BY <2>1, <3>1, <3>2 DEF SlotProper, User, SessionOf
  <2>3. ASSUME NEW t \in Sessions, slotDisk'[t] # None
        PROVE  SlotProper(slotDisk[t], t)'
    <3>1. slotDisk'[t] \in Slot
      BY <1>9, <2>3
    <3>2. SlotProper(slotDisk'[t], t) \/ (slotDisk'[t] = slot /\ t = s)
      BY <1>9, <2>3 DEF IInv, SlotsProper
    <3> QED  BY <2>1, <3>1, <3>2 DEF SlotProper, User, SessionOf
  <2>4. ASSUME NEW q \in Requests, filled[q] # None
        PROVE  /\ Past(filled[q])'
               /\ caller'[filled[q]].user = caller'[q].user
               /\ caller'[filled[q]].session = caller'[q].session
    BY <1>8, <1>10, <2>4 DEF IInv, SlotsProper, User, SessionOf
  <2> QED  BY <1>8, <2>2, <2>3, <2>4 DEF SlotsProper, User, SessionOf
<1>12. Consumed'
  <2> SUFFICES ASSUME NEW q \in alone, filled[q] # None, frame'[q].at # "consume",
                      NEW x \in {slots'[caller[q].worker][caller[q].session],
                                 slotDisk'[caller[q].session]},
                      x # None
               PROVE  x.asked # filled[q]
    BY <1>8, Zenon DEF Consumed, Answers, At, Worker, SessionOf
  <2>1. q \in Requests /\ Known(q)
    BY <1>8 DEF IInv, AloneInFlight
  <2>2. caller[q].worker \in Workers /\ caller[q].session \in Sessions
    BY <2>1, Whose DEF Worker, SessionOf
  <2>3. At(q) # "consume"
    BY <1>1, <1>5, <2>1 DEF Proceeds, At
  <2>4. filled[q] # r
    BY <1>1, <2>1 DEF IInv, SlotsProper
  <2> QED  BY <1>7, <1>9, <2>1, <2>2, <2>3, <2>4 DEF IInv, Consumed, Answers, Worker, SessionOf
<1>13. AnsweredOnce'
  BY <1>8 DEF IInv, AnsweredOnce, Worker
<1> QED  BY <1>1, <1>5, <1>6, <1>8, <1>9, <1>11, <1>12, <1>13, Asking

LEMMA LookUpStep == ASSUME IInv, NEW r \in Requests, LookUp(r) PROVE IInv'
<1> DEFINE w == Worker(r)
           s == SessionOf(r)
           entry == IF slots[w][s] # None THEN slots[w][s] ELSE slotDisk[s]
<1>1. /\ At(r) = "look" /\ InFlight(r) /\ Known(r) /\ Fits(r) /\ ~Past(r) /\ filled[r] = None
      /\ UNCHANGED <<caller, sessionVars, historyVars>>
  BY DEF LookUp, InFlight, Known, IInv, PlacesFit, Past, Fits
<1>2. PICK place \in {"route", "consume"} :
        /\ Go(r, place)
        /\ \/ slots' = [slots EXCEPT ![w][s] = entry] /\ slotDisk' = slotDisk
           \/ Delete(w, s)
        /\ \/ filled' = filled
           \/ /\ place = "consume" /\ OwnerOf(entry) = User(r)
              /\ filled' = [filled EXCEPT ![r] = entry.asked]
  BY DEF LookUp, Delete
<1>3. /\ Proceeds(r) /\ frame'[r].at = place
      /\ frame'[r].mine = Mine(r) /\ frame'[r].intent = frame[r].intent
      /\ frame'[r].result = frame[r].result /\ frame'[r].image = frame[r].image
  BY <1>1, <1>2, Proceeding DEF Places
<1>4. Fits(r)' /\ InFlight(r)'
  BY <1>1, <1>3 DEF Fits, At, Mine, InFlight, historyVars
<1>5. /\ slots \in [Workers -> [Sessions -> Slot \cup {None}]]
      /\ slotDisk \in [Sessions -> Slot \cup {None}]
      /\ filled \in [Requests -> Requests \cup {None}]
      /\ alone \subseteq Requests /\ alone' = alone /\ caller' = caller
      /\ w \in Workers /\ s \in Sessions
  BY <1>1, Whose DEF IInv, TypeOK, historyVars
<1>6. /\ entry \in Slot \cup {None}
      /\ OwnerOf(entry) = User(r) => entry # None /\ entry.owner = User(r)
      /\ entry # None => SlotProper(entry, s)
  <2>1. User(r) # None
    BY <1>1, Whose, NoneAssumption
  <2>2. entry \in Slot \cup {None} /\ (entry # None => SlotProper(entry, s))
    BY <1>5 DEF IInv, SlotsProper
  <2> QED  BY <2>1, <2>2 DEF OwnerOf
<1>7. /\ slots' \in [Workers -> [Sessions -> Slot \cup {None}]]
      /\ slotDisk' \in [Sessions -> Slot \cup {None}]
      /\ \A v \in Workers, t \in Sessions :
             slots'[v][t] \in {None, slots[v][t]} \/ (t = s /\ v = w /\ slots'[v][t] = entry)
      /\ \A t \in Sessions : slotDisk'[t] \in {None, slotDisk[t]}
  <2> HIDE DEF entry
  <2> QED  BY <1>2, <1>5, <1>6 DEF Delete
<1>8. /\ filled' \in [Requests -> Requests \cup {None}]
      /\ \A q \in Requests \ {r} : filled'[q] = filled[q]
      /\ \/ filled'[r] = None
         \/ /\ place = "consume" /\ entry \in Slot /\ SlotProper(entry, s)
            /\ entry.owner = User(r) /\ filled'[r] = entry.asked
  <2> HIDE DEF entry
  <2>1. entry \in Slot => entry.asked \in Requests
    BY DEF Slot
  <2> QED  BY <1>1, <1>2, <1>5, <1>6, <2>1
<1>9. \A t \in Requests : Past(t) => Past(t)'
  BY <1>1, <1>3 DEF Proceeds, Past, At
<1>10. SlotsProper'
  <2> HIDE DEF entry
  <2>1. \A x \in Slot, t \in Sessions : SlotProper(x, t) =>
            /\ Past(x.asked)' /\ caller'[x.asked].user = x.owner /\ caller'[x.asked].session = t
    BY <1>5, <1>9 DEF SlotProper, Slot, User, SessionOf
  <2>2. ASSUME NEW v \in Workers, NEW t \in Sessions, slots'[v][t] # None
        PROVE  SlotProper(slots[v][t], t)'
    <3>1. slots'[v][t] \in Slot /\ SlotProper(slots'[v][t], t)
      BY <1>6, <1>7, <2>2 DEF IInv, SlotsProper
    <3> QED  BY <2>1, <3>1 DEF SlotProper, User, SessionOf
  <2>3. ASSUME NEW t \in Sessions, slotDisk'[t] # None
        PROVE  SlotProper(slotDisk[t], t)'
    <3>1. slotDisk'[t] \in Slot /\ SlotProper(slotDisk'[t], t)
      BY <1>7, <2>3 DEF IInv, SlotsProper
    <3> QED  BY <2>1, <3>1 DEF SlotProper, User, SessionOf
  <2>4. ASSUME NEW q \in Requests, filled'[q] # None
        PROVE  /\ Past(filled[q])'
               /\ caller'[filled'[q]].user = caller'[q].user
               /\ caller'[filled'[q]].session = caller'[q].session
    <3>1. filled'[q] \in Requests
      BY <1>8, <2>4
    <3>2. /\ Past(filled'[q])
          /\ caller'[filled'[q]].user = caller'[q].user
          /\ caller'[filled'[q]].session = caller'[q].session
      <4>1. CASE q = r
        BY <1>5, <1>8, <2>4, <4>1 DEF SlotProper, User, SessionOf
      <4>2. CASE q # r
        BY <1>5, <1>8, <2>4, <4>2 DEF IInv, SlotsProper, User, SessionOf
      <4> QED  BY <4>1, <4>2
    <3> QED  BY <1>9, <3>1, <3>2 DEF Past, At
  <2> QED  BY <2>2, <2>3, <2>4 DEF SlotsProper, User, SessionOf
<1>11. ASSUME NEW q \in alone, q # r, filled[q] # None, SessionOf(q) = s
       PROVE  /\ At(q) # "consume"
              /\ ~Answers(slotDisk[s], q)
              /\ Worker(q) = w => ~Answers(slots[w][s], q)
  <2>1. q \in Requests /\ Known(q)
    BY <1>5 DEF IInv, AloneInFlight
  <2>2. At(q) # "consume"
    <3> SUFFICES ASSUME At(q) = "consume" PROVE FALSE
      OBVIOUS
    <3>1. InFlight(q)
      BY DEF InFlight
    <3> QED  BY <1>1, <1>11, <2>1, <3>1 DEF IInv, AloneInFlight
  <2> QED  BY <1>11, <2>1, <2>2 DEF IInv, Consumed
<1>12. Consumed'
  <2> SUFFICES ASSUME NEW q \in alone, filled'[q] # None, frame'[q].at # "consume",
                      NEW x \in {slots'[caller[q].worker][caller[q].session],
                                 slotDisk'[caller[q].session]},
                      x # None
               PROVE  x.asked # filled'[q]
    BY <1>5, Zenon DEF Consumed, Answers, At, Worker, SessionOf
  <2>1. q \in Requests /\ Known(q)
    BY <1>5 DEF IInv, AloneInFlight
  <2>2. caller[q].worker \in Workers /\ caller[q].session \in Sessions
    BY <2>1, Whose DEF Worker, SessionOf
  <2>3. q # r
    BY <1>3, <1>8
  <2>4. filled'[q] = filled[q] /\ At(q) # "consume"
    BY <1>3, <1>8, <2>1, <2>3 DEF Proceeds, At
  <2>5. ~Answers(slots[Worker(q)][SessionOf(q)], q) /\ ~Answers(slotDisk[SessionOf(q)], q)
    BY <2>4 DEF IInv, Consumed
  <2>6. CASE x = slotDisk'[caller[q].session]
    BY <1>7, <2>2, <2>4, <2>5, <2>6 DEF Answers, SessionOf
  <2>7. CASE x = slots'[caller[q].worker][caller[q].session]
    <3>1. CASE x \in {None, slots[caller[q].worker][caller[q].session]}
      BY <2>4, <2>5, <3>1 DEF Answers, SessionOf, Worker
    <3>2. CASE SessionOf(q) = s /\ Worker(q) = w /\ x = entry
      <4>1. ~Answers(slotDisk[s], q) /\ ~Answers(slots[w][s], q)
        BY <2>5, <3>2
      <4>2. x \in {slotDisk[s], slots[w][s]}
        BY <3>2
      <4> HIDE DEF entry
      <4> QED  BY <2>4, <4>1, <4>2 DEF Answers
    <3> HIDE DEF entry
    <3> QED  BY <1>7, <2>2, <2>7, <3>1, <3>2 DEF SessionOf, Worker
  <2> QED  BY <2>6, <2>7
<1>13. AnsweredOnce'
  <2>1. ASSUME NEW q \in alone, q # r, r \in alone, filled'[r] # None, filled'[r] = filled'[q],
               Worker(q) = w
        PROVE  FALSE
    <3>1. q \in Requests /\ filled'[q] = filled[q]
      BY <1>5, <1>8, <2>1
    <3>2. entry \in Slot /\ SlotProper(entry, s) /\ entry.asked = filled[q]
      BY <1>8, <2>1, <3>1
    <3>3. SessionOf(q) = SessionOf(filled[q])
      BY <2>1, <3>1 DEF IInv, SlotsProper
    <3>4. SessionOf(q) = s
      BY <3>2, <3>3 DEF SlotProper
    <3>5. ~Answers(slotDisk[s], q) /\ ~Answers(slots[w][s], q)
      BY <1>11, <2>1, <3>1, <3>4
    <3>6. entry \in {slotDisk[s], slots[w][s]} /\ entry # None
      BY <3>2, NoneAssumption
    <3> HIDE DEF entry
    <3> QED  BY <3>2, <3>5, <3>6 DEF Answers
  <2>2. \A q \in alone : q # r => filled'[q] = filled[q]
    BY <1>5, <1>8
  <2> SUFFICES ASSUME NEW p \in alone, NEW q \in alone, filled'[p] # None,
                      filled'[p] = filled'[q], Worker(p) = Worker(q)
               PROVE  p = q
    BY <1>5 DEF AnsweredOnce, Worker
  <2>3. CASE p # r /\ q # r
    BY <2>2, <2>3 DEF IInv, AnsweredOnce
  <2>4. CASE p = r /\ q # r
    BY <2>1, <2>4
  <2>5. CASE p # r /\ q = r
    BY <2>1, <2>5
  <2> QED  BY <2>3, <2>4, <2>5
<1> HIDE DEF entry
<1> QED  BY <1>1, <1>3, <1>4, <1>7, <1>8, <1>10, <1>12, <1>13, Asking

-----------------------------------------------------------------------------
(* A request arrives, a worker restarts *)

LEMMA BeginStep == ASSUME IInv, NEW r \in Requests, Begin(r) PROVE IInv'
<1>1. PICK c \in Callers, o \in Requests \cup {None} :
        LET busy == {q \in Requests : InFlight(q) /\ SessionOf(q) = c.session}
        IN  /\ caller' = [caller EXCEPT ![r] = c]
            /\ Recall(r, c, o)
            /\ Enter(r, [frame[r] EXCEPT !.at = "look", !.mine = o])
            /\ alone' = IF busy = {} THEN alone \cup {r} ELSE alone \ busy
            /\ acked' = [acked EXCEPT ![c.session] = None]
  BY DEF Begin
<1> DEFINE w == c.worker
           s == c.session
           f == [frame[r] EXCEPT !.at = "look", !.mine = o]
<1>2. /\ At(r) = "arrived" /\ ~InFlight(r) /\ ~Known(r) /\ ~Past(r) /\ Fits(r)
      /\ filled[r] = None /\ Mine(r) = None /\ frame[r].image = None
      /\ frame[r].result = "ok" => r \in succeeded
      /\ heap[r] = None /\ r \notin alone /\ frame[r] \in Frames
      /\ UNCHANGED <<filled, slots, slotDisk, succeeded, cleared>>
  <2>1. At(r) = "arrived" /\ UNCHANGED <<filled, slots, slotDisk, succeeded, cleared>>
    BY DEF Begin, slotVars
  <2>2. ~InFlight(r) /\ ~Known(r) /\ ~Past(r)
    BY <2>1 DEF InFlight, Known, Past
  <2>3. Fits(r) /\ filled[r] = None /\ (frame[r].result = "ok" => r \in succeeded)
    BY <2>1 DEF IInv, PlacesFit, Fits
  <2>4. Mine(r) = None /\ frame[r].image = None /\ heap[r] = None /\ r \notin alone
    BY <2>2 DEF IInv, MineProper, StoredProper, ObjectsProper, AloneInFlight
  <2>5. frame[r] \in Frames
    BY DEF IInv, TypeOK, Frames
  <2> QED  BY <2>1, <2>2, <2>3, <2>4, <2>5
<1>3. /\ TypeOK /\ c \in Callers /\ w \in Workers /\ s \in Sessions /\ c.user \in Users
      /\ caller' = [caller EXCEPT ![r] = c]
      /\ caller \in [Requests -> Callers \cup {None}]
      /\ caller' \in [Requests -> Callers \cup {None}]
      /\ caller'[r] = c /\ \A q \in Requests : q # r => caller'[q] = caller[q]
  BY <1>1, CallersAssumption DEF IInv, TypeOK
<1>4. Enter(r, f)
  BY <1>1
<1>5. /\ f \in Frames /\ f.at = "look" /\ f.mine = o /\ f.intent = frame[r].intent
      /\ f.result = frame[r].result /\ f.image = None
  BY <1>2 DEF Frames, Places
<1> HIDE DEF f
<1>6. /\ frame' \in [Requests -> Frames] /\ frame'[r] = f
      /\ \A q \in Requests : q # r => frame'[q] = frame[q]
  BY <1>3, <1>4, <1>5, Entering
<1>7. \A t \in Requests : /\ Known(t) => t # r /\ Known(t)' /\ caller'[t] = caller[t]
                          /\ Past(t) => t # r /\ Past(t)' /\ caller'[t] = caller[t]
                          /\ InFlight(t)' => t = r \/ (t # r /\ InFlight(t))
                          /\ t # r => caller'[t] = caller[t]
  BY <1>2, <1>3, <1>6 DEF Known, Past, InFlight, At
<1>8. Lasting
  BY <1>2, <1>7 DEF Lasting
<1>9. Known(r)' /\ InFlight(r)' /\ At(r)' = "look"
  BY <1>5, <1>6 DEF Known, InFlight, At
<1>10. /\ heap \in [Requests -> Session \cup {None}] /\ disk \in [Sessions -> Session \cup {None}]
       /\ items \in [Workers -> [Sessions -> Requests \cup {None}]]
       /\ acked \in [Sessions -> Requests \cup {None}]
       /\ items[w][s] \in Requests \cup {None} /\ heap[r] = None
       /\ items[w][s] # None =>
              /\ heap[items[w][s]] \in Session /\ Known(items[w][s])
              /\ heap[items[w][s]].owner = User(items[w][s])
              /\ SessionOf(items[w][s]) = s /\ Worker(items[w][s]) = w
  BY <1>2, <1>3 DEF IInv, TypeOK, ItemsProper, ObjectsProper, Proper

\* The object that it works on, and what becomes of the others.
<1>11. /\ heap' \in [Requests -> Session \cup {None}] /\ disk' \in [Sessions -> Session \cup {None}]
       /\ items' \in [Workers -> [Sessions -> Requests \cup {None}]]
       /\ \A p \in Requests : p # r => heap'[p] = heap[p]
       /\ \A t \in Sessions : disk'[t] \in {None, disk[t]}
       /\ \/ heap'[r] = None
          \/ /\ heap'[r] \in Session /\ heap'[r] = disk[s]
             /\ disk[s].owner = c.user
       /\ \A v \in Workers, t \in Sessions :
              \/ items'[v][t] \in {None, items[v][t]}
              \/ v = w /\ t = s /\ items'[v][t] = r /\ heap'[r] # None
       /\ \/ o = None
          \/ o = r /\ heap'[r] # None
          \/ o = items[w][s] /\ o \in Requests /\ heap[o].owner = c.user /\ heap[o] # None
  <2>1. c.user # None
    BY <1>3, NoneAssumption
  <2>2. CASE RecallHeld(r, c, o)
    BY <1>10, <2>2, NoneAssumption DEF RecallHeld, sessionVars
  <2>3. CASE RecallExpired(r, c, o)
    BY <1>3, <1>10, <2>3 DEF RecallExpired
  <2>4. CASE RecallStored(r, c, o)
    <3>1. OwnerOf(disk[s]) = c.user => disk[s] \in Session /\ disk[s].owner = c.user
      BY <1>3, <1>10, <2>1 DEF OwnerOf
    <3>2. disk[s] \in Session => disk[s] # None
      BY NoneAssumption
    <3>3. CASE /\ OwnerOf(disk[s]) = c.user /\ o = r
               /\ heap' = [heap EXCEPT ![r] = disk[s]]
               /\ items' = [items EXCEPT ![w][s] = r] /\ disk' = disk
      <4>1. /\ heap' \in [Requests -> Session \cup {None}] /\ heap'[r] = disk[s]
            /\ \A p \in Requests : p # r => heap'[p] = heap[p]
        BY <1>10, <3>1, <3>3
      <4>2. /\ items' \in [Workers -> [Sessions -> Requests \cup {None}]]
            /\ \A v \in Workers, t \in Sessions :
                   items'[v][t] = items[v][t] \/ (v = w /\ t = s /\ items'[v][t] = r)
        BY <1>3, <1>10, <3>3
      <4> QED  BY <1>10, <3>1, <3>2, <3>3, <4>1, <4>2
    <3>4. CASE o = None /\ UNCHANGED <<heap, items, disk>>
      BY <1>10, <3>4
    <3> QED  BY <2>4, <3>3, <3>4 DEF RecallStored
  <2>5. CASE RecallOutdated(r, c, o)
    BY <1>3, <1>10, <2>5 DEF RecallOutdated
  <2> QED  BY <1>1, <2>2, <2>3, <2>4, <2>5 DEF Recall
<1>12. heap'[r] # None => Proper(heap'[r], c.user, s) /\ heap'[r] \in Session
  <2>1. heap'[r] # None => disk[s] # None /\ disk[s] = heap'[r] /\ heap'[r].owner = c.user
    BY <1>11, NoneAssumption
  <2> QED  BY <1>3, <1>11, <2>1 DEF IInv, StoredProper
<1>13. ObjectsProper'
  <2>1. \A p \in Requests : \/ heap'[p] = None \/ heap'[p] = heap[p]
                            \/ /\ Known(p)'
                               /\ Proper(heap'[p], caller'[p].user, caller'[p].session)
    BY <1>3, <1>9, <1>11, <1>12
  <2> QED  BY <1>3, <1>8, <1>11, <2>1, ObjectsLast DEF IInv
<1>14. StoredProper'
  <2>1. \A q \in Requests : \/ frame'[q].image = None
                            \/ Known(q) /\ frame'[q].image = frame[q].image
    BY <1>5, <1>6 DEF IInv, StoredProper
  <2> QED  BY <1>3, <1>6, <1>8, <1>11, <2>1, StoredLasts DEF IInv
<1>15. MineProper'
  <2> SUFFICES ASSUME NEW q \in Requests, frame'[q].mine # None
               PROVE  /\ InFlight(q)' /\ heap'[frame'[q].mine] # None
                      /\ caller'[frame'[q].mine].user = caller'[q].user
                      /\ caller'[frame'[q].mine].session = caller'[q].session
                      /\ caller'[frame'[q].mine].worker = caller'[q].worker
    BY DEF MineProper, Mine, User, SessionOf, Worker
  <2>1. CASE q = r
    <3>1. frame'[q].mine = o /\ o # None
      BY <1>5, <1>6, <2>1
    <3>2. CASE o = r /\ heap'[r] # None
      BY <1>9, <2>1, <3>1, <3>2
    <3>3. CASE o = items[w][s] /\ o \in Requests /\ heap[o].owner = c.user /\ heap[o] # None
      <4>1. /\ Known(o) /\ heap[o].owner = User(o) /\ SessionOf(o) = s /\ Worker(o) = w
        BY <1>10, <3>1, <3>3
      <4>2. o # r /\ caller'[o] = caller[o] /\ heap'[o] = heap[o]
        BY <1>7, <1>11, <3>3, <4>1
      <4> QED  BY <1>3, <1>9, <2>1, <3>1, <3>3, <4>1, <4>2 DEF User, SessionOf, Worker
    <3> QED  BY <1>11, <3>1, <3>2, <3>3
  <2>2. CASE q # r
    <3>1. frame'[q] = frame[q] /\ caller'[q] = caller[q]
      BY <1>3, <1>6, <2>2
    <3>2. /\ Mine(q) # None /\ Mine(q) \in Requests /\ InFlight(q) /\ heap[Mine(q)] # None
          /\ User(Mine(q)) = User(q) /\ SessionOf(Mine(q)) = SessionOf(q)
          /\ Worker(Mine(q)) = Worker(q)
      BY <3>1 DEF IInv, TypeOK, MineProper, Mine
    <3>3. Mine(q) # r /\ InFlight(q)'
      BY <1>10, <3>1, <3>2 DEF InFlight, At
    <3>4. heap'[Mine(q)] = heap[Mine(q)] /\ caller'[Mine(q)] = caller[Mine(q)]
      BY <1>3, <1>11, <3>2, <3>3
    <3> QED  BY <3>1, <3>2, <3>3, <3>4 DEF Mine, User, SessionOf, Worker
  <2> QED  BY <2>1, <2>2
<1>16. ItemsProper'
  <2> SUFFICES ASSUME NEW v \in Workers, NEW t \in Sessions, items'[v][t] # None
               PROVE  /\ heap'[items'[v][t]] # None
                      /\ caller'[items'[v][t]].session = t
                      /\ caller'[items'[v][t]].worker = v
    BY DEF ItemsProper, SessionOf, Worker
  <2>1. CASE items'[v][t] = items[v][t]
    <3> DEFINE p == items[v][t]
    <3>1. p \in Requests /\ heap[p] # None /\ SessionOf(p) = t /\ Worker(p) = v
      BY <1>10, <2>1 DEF IInv, ItemsProper
    <3>2. p # r
      BY <1>10, <3>1
    <3> HIDE DEF p
    <3>3. heap'[p] = heap[p] /\ caller'[p] = caller[p]
      BY <1>3, <1>11, <3>1, <3>2
    <3> QED  BY <2>1, <3>1, <3>3 DEF p, SessionOf, Worker
  <2>2. CASE v = w /\ t = s /\ items'[v][t] = r /\ heap'[r] # None
    BY <1>3, <2>2
  <2> QED  BY <1>11, <2>1, <2>2
<1>17. CallersKnown' /\ PlacesFit'
  <2>1. Fits(r)'
    BY <1>2, <1>5, <1>6 DEF Fits, At, Mine
  <2>2. ASSUME NEW q \in Requests, q # r PROVE Fits(q)'
    <3>1. frame'[q] = frame[q] /\ filled'[q] = filled[q] /\ succeeded' = succeeded /\ Fits(q)
      BY <1>2, <1>6, <2>2 DEF IInv, PlacesFit
    <3> QED  BY <3>1 DEF Fits, At, Mine
  <2>3. ASSUME NEW q \in Requests, Known(q)' PROVE caller'[q] \in Callers
    <3>1. CASE q = r
      BY <1>3, <3>1
    <3>2. CASE q # r
      BY <1>3, <1>6, <2>3, <3>2 DEF IInv, CallersKnown, Known, At
    <3> QED  BY <3>1, <3>2
  <2> QED  BY <2>1, <2>2, <2>3 DEF PlacesFit, CallersKnown
<1>18. SlotsProper'
  <2>1. \A x \in Slot, t \in Sessions : SlotProper(x, t) =>
            /\ Past(x.asked)' /\ caller'[x.asked].user = x.owner /\ caller'[x.asked].session = t
    BY <1>7 DEF SlotProper, Slot, User, SessionOf
  <2>2. ASSUME NEW v \in Workers, NEW t \in Sessions, slots'[v][t] # None
        PROVE  SlotProper(slots[v][t], t)'
    <3>1. slots'[v][t] \in Slot /\ SlotProper(slots'[v][t], t)
      BY <1>2, <2>2 DEF IInv, TypeOK, SlotsProper
    <3> QED  BY <2>1, <3>1 DEF SlotProper, User, SessionOf
  <2>3. ASSUME NEW t \in Sessions, slotDisk'[t] # None
        PROVE  SlotProper(slotDisk[t], t)'
    <3>1. slotDisk'[t] \in Slot /\ SlotProper(slotDisk'[t], t)
      BY <1>2, <2>3 DEF IInv, TypeOK, SlotsProper
    <3> QED  BY <2>1, <3>1 DEF SlotProper, User, SessionOf
  <2>4. ASSUME NEW q \in Requests, filled[q] # None
        PROVE  /\ Past(filled[q])'
               /\ caller'[filled[q]].user = caller'[q].user
               /\ caller'[filled[q]].session = caller'[q].session
    <3>1. q # r /\ caller'[q] = caller[q] /\ filled[q] \in Requests /\ Past(filled[q])
          /\ User(filled[q]) = User(q) /\ SessionOf(filled[q]) = SessionOf(q)
      BY <1>2, <1>3, <2>4 DEF IInv, TypeOK, SlotsProper
    <3>2. Past(filled[q])' /\ caller'[filled[q]] = caller[filled[q]]
      BY <1>2, <1>7, <3>1
    <3> QED  BY <3>1, <3>2 DEF User, SessionOf
  <2> QED  BY <1>2, <2>2, <2>3, <2>4 DEF SlotsProper, User, SessionOf

\* Who is alone, and what they answered.
<1>19. /\ alone' \subseteq alone \cup {r}
       /\ r \in alone' => \A q \in Requests : InFlight(q) => SessionOf(q) # s
       /\ \A q \in alone' : q # r => ~(InFlight(q) /\ SessionOf(q) = s)
       /\ alone \subseteq Requests
  <2>1. alone \subseteq Requests
    BY DEF IInv, TypeOK
  <2> QED  BY <1>1, <1>2, <2>1
<1>20. AloneInFlight'
  <2> SUFFICES ASSUME NEW q \in alone'
               PROVE  /\ Known(q)'
                      /\ \A p \in Requests :
                            InFlight(q)' /\ InFlight(p)' /\ caller'[p].session = caller'[q].session
                            => p = q
    BY DEF AloneInFlight, SessionOf
  <2>1. q \in Requests /\ Known(q)'
    BY <1>7, <1>9, <1>19 DEF IInv, AloneInFlight
  <2>2. ASSUME NEW p \in Requests, p # q, InFlight(q)', InFlight(p)',
               caller'[p].session = caller'[q].session
        PROVE  FALSE
    <3>1. CASE q = r
      BY <1>3, <1>7, <1>19, <2>2, <3>1 DEF SessionOf
    <3>2. CASE q # r /\ p = r
      BY <1>3, <1>7, <1>19, <2>1, <2>2, <3>2 DEF SessionOf
    <3>3. CASE q # r /\ p # r
      BY <1>3, <1>7, <1>19, <2>1, <2>2, <3>3 DEF IInv, AloneInFlight, SessionOf
    <3> QED  BY <3>1, <3>2, <3>3
  <2> QED  BY <2>1, <2>2
<1>21. Consumed'
  <2> SUFFICES ASSUME NEW q \in alone', filled[q] # None, frame'[q].at # "consume",
                      NEW x \in {slots[caller'[q].worker][caller'[q].session],
                                 slotDisk[caller'[q].session]},
                      x # None
               PROVE  x.asked # filled[q]
    BY <1>2, Zenon DEF Consumed, Answers, At, Worker, SessionOf
  <2>1. q # r /\ q \in alone /\ q \in Requests
    BY <1>2, <1>19
  <2>2. caller'[q] = caller[q] /\ At(q) # "consume"
    BY <1>3, <1>6, <2>1 DEF At
  <2> QED  BY <2>1, <2>2 DEF IInv, Consumed, Answers, Worker, SessionOf
<1>22. AnsweredOnce'
  <2> SUFFICES ASSUME NEW p \in alone', NEW q \in alone', filled[p] # None,
                      filled[p] = filled[q], caller'[p].worker = caller'[q].worker
               PROVE  p = q
    BY <1>2 DEF AnsweredOnce, Worker
  <2>1. p # r /\ q # r /\ p \in alone /\ q \in alone /\ p \in Requests /\ q \in Requests
    BY <1>2, <1>19
  <2>2. caller'[p] = caller[p] /\ caller'[q] = caller[q]
    BY <1>3, <2>1
  <2> QED  BY <2>1, <2>2 DEF IInv, AnsweredOnce, Worker
<1>23. TypeOK'
  <2>1. alone' \subseteq Requests /\ acked' \in [Sessions -> Requests \cup {None}]
    BY <1>1, <1>10, <1>19
  <2> QED  BY <1>2, <1>3, <1>6, <1>11, <2>1 DEF IInv, TypeOK, Frames
<1> QED  BY <1>13, <1>14, <1>15, <1>16, <1>17, <1>18, <1>20, <1>21, <1>22, <1>23 DEF IInv

LEMMA RestartStep == ASSUME IInv, NEW w \in Workers, Restart(w) PROVE IInv'
<1> DEFINE its  == {r \in Requests : caller[r] # None /\ Worker(r) = w}
           lost == {r \in its : InFlight(r)}
<1>1. /\ items' = [items EXCEPT ![w] = [s \in Sessions |-> None]]
      /\ slots' = [slots EXCEPT ![w] = [s \in Sessions |-> None]]
      /\ heap' = [r \in Requests |-> IF r \in its THEN None ELSE heap[r]]
      /\ frame' = [r \in Requests |-> IF r \in lost THEN Frame("over") ELSE frame[r]]
      /\ alone' = alone \ lost
      /\ UNCHANGED <<caller, filled, disk, slotDisk, succeeded, acked, cleared>>
  BY DEF Restart
<1>2. /\ TypeOK
      /\ frame \in [Requests -> Frames] /\ heap \in [Requests -> Session \cup {None}]
      /\ disk \in [Sessions -> Session \cup {None}]
      /\ items \in [Workers -> [Sessions -> Requests \cup {None}]]
      /\ slots \in [Workers -> [Sessions -> Slot \cup {None}]]
      /\ filled \in [Requests -> Requests \cup {None}]
      /\ alone \subseteq Requests
  BY DEF IInv, TypeOK, Frames
<1>3. /\ heap' \in [Requests -> Session \cup {None}]
      /\ \A r \in Requests : heap'[r] \in {None, heap[r]}
      /\ \A r \in Requests : caller[r] # None /\ Worker(r) # w => heap'[r] = heap[r]
  BY <1>1, <1>2
<1>4. /\ items' \in [Workers -> [Sessions -> Requests \cup {None}]]
      /\ slots' \in [Workers -> [Sessions -> Slot \cup {None}]]
      /\ \A s \in Sessions : items'[w][s] = None /\ slots'[w][s] = None
      /\ \A v \in Workers, s \in Sessions :
             v # w => items'[v][s] = items[v][s] /\ slots'[v][s] = slots[v][s]
  BY <1>1, <1>2
<1>5. /\ frame' \in [Requests -> Frames]
      /\ \A r \in Requests :
             \/ frame'[r] = frame[r] /\ r \notin lost
             \/ InFlight(r) /\ frame'[r] = Frame("over")
  BY <1>1, <1>2, OverTyped
<1>6. \A r \in Requests : /\ Known(r) => caller[r] \in Callers /\ caller[r] # None
                          /\ InFlight(r) => Known(r)
  BY NoneAssumption DEF IInv, CallersKnown, Known, InFlight
<1>7. \A r \in Requests : /\ Known(r) <=> Known(r)'
                          /\ Past(r) => Past(r)'
                          /\ InFlight(r)' => InFlight(r) /\ frame'[r] = frame[r] /\ Worker(r) # w
  <2> SUFFICES ASSUME NEW r \in Requests
               PROVE  /\ Known(r) <=> Known(r)'
                      /\ Past(r) => Past(r)'
                      /\ InFlight(r)' => InFlight(r) /\ frame'[r] = frame[r] /\ Worker(r) # w
    OBVIOUS
  <2>1. CASE frame'[r] = frame[r] /\ r \notin lost
    BY <1>6, <2>1 DEF Known, Past, InFlight, At
  <2>2. CASE InFlight(r) /\ frame'[r] = Frame("over")
    BY <2>2, OverTyped DEF Known, Past, InFlight, At
  <2> QED  BY <1>5, <2>1, <2>2
<1>8. Lasting
  BY <1>1, <1>7 DEF Lasting
<1> HIDE DEF lost
<1>9. ObjectsProper'
  BY <1>2, <1>3, <1>8, ObjectsLast DEF IInv
<1>10. StoredProper'
  <2>1. \A r \in Requests : \/ frame'[r].image = None
                            \/ Known(r) /\ frame'[r].image = frame[r].image
    BY <1>5, OverTyped DEF IInv, StoredProper
  <2> QED  BY <1>1, <1>2, <1>5, <1>8, <2>1, StoredLasts DEF IInv
<1>11. MineProper'
  <2> SUFFICES ASSUME NEW q \in Requests, frame'[q].mine # None
               PROVE  /\ InFlight(q)' /\ heap'[frame'[q].mine] # None
                      /\ caller[frame'[q].mine].user = caller[q].user
                      /\ caller[frame'[q].mine].session = caller[q].session
                      /\ caller[frame'[q].mine].worker = caller[q].worker
    BY <1>1 DEF MineProper, Mine, User, SessionOf, Worker
  <2>1. frame'[q] = frame[q] /\ q \notin lost
    BY <1>5, OverTyped
  <2>2. /\ Mine(q) # None /\ Mine(q) \in Requests /\ InFlight(q) /\ heap[Mine(q)] # None
        /\ User(Mine(q)) = User(q) /\ SessionOf(Mine(q)) = SessionOf(q)
        /\ Worker(Mine(q)) = Worker(q)
    BY <2>1 DEF IInv, TypeOK, MineProper, Mine
  <2>3. InFlight(q)' /\ Worker(q) # w
    BY <1>7, <2>1, <2>2 DEF InFlight, At
  <2>4. Known(Mine(q))
    BY <2>2 DEF IInv, ObjectsProper
  <2>5. heap'[Mine(q)] = heap[Mine(q)]
    BY <1>3, <1>6, <2>2, <2>3, <2>4
  <2> QED  BY <2>1, <2>2, <2>3, <2>5 DEF Mine, User, SessionOf, Worker
<1>12. ItemsProper'
  <2> SUFFICES ASSUME NEW v \in Workers, NEW s \in Sessions, items'[v][s] # None
               PROVE  /\ heap'[items'[v][s]] # None
                      /\ caller[items'[v][s]].session = s
                      /\ caller[items'[v][s]].worker = v
    BY <1>1 DEF ItemsProper, SessionOf, Worker
  <2>1. v # w /\ items'[v][s] = items[v][s]
    BY <1>4
  <2> DEFINE p == items[v][s]
  <2>2. p \in Requests /\ heap[p] # None /\ SessionOf(p) = s /\ Worker(p) = v /\ Known(p)
    BY <1>2, <2>1 DEF IInv, ItemsProper, ObjectsProper
  <2> HIDE DEF p
  <2>3. heap'[p] = heap[p]
    BY <1>3, <1>6, <2>1, <2>2
  <2> QED  BY <2>1, <2>2, <2>3 DEF p, SessionOf, Worker
<1>13. CallersKnown' /\ PlacesFit'
  <2>1. ASSUME NEW q \in Requests PROVE Fits(q)'
    <3>1. CASE frame'[q] = frame[q]
      BY <1>1, <3>1 DEF IInv, PlacesFit, Fits, At, Mine
    <3>2. CASE frame'[q] = Frame("over")
      BY <3>2, OverTyped DEF Fits, At
    <3> QED  BY <1>5, <3>1, <3>2
  <2>2. CallersKnown'
    BY <1>1, <1>7 DEF IInv, CallersKnown
  <2> QED  BY <2>1, <2>2 DEF PlacesFit
<1>14. SlotsProper'
  <2>1. \A x \in Slot, t \in Sessions : SlotProper(x, t) =>
            /\ Past(x.asked)' /\ caller[x.asked].user = x.owner /\ caller[x.asked].session = t
    BY <1>7 DEF SlotProper, Slot, User, SessionOf
  <2>2. ASSUME NEW v \in Workers, NEW t \in Sessions, slots'[v][t] # None
        PROVE  SlotProper(slots[v][t], t)'
    <3>1. slots'[v][t] \in Slot /\ SlotProper(slots'[v][t], t)
      BY <1>2, <1>4, <2>2 DEF IInv, SlotsProper
    <3> QED  BY <1>1, <2>1, <3>1 DEF SlotProper, User, SessionOf
  <2>3. ASSUME NEW t \in Sessions, slotDisk[t] # None
        PROVE  SlotProper(slotDisk[t], t)'
    <3>1. slotDisk'[t] = slotDisk[t] /\ slotDisk[t] \in Slot /\ SlotProper(slotDisk[t], t)
      BY <1>1, <2>3 DEF IInv, TypeOK, SlotsProper
    <3> QED  BY <1>1, <2>1, <3>1 DEF SlotProper, User, SessionOf
  <2>4. ASSUME NEW q \in Requests, filled[q] # None
        PROVE  /\ Past(filled[q])'
               /\ caller[filled[q]].user = caller[q].user
               /\ caller[filled[q]].session = caller[q].session
    <3>1. /\ filled[q] \in Requests /\ Past(filled[q])
          /\ User(filled[q]) = User(q) /\ SessionOf(filled[q]) = SessionOf(q)
      BY <1>2, <2>4 DEF IInv, SlotsProper
    <3>2. Past(filled[q])'
      BY <1>1, <1>7, <3>1
    <3> QED  BY <3>1, <3>2 DEF User, SessionOf
  <2> QED  BY <1>1, <2>2, <2>3, <2>4 DEF SlotsProper, User, SessionOf
<1>15. \A q \in alone' : q \in alone /\ q \in Requests /\ frame'[q] = frame[q]
  BY <1>1, <1>2, <1>5 DEF lost
<1>16. AloneInFlight'
  <2> SUFFICES ASSUME NEW q \in alone'
               PROVE  /\ Known(q)'
                      /\ \A p \in Requests :
                            InFlight(q)' /\ InFlight(p)' /\ caller[p].session = caller[q].session
                            => p = q
    BY <1>1 DEF AloneInFlight, SessionOf
  <2> QED  BY <1>7, <1>15 DEF IInv, AloneInFlight, SessionOf
<1>17. Consumed'
  <2> SUFFICES ASSUME NEW q \in alone', filled[q] # None, frame'[q].at # "consume",
                      NEW x \in {slots'[caller[q].worker][caller[q].session],
                                 slotDisk[caller[q].session]},
                      x # None
               PROVE  x.asked # filled[q]
    BY <1>1, Zenon DEF Consumed, Answers, At, Worker, SessionOf
  <2>1. q \in alone /\ q \in Requests /\ Known(q) /\ At(q) # "consume"
    BY <1>15 DEF IInv, AloneInFlight, At
  <2>2. Worker(q) \in Workers /\ SessionOf(q) \in Sessions
    BY <2>1, Whose
  <2>3. x \in {slots[Worker(q)][SessionOf(q)], slotDisk[SessionOf(q)]}
    BY <1>4, <2>2 DEF Worker, SessionOf
  <2> QED  BY <2>1, <2>3 DEF IInv, Consumed, Answers
<1>18. AnsweredOnce'
  BY <1>1, <1>15 DEF IInv, AnsweredOnce, Worker
<1>19. TypeOK'
  BY <1>1, <1>2, <1>3, <1>4, <1>5 DEF TypeOK, Frames
<1> QED  BY <1>9, <1>10, <1>11, <1>12, <1>13, <1>14, <1>16, <1>17, <1>18, <1>19 DEF IInv

-----------------------------------------------------------------------------
(* The invariant *)

LEMMA Starting == Init => IInv
<1> SUFFICES ASSUME Init PROVE IInv
  OBVIOUS
<1>1. /\ \A r \in Requests : /\ frame[r] = Frame("arrived") /\ heap[r] = None
                             /\ filled[r] = None /\ caller[r] = None
      /\ \A w \in Workers, s \in Sessions : items[w][s] = None /\ slots[w][s] = None
      /\ \A s \in Sessions : disk[s] = None /\ slotDisk[s] = None
      /\ alone = {}
  BY DEF Init
<1>2. /\ Frame("arrived") \in Frames /\ Frame("arrived").at = "arrived"
      /\ Frame("arrived").mine = None /\ Frame("arrived").image = None
      /\ Frame("arrived").result = "none"
  BY DEF Frame, Frames, Places, Intents
<1>3. frame \in [Requests -> Frames]
  BY <1>2 DEF Init
<1>4. TypeOK
  BY <1>3 DEF Init, TypeOK, Frames
<1>5. CallersKnown /\ ObjectsProper /\ MineProper /\ ItemsProper /\ StoredProper
  BY <1>1, <1>2 DEF CallersKnown, Known, At, ObjectsProper, MineProper, Mine, ItemsProper,
                    StoredProper
<1>6. PlacesFit
  BY <1>1, <1>2 DEF PlacesFit, Fits, At
<1>7. SlotsProper /\ AloneInFlight /\ Consumed /\ AnsweredOnce
  BY <1>1 DEF SlotsProper, AloneInFlight, Consumed, AnsweredOnce
<1> QED  BY <1>4, <1>5, <1>6, <1>7 DEF IInv

LEMMA Stuttering == ASSUME IInv, UNCHANGED vars PROVE IInv'
BY DEF IInv, vars, requestVars, sessionVars, slotVars, historyVars, TypeOK, CallersKnown,
       PlacesFit, Fits, ObjectsProper, MineProper, ItemsProper, StoredProper, SlotsProper,
       SlotProper, AloneInFlight, Consumed, Answers, AnsweredOnce, Proper, Known, Past,
       InFlight, At, Mine, User, SessionOf, Worker

LEMMA Stepping == ASSUME IInv, [Next]_vars PROVE IInv'
<1>1. ASSUME NEW r \in Requests, Step(r) PROVE IInv'
  <2>1. CASE Begin(r)
    BY <2>1, BeginStep
  <2>2. CASE LookUp(r)
    BY <2>2, LookUpStep
  <2>3. CASE Consume(r)
    BY <2>3, ConsumeStep
  <2>4. CASE Route(r)
    BY <2>4, RouteStep
  <2>5. CASE Drop(r)
    BY <2>5, DropStep
  <2>6. CASE DropAny(r)
    BY <2>6, DropAnyStep
  <2>7. CASE Forget(r)
    BY <2>7, ForgetStep
  <2>8. CASE Resolve(r)
    BY <2>8, ResolveStep
  <2>9. CASE Run(r)
    BY <2>9, RunStep
  <2>10. CASE Ask(r)
    BY <2>10, AskStep
  <2>11. CASE Switch(r)
    BY <2>11, SwitchStep
  <2>12. CASE Record(r)
    BY <2>12, RecordStep
  <2>13. CASE Note(r)
    BY <2>13, NoteStep
  <2>14. CASE Check(r)
    BY <2>14, CheckStep
  <2>15. CASE Store(r)
    BY <2>15, StoreStep
  <2>16. CASE Dump(r)
    BY <2>16, DumpStep
  <2>17. CASE Write(r)
    BY <2>17, WriteStep
  <2> QED  BY <1>1, <2>1, <2>2, <2>3, <2>4, <2>5, <2>6, <2>7, <2>8, <2>9, <2>10, <2>11,
              <2>12, <2>13, <2>14, <2>15, <2>16, <2>17 DEF Step
<1>2. CASE UNCHANGED vars
  BY <1>2, Stuttering
<1> QED  BY <1>1, <1>2, RestartStep DEF Next

\* The invariant holds for any number of requests, workers, users and sessions,
\* with and without a disk, through expiry, eviction, clearing and restarts.
THEOREM Invariance == Spec => []IInv
<1>1. Init => IInv
  BY Starting
<1>2. IInv /\ [Next]_vars => IInv'
  BY Stepping
<1> QED  BY <1>1, <1>2, PTL DEF Spec

\* No request ever works on another user's or another session's context: the
\* object that get() returns or that it makes, the turns in it, and the question
\* that it answers are its own (agent/memory.py, agent/slotfill.py).
THEOREM Apart == Spec => []SessionsApart
<1>1. IInv => SessionsApart
  <2> SUFFICES ASSUME IInv, NEW r \in Requests
               PROVE  /\ Mine(r) # None =>
                            /\ heap[Mine(r)].owner = User(r)
                            /\ \A t \in Turns(heap[Mine(r)]) :
                                  User(t) = User(r) /\ SessionOf(t) = SessionOf(r)
                      /\ filled[r] # None =>
                            User(filled[r]) = User(r) /\ SessionOf(filled[r]) = SessionOf(r)
    BY DEF SessionsApart
  <2>1. ASSUME Mine(r) # None
        PROVE  /\ heap[Mine(r)].owner = User(r)
               /\ \A t \in Turns(heap[Mine(r)]) :
                     User(t) = User(r) /\ SessionOf(t) = SessionOf(r)
    <3>1. /\ Mine(r) \in Requests /\ heap[Mine(r)] # None
          /\ User(Mine(r)) = User(r) /\ SessionOf(Mine(r)) = SessionOf(r)
      BY <2>1 DEF IInv, TypeOK, MineProper, Mine
    <3>2. Proper(heap[Mine(r)], User(Mine(r)), SessionOf(Mine(r)))
      BY <3>1 DEF IInv, ObjectsProper
    <3> QED  BY <3>1, <3>2 DEF Proper
  <2>2. filled[r] # None => User(filled[r]) = User(r) /\ SessionOf(filled[r]) = SessionOf(r)
    BY DEF IInv, SlotsProper
  <2> QED  BY <2>1, <2>2
<1> QED  BY <1>1, Invariance, PTL

\* The DSL that a session offers to build on, in memory or on disk, is one whose
\* query was executed successfully (_record_turn of web/service.py).
THEOREM BaseRan == Spec => []BaseSucceeded
<1>1. IInv => BaseSucceeded
  BY DEF IInv, ObjectsProper, StoredProper, Proper, BaseSucceeded
<1> QED  BY <1>1, Invariance, PTL

\* A worker takes a clarification as answered once, unless requests of its
\* session overlap or a restart cuts one off (run_query of web/service.py).
THEOREM AnswerIsOnce == Spec => []AnsweredOnce
<1>1. IInv => AnsweredOnce
  BY DEF IInv
<1> QED  BY <1>1, Invariance, PTL

-----------------------------------------------------------------------------
(* What a session recorded last *)

\* A request whose query was executed: once its DSL is the session's, and while
\* it is alone, the object it works on, the worker's memory and the image for the
\* disk keep it.
Kept(r) ==
    frame[r].result = "ok" =>
        /\ frame[r].intent = "data"
        /\ At(r) \in {"ask", "record", "note", "check", "store", "dump", "write"}
        /\ At(r) = "write" => Mine(r) # None /\ frame[r].image # None
        /\ r \in alone =>
              /\ At(r) \in {"note", "check", "store", "dump", "write"} => heap[Mine(r)].base = r
              /\ At(r) \in {"dump", "write"} =>
                     items[Worker(r)][SessionOf(r)] \in {None, Mine(r)}
              /\ At(r) = "write" => frame[r].image.base = r

\* The turn that a session has recorded last: no request is at work on the
\* session, and what the disk and the worker of that turn hold of it is that turn's.
Last(s) ==
    acked[s] # None =>
        /\ Known(acked[s]) /\ SessionOf(acked[s]) = s
        /\ \A r \in Requests : InFlight(r) => SessionOf(r) # s
        /\ disk[s] # None => disk[s].base = acked[s]
        /\ items[Worker(acked[s])][s] # None =>
               heap[items[Worker(acked[s])][s]].base = acked[s]

RecordedLast ==
    /\ \A r \in Requests : Kept(r)
    /\ \A s \in Sessions : Last(s)

\* A step of a request keeps what the other requests recorded.
LEMMA Elsewhere ==
    ASSUME IInv, RecordedLast, NEW q \in Requests, Proceeds(q), UNCHANGED <<alone, acked>>,
           \A o \in Requests : heap'[o] = heap[o] \/ o = Mine(q) \/ o = q,
           \A w \in Workers, s \in Sessions :
               items'[w][s] \in {None, items[w][s]} \/ s = SessionOf(q),
           \A s \in Sessions : disk'[s] \in {None, disk[s]} \/ s = SessionOf(q),
           Kept(q)'
    PROVE  RecordedLast'
<1>1. /\ caller' = caller /\ InFlight(q) /\ Known(q) /\ alone \subseteq Requests
      /\ \A r \in Requests : Mine(r) \in Requests \cup {None}
      /\ items \in [Workers -> [Sessions -> Requests \cup {None}]]
      /\ acked \in [Sessions -> Requests \cup {None}]
  BY DEF Proceeds, InFlight, Known, IInv, TypeOK, Mine
<1>2. \A o \in Requests : SessionOf(o) # SessionOf(q) => heap'[o] = heap[o]
  BY <1>1, NoneAssumption DEF IInv, MineProper
<1>3. ASSUME NEW r \in Requests PROVE Kept(r)'
  <2>1. CASE r = q
    BY <2>1
  <2>2. CASE r # q
    <3>1. frame'[r] = frame[r]
      BY <2>2 DEF Proceeds
    <3> SUFFICES ASSUME frame[r].result = "ok", r \in alone,
                        At(r) \in {"note", "check", "store", "dump", "write"}
                 PROVE  /\ heap'[Mine(r)].base = r
                        /\ At(r) \in {"dump", "write"} =>
                               items'[Worker(r)][SessionOf(r)] \in {None, Mine(r)}
      BY <1>1, <3>1 DEF RecordedLast, Kept, At, Mine, Worker, SessionOf
    <3>2. InFlight(r) /\ Known(r)
      BY DEF InFlight, Known
    <3>3. SessionOf(r) # SessionOf(q)
      BY <1>1, <2>2, <3>2 DEF IInv, AloneInFlight
    <3>4. Mine(r) # None
      BY DEF RecordedLast, Kept, IInv, PlacesFit, Fits
    <3>5. heap'[Mine(r)] = heap[Mine(r)]
      BY <1>1, <1>2, <3>3, <3>4 DEF IInv, MineProper
    <3>6. Worker(r) \in Workers /\ SessionOf(r) \in Sessions
      BY <3>2, Whose
    <3> QED  BY <3>3, <3>5, <3>6 DEF RecordedLast, Kept
  <2> QED  BY <2>1, <2>2
<1>4. ASSUME NEW s \in Sessions PROVE Last(s)'
  <2> SUFFICES ASSUME acked[s] # None
               PROVE  /\ Known(acked[s])' /\ SessionOf(acked[s]) = s
                      /\ \A r \in Requests : InFlight(r)' => SessionOf(r) # s
                      /\ disk'[s] # None => disk'[s].base = acked[s]
                      /\ items'[Worker(acked[s])][s] # None =>
                             heap'[items'[Worker(acked[s])][s]].base = acked[s]
    BY <1>1 DEF Last, SessionOf, Worker, Known, At
  <2>1. /\ acked[s] \in Requests /\ Known(acked[s]) /\ SessionOf(acked[s]) = s
        /\ \A r \in Requests : InFlight(r) => SessionOf(r) # s
        /\ disk[s] # None => disk[s].base = acked[s]
        /\ items[Worker(acked[s])][s] # None =>
               heap[items[Worker(acked[s])][s]].base = acked[s]
    BY <1>1 DEF RecordedLast, Last
  <2>2. SessionOf(q) # s
    BY <1>1, <2>1
  <2>3. Known(acked[s])' /\ \A r \in Requests : InFlight(r)' => InFlight(r)
    BY <1>1, <2>1 DEF Proceeds, Known, InFlight, At
  <2>4. disk'[s] \in {None, disk[s]}
    BY <2>2
  <2> DEFINE w == Worker(acked[s])
             p == items[w][s]
  <2>5. w \in Workers
    BY <2>1, Whose
  <2>6. items'[w][s] \in {None, p}
    BY <2>2, <2>5
  <2>7. p # None => heap'[p] = heap[p]
    BY <1>1, <1>2, <2>2, <2>5 DEF IInv, ItemsProper
  <2>8. p # None => heap[p].base = acked[s]
    BY <2>1
  <2> HIDE DEF p, w
  <2>9. items'[w][s] # None => heap'[items'[w][s]].base = acked[s]
    BY <2>6, <2>7, <2>8
  <2> QED  BY <2>1, <2>3, <2>4, <2>9 DEF w
<1> QED  BY <1>3, <1>4 DEF RecordedLast

\* Most steps take a request to a place where it has no result yet, or no more.
LEMMA Plain ==
    ASSUME IInv, RecordedLast, NEW r \in Requests, Proceeds(r),
           UNCHANGED <<alone, acked, heap>>,
           \A w \in Workers, s \in Sessions : items'[w][s] \in {None, items[w][s]},
           \A s \in Sessions : disk'[s] \in {None, disk[s]},
           frame'[r].result # "ok" \/ (At(r)' \in {"ask", "record"} /\ frame'[r].intent = "data")
    PROVE  RecordedLast'
<1>1. Kept(r)'
  BY DEF Kept, At
<1> QED  BY <1>1, Elsewhere

LEMMA FirstHalf ==
    ASSUME IInv, RecordedLast, NEW r \in Requests,
           \/ LookUp(r) \/ Consume(r) \/ Drop(r) \/ DropAny(r) \/ Forget(r)
    PROVE  RecordedLast'
<1>1. At(r) \in {"look", "consume", "drop", "dropany", "forget"} /\ InFlight(r) /\ Fits(r)
  BY DEF LookUp, Consume, Drop, DropAny, Forget, InFlight, IInv, PlacesFit
<1>2. frame[r].result # "ok"
  BY <1>1 DEF RecordedLast, Kept
<1>3. PICK place \in Places \ {"arrived"} : Go(r, place)
  <2>1. CASE Drop(r)
    <3>1. CASE frame[r].intent = "chitchat"
      BY <2>1, <3>1 DEF Drop, Recording, Places
    <3>2. CASE frame[r].intent = "glossary"
      BY <2>1, <3>2 DEF Drop, Places
    <3>3. CASE frame[r].intent = "data"
      BY <2>1, <3>3 DEF Drop, Places
    <3> QED  BY <1>1, <2>1, <3>1, <3>2, <3>3 DEF Fits, Drop
  <2>2. CASE LookUp(r) \/ Consume(r) \/ DropAny(r) \/ Forget(r)
    BY <2>2 DEF LookUp, Consume, DropAny, Forget, Places
  <2> QED  BY <2>1, <2>2
<1>4. /\ UNCHANGED <<caller, alone, acked, heap>>
      /\ items' \in {items, [items EXCEPT ![Worker(r)][SessionOf(r)] = None]}
      /\ disk' \in {disk, [disk EXCEPT ![SessionOf(r)] = None]}
  BY DEF LookUp, Consume, Drop, DropAny, Forget, sessionVars, historyVars
<1>5. Proceeds(r) /\ frame'[r].result # "ok"
  BY <1>1, <1>2, <1>3, <1>4, Proceeding
<1>6. /\ \A w \in Workers, s \in Sessions : items'[w][s] \in {None, items[w][s]}
      /\ \A s \in Sessions : disk'[s] \in {None, disk[s]}
  <2>1. /\ items \in [Workers -> [Sessions -> Requests \cup {None}]]
        /\ disk \in [Sessions -> Session \cup {None}]
    BY DEF IInv, TypeOK
  <2> QED  BY <1>4, <2>1
<1> QED  BY <1>4, <1>5, <1>6, Plain

LEMMA AnsweredPlaces ==
    ASSUME NEW r \in Requests, NEW result \in {"failed", "empty", "ok", "none"},
           frame[r].intent \in {"glossary", "data"},
           IF frame[r].intent = "data" THEN result # "none" ELSE result = "none"
    PROVE  /\ Answered(r, result) \in {"switch", "note", "over", "record"}
           /\ result = "ok" => Answered(r, result) = "record" /\ frame[r].intent = "data"
<1>1. CASE frame[r].intent = "glossary"
  BY <1>1 DEF Answered, Recording
<1>2. CASE frame[r].intent = "data" /\ result = "failed"
  BY <1>2 DEF Answered, Recording
<1>3. CASE frame[r].intent = "data" /\ result = "empty"
  BY <1>3 DEF Answered
<1>4. CASE frame[r].intent = "data" /\ result = "ok"
  BY <1>4 DEF Answered
<1> QED  BY <1>1, <1>2, <1>3, <1>4

LEMMA SecondHalf ==
    ASSUME IInv, RecordedLast, NEW r \in Requests,
           \/ Route(r) \/ Run(r) \/ Resolve(r) \/ Switch(r)
    PROVE  RecordedLast'
<1>1. /\ At(r) \in {"route", "run", "resolve", "switch"} /\ InFlight(r) /\ Fits(r)
      /\ frame[r] \in Frames /\ items' = items /\ disk' = disk
      /\ UNCHANGED <<caller, alone, acked>>
  BY DEF Route, Run, Resolve, Switch, InFlight, IInv, PlacesFit, TypeOK, Frames,
         sessionVars, historyVars
<1>2. frame[r].result # "ok"
  BY <1>1 DEF RecordedLast, Kept
<1>3. CASE Resolve(r) \/ Switch(r)
  <2>1. PICK place \in {"run", "note"} : Go(r, place)
    BY <1>3 DEF Resolve, Switch
  <2>2. Proceeds(r) /\ frame'[r].result # "ok"
    BY <1>1, <1>2, <2>1, Proceeding DEF Places
  <2>3. \A o \in Requests : heap'[o] = heap[o] \/ o = Mine(r)
    <3>1. heap \in [Requests -> Session \cup {None}]
      BY DEF IInv, TypeOK
    <3>2. heap' = heap \/ heap' = [heap EXCEPT ![Mine(r)].base = None]
      BY <1>3 DEF Resolve, Switch
    <3> QED  BY <3>1, <3>2
  <2>4. Kept(r)'
    BY <2>2 DEF Kept
  <2> QED  BY <1>1, <2>2, <2>3, <2>4, Elsewhere
<1>4. CASE Route(r)
  <2>1. PICK i \in Intents, place \in Places \ {"arrived"} :
            Enter(r, [frame[r] EXCEPT !.at = place, !.intent = i])
    <3>1. PICK i \in Intents, place \in Places :
            /\ CASE i \in {"chitchat", "glossary", "data"} -> place = "drop"
                 [] i = "clarify" -> place \in {"ask", Recording(r, "note")}
                 [] i = "reset"   -> place = "dropany"
                 [] i = "other"   -> place = "over"
            /\ Enter(r, [frame[r] EXCEPT !.at = place, !.intent = i])
      BY <1>4 DEF Route
    <3>2. place # "arrived"
      BY <3>1 DEF Recording, Intents
    <3> QED  BY <3>1, <3>2
  <2> DEFINE f == [frame[r] EXCEPT !.at = place, !.intent = i]
  <2>2. f \in Frames /\ f.at = place /\ f.result = frame[r].result /\ Enter(r, f)
    BY <1>1, <2>1 DEF Frames
  <2> HIDE DEF f
  <2>3. Proceeds(r) /\ frame'[r].result # "ok"
    BY <1>1, <1>2, <2>2, Entering DEF IInv, Proceeds
  <2>4. heap' = heap
    BY <1>4 DEF Route, sessionVars
  <2> QED  BY <1>1, <2>3, <2>4, Plain
<1>5. CASE Run(r)
  <2>1. heap' = heap
    BY <1>5 DEF Run, sessionVars
  <2>2. CASE Go(r, "over")
    <3>1. Proceeds(r) /\ frame'[r].result # "ok"
      BY <1>1, <2>2, Proceeding DEF Places
    <3> QED  BY <1>1, <2>1, <3>1, Plain
  <2>3. ASSUME NEW result \in {"failed", "empty", "ok", "none"},
               NEW place \in {"ask", Answered(r, result)},
               IF frame[r].intent = "data" THEN result # "none" ELSE result = "none",
               Enter(r, [frame[r] EXCEPT !.at = place, !.result = result])
        PROVE  RecordedLast'
    <3> DEFINE f == [frame[r] EXCEPT !.at = place, !.result = result]
    <3>1. /\ place \in {"ask", "switch", "note", "over", "record"}
          /\ result = "ok" => place \in {"ask", "record"} /\ frame[r].intent = "data"
      <4>1. frame[r].intent \in {"glossary", "data"}
        BY <1>1, <1>5 DEF Fits, Run, At
      <4> QED  BY <2>3, <4>1, AnsweredPlaces
    <3>2. /\ f \in Frames /\ f.at = place /\ f.result = result
          /\ f.intent = frame[r].intent /\ Enter(r, f)
      BY <1>1, <2>3, <3>1 DEF Frames, Places
    <3> HIDE DEF f
    <3>3. /\ frame' \in [Requests -> Frames] /\ \A q \in Requests \ {r} : frame'[q] = frame[q]
          /\ frame'[r].at = place
          /\ place # "over" => frame'[r] = f
          /\ place = "over" => frame'[r].result = "none"
      BY <3>2, Entering DEF IInv
    <3>4. Proceeds(r)
      BY <1>1, <3>1, <3>3 DEF Proceeds
    <3>5. \/ frame'[r].result # "ok"
          \/ At(r)' \in {"ask", "record"} /\ frame'[r].intent = "data"
      BY <3>1, <3>2, <3>3 DEF At
    <3> QED  BY <1>1, <2>1, <3>4, <3>5, Plain
  <2>4. \/ Go(r, "over")
        \/ \E result \in {"failed", "empty", "ok", "none"} :
              /\ IF frame[r].intent = "data" THEN result # "none" ELSE result = "none"
              /\ \E place \in {"ask", Answered(r, result)} :
                    Enter(r, [frame[r] EXCEPT !.at = place, !.result = result])
    BY <1>5 DEF Run
  <2> QED  BY <2>2, <2>3, <2>4
<1> QED  BY <1>3, <1>4, <1>5

LEMMA AskKeeps == ASSUME IInv, RecordedLast, NEW r \in Requests, Ask(r) PROVE RecordedLast'
<1> DEFINE place == IF frame[r].intent = "clarify" THEN Recording(r, "note")
                    ELSE Answered(r, frame[r].result)
<1>1. /\ At(r) = "ask" /\ InFlight(r) /\ Fits(r) /\ Kept(r) /\ Go(r, place)
      /\ UNCHANGED <<caller, sessionVars, historyVars>>
  BY DEF Ask, InFlight, IInv, PlacesFit, RecordedLast
<1>2. UNCHANGED <<alone, acked, heap, items, disk>>
  BY <1>1 DEF sessionVars, historyVars
<1>3. /\ frame[r].intent = "data" => frame[r].result \in {"failed", "empty", "ok"}
      /\ frame[r].intent \in {"clarify", "glossary", "data"}
  BY <1>1 DEF Fits, IInv, TypeOK
<1>4. /\ place \in {"note", "over", "switch", "record"}
      /\ frame[r].result = "ok" => frame[r].intent = "data" /\ place = "record"
  BY <1>1, <1>3 DEF Recording, Answered, Kept
<1> HIDE DEF place
<1>5. /\ Proceeds(r)
      /\ \/ frame'[r].result # "ok"
         \/ At(r)' \in {"ask", "record"} /\ frame'[r].intent = "data"
  BY <1>1, <1>4, Proceeding DEF Places, At
<1> QED  BY <1>2, <1>5, Plain

LEMMA RecordKeeps == ASSUME IInv, RecordedLast, NEW r \in Requests, Record(r) PROVE RecordedLast'
<1>1. /\ At(r) = "record" /\ InFlight(r) /\ Known(r) /\ Kept(r) /\ frame[r] \in Frames
      /\ heap \in [Requests -> Session \cup {None}]
      /\ UNCHANGED <<caller, items, disk, alone, acked>> /\ Fits(r)
  BY DEF Record, InFlight, Known, IInv, TypeOK, Frames, PlacesFit, RecordedLast, historyVars
<1>2. CASE Mine(r) = None
  <2> DEFINE x == [owner |-> User(r), base |-> r, history |-> <<>>]
             f == [frame[r] EXCEPT !.at = "note", !.mine = r]
  <2>1. heap' = [heap EXCEPT ![r] = x] /\ Enter(r, f)
    BY <1>2 DEF Record
  <2>2. x.base = r
    OBVIOUS
  <2>3. /\ f \in Frames /\ f.at = "note" /\ f.mine = r /\ f.result = frame[r].result
        /\ f.intent = frame[r].intent
    BY <1>1 DEF Frames, Places
  <2> HIDE DEF x, f
  <2>4. Proceeds(r) /\ frame'[r] = f
    BY <1>1, <2>1, <2>3, Entering DEF IInv, Proceeds
  <2>5. heap'[r].base = r /\ \A o \in Requests : heap'[o] = heap[o] \/ o = r
    BY <1>1, <2>1, <2>2
  <2>6. Kept(r)'
    BY <1>1, <2>3, <2>4, <2>5 DEF Kept, At, Mine
  <2> QED  BY <1>1, <2>4, <2>5, <2>6, Elsewhere
<1>3. CASE Mine(r) # None
  <2> DEFINE x == [heap[Mine(r)] EXCEPT !.base = r]
  <2>1. heap' = [heap EXCEPT ![Mine(r)] = x] /\ Go(r, "note")
    BY <1>3 DEF Record
  <2>2. heap[Mine(r)] \in Session /\ Mine(r) \in Requests
    BY <1>3 DEF IInv, TypeOK, MineProper, Mine
  <2>3. x.base = r
    BY <2>2, NewBase
  <2> HIDE DEF x
  <2>4. /\ Proceeds(r) /\ frame'[r].at = "note" /\ frame'[r].mine = Mine(r)
        /\ frame'[r].intent = frame[r].intent /\ frame'[r].result = frame[r].result
    BY <1>1, <2>1, Proceeding DEF Places
  <2>5. heap'[Mine(r)].base = r /\ \A o \in Requests : heap'[o] = heap[o] \/ o = Mine(r)
    BY <1>1, <2>1, <2>2, <2>3
  <2>6. Kept(r)'
    BY <1>1, <2>4, <2>5 DEF Kept, At, Mine
  <2> QED  BY <1>1, <2>4, <2>5, <2>6, Elsewhere
<1> QED  BY <1>2, <1>3

\* The history of an object changes, its DSL does not.
LEMMA BaseStays ==
    ASSUME IInv, NEW o \in Requests, heap[o] # None,
           NEW h, heap' = [heap EXCEPT ![o].history = h]
    PROVE  heap'[o].base = heap[o].base /\ \A p \in Requests : heap'[p] = heap[p] \/ p = o
<1>1. heap \in [Requests -> Session \cup {None}] /\ heap[o] \in Session
  BY DEF IInv, TypeOK
<1>2. [heap[o] EXCEPT !.history = h].base = heap[o].base
  BY <1>1 DEF Session
<1>3. heap' = [heap EXCEPT ![o] = [heap[o] EXCEPT !.history = h]]
  OBVIOUS
<1>4. heap'[o] = [heap[o] EXCEPT !.history = h] /\ \A p \in Requests : heap'[p] = heap[p] \/ p = o
  BY <1>1, <1>3
<1> QED  BY <1>2, <1>4

LEMMA NoteKeeps ==
    ASSUME IInv, RecordedLast, NEW r \in Requests, Note(r) \/ Check(r)
    PROVE  RecordedLast'
<1>1. /\ At(r) \in {"note", "check"} /\ InFlight(r) /\ Kept(r) /\ Mine(r) # None
      /\ UNCHANGED <<caller, items, alone, acked>> /\ disk \in [Sessions -> Session \cup {None}]
  BY DEF Note, Check, InFlight, IInv, TypeOK, PlacesFit, Fits, RecordedLast, historyVars
<1>2. Mine(r) \in Requests /\ heap[Mine(r)] # None
  BY <1>1 DEF IInv, TypeOK, MineProper, Mine
<1>3. CASE Go(r, "over") /\ UNCHANGED <<heap, disk>>
  <2>1. Proceeds(r) /\ frame'[r].result # "ok"
    BY <1>1, <1>3, Proceeding DEF Places
  <2> QED  BY <1>1, <1>3, <2>1, Plain
<1>4. ASSUME NEW place \in {"check", "store"}, Go(r, place),
             NEW h, heap' = [heap EXCEPT ![Mine(r)].history = h],
             disk' \in {disk, [disk EXCEPT ![SessionOf(r)] = None]}
      PROVE  RecordedLast'
  <2>1. /\ Proceeds(r) /\ frame'[r].at = place /\ frame'[r].mine = Mine(r)
        /\ frame'[r].intent = frame[r].intent /\ frame'[r].result = frame[r].result
    BY <1>1, <1>4, Proceeding DEF Places
  <2>2. /\ heap'[Mine(r)].base = heap[Mine(r)].base
        /\ \A o \in Requests : heap'[o] = heap[o] \/ o = Mine(r)
    BY <1>2, <1>4, BaseStays
  <2>3. \A s \in Sessions : disk'[s] \in {None, disk[s]}
    BY <1>1, <1>4
  <2>4. Kept(r)'
    BY <1>1, <2>1, <2>2 DEF Kept, At, Mine
  <2> QED  BY <1>1, <2>1, <2>2, <2>3, <2>4, Elsewhere
<1>5. CASE Note(r)
  BY <1>4, <1>5 DEF Note
<1>6. CASE Check(r)
  BY <1>3, <1>4, <1>6 DEF Check
<1> QED  BY <1>5, <1>6

LEMMA StoreKeeps == ASSUME IInv, RecordedLast, NEW r \in Requests, Store(r) PROVE RecordedLast'
<1> DEFINE w == Worker(r)
           s == SessionOf(r)
           other == {t \in Sessions \ {s} : items[w][t] # None}
           place == IF Durable THEN "dump" ELSE "over"
<1>1. PICK keep \in SUBSET other :
        /\ items' = [items EXCEPT ![w] = [t \in Sessions |->
                         IF t = s THEN Mine(r) ELSE IF t \in keep THEN @[t] ELSE None]]
        /\ disk' = [t \in Sessions |-> IF t \in other \ keep THEN None ELSE disk[t]]
  BY DEF Store
<1>2. /\ At(r) = "store" /\ InFlight(r) /\ Known(r) /\ Kept(r) /\ Go(r, place)
      /\ UNCHANGED <<caller, heap, alone, acked>>
      /\ items \in [Workers -> [Sessions -> Requests \cup {None}]]
  BY DEF Store, InFlight, Known, RecordedLast, historyVars, IInv, TypeOK
<1>3. w \in Workers /\ s \in Sessions
  BY <1>2, Whose
<1>4. /\ \A v \in Workers, t \in Sessions : items'[v][t] \in {None, items[v][t]} \/ t = s
      /\ items'[w][s] = Mine(r)
      /\ \A t \in Sessions : disk'[t] \in {None, disk[t]}
  BY <1>1, <1>2, <1>3
<1>5. /\ Proceeds(r) /\ frame'[r].at = place
      /\ \/ /\ place = "dump" /\ frame'[r].mine = Mine(r)
            /\ frame'[r].intent = frame[r].intent /\ frame'[r].result = frame[r].result
         \/ frame'[r].result = "none"
  BY <1>2, Proceeding DEF Places
<1> HIDE DEF place
<1>6. Kept(r)'
  BY <1>2, <1>4, <1>5 DEF Kept, At, Mine, Worker, SessionOf
<1> QED  BY <1>2, <1>4, <1>5, <1>6, Elsewhere

LEMMA DumpKeeps == ASSUME IInv, RecordedLast, NEW r \in Requests, Dump(r) PROVE RecordedLast'
<1> DEFINE y == heap[Mine(r)]
           f == [frame[r] EXCEPT !.at = "write", !.image = y]
<1>1. /\ At(r) = "dump" /\ InFlight(r) /\ Kept(r) /\ Mine(r) # None
      /\ frame[r] \in Frames /\ Enter(r, f) /\ y \in Session
      /\ UNCHANGED <<caller, heap, items, disk, alone, acked>>
  BY DEF Dump, InFlight, IInv, TypeOK, Frames, PlacesFit, Fits, RecordedLast, Mine, MineProper,
         sessionVars, historyVars
<1> HIDE DEF y
<1>2. /\ f \in Frames /\ f.at = "write" /\ f.mine = Mine(r) /\ f.intent = frame[r].intent
      /\ f.result = frame[r].result /\ f.image = y
  BY <1>1 DEF Frames, Places, Mine
<1> HIDE DEF f
<1>3. Proceeds(r) /\ frame'[r] = f
  BY <1>1, <1>2, Entering DEF IInv, Proceeds
<1>4. y # None
  BY <1>1, NoneAssumption
<1>5. Kept(r)'
  BY <1>1, <1>2, <1>3, <1>4 DEF Kept, At, Mine, Worker, SessionOf, y
<1> QED  BY <1>1, <1>3, <1>5, Elsewhere

LEMMA WriteKeeps == ASSUME IInv, RecordedLast, NEW r \in Requests, Write(r) PROVE RecordedLast'
<1>1. /\ At(r) = "write" /\ InFlight(r) /\ Known(r) /\ Kept(r) /\ Go(r, "over")
      /\ disk' = [disk EXCEPT ![SessionOf(r)] = frame[r].image]
      /\ UNCHANGED <<caller, heap, items, alone>>
      /\ disk \in [Sessions -> Session \cup {None}]
      /\ acked \in [Sessions -> Requests \cup {None}]
      /\ SessionOf(r) \in Sessions /\ Worker(r) \in Workers
  BY Whose DEF Write, InFlight, Known, RecordedLast, IInv, TypeOK
<1>2. Proceeds(r) /\ frame'[r].at = "over" /\ frame'[r].result # "ok"
  BY <1>1, Proceeding DEF Places
<1>3. Kept(r)'
  BY <1>2 DEF Kept
<1>4. \A s \in Sessions : disk'[s] = disk[s] \/ (s = SessionOf(r) /\ disk'[s] = frame[r].image)
  BY <1>1
<1>5. CASE acked' = acked
  BY <1>1, <1>2, <1>3, <1>4, <1>5, Elsewhere
<1>6. CASE /\ r \in alone /\ frame[r].result = "ok"
           /\ acked' = [acked EXCEPT ![SessionOf(r)] = r]
  <2>1. /\ frame[r].image # None /\ frame[r].image.base = r /\ Mine(r) # None
        /\ heap[Mine(r)].base = r
        /\ items[Worker(r)][SessionOf(r)] \in {None, Mine(r)}
    BY <1>1, <1>6 DEF Kept
  <2>2. \A q \in Requests : InFlight(q)' => InFlight(q) /\ SessionOf(q) # SessionOf(r)
    <3>1. ASSUME NEW q \in Requests, InFlight(q)' PROVE q # r /\ InFlight(q)
      BY <1>2, <3>1 DEF Proceeds, InFlight, At
    <3> QED  BY <1>1, <1>6, <3>1 DEF IInv, AloneInFlight
  <2>3. \A q \in Requests : Kept(q)'
    <3>1. ASSUME NEW q \in Requests, q # r PROVE Kept(q)'
      <4>1. frame'[q] = frame[q] /\ Kept(q)
        BY <1>2, <3>1 DEF Proceeds, RecordedLast
      <4> QED  BY <1>1, <4>1 DEF Kept, At, Mine, Worker, SessionOf
    <3> QED  BY <1>3, <3>1
  <2>4. ASSUME NEW s \in Sessions PROVE Last(s)'
    <3>1. CASE s = SessionOf(r)
      <4>1. acked'[s] = r /\ Known(r)' /\ disk'[s].base = r
        BY <1>1, <1>2, <1>6, <2>1, <3>1 DEF Known, At
      <4>2. items'[caller'[r].worker][s] # None =>
                heap'[items'[caller'[r].worker][s]].base = r
        BY <1>1, <2>1, <3>1 DEF Worker
      <4>3. caller'[r].session = s /\ \A q \in Requests : InFlight(q)' => caller'[q].session # s
        BY <1>1, <2>2, <3>1 DEF SessionOf
      <4> QED  BY <4>1, <4>2, <4>3 DEF Last, SessionOf, Worker
    <3>2. CASE s # SessionOf(r)
      <4>1. acked'[s] = acked[s] /\ disk'[s] = disk[s] /\ Last(s)
        BY <1>1, <1>4, <1>6, <3>2 DEF RecordedLast
      <4>2. \A t \in Requests : Known(t) => Known(t)'
        BY <1>2 DEF Proceeds, Known, At
      <4>3. acked[s] # None => acked[s] \in Requests
        BY <1>1
      <4> QED  BY <1>1, <2>2, <4>1, <4>2, <4>3 DEF Last, SessionOf, Worker
    <3> QED  BY <3>1, <3>2
  <2> QED  BY <2>3, <2>4 DEF RecordedLast
<1> QED  BY <1>5, <1>6 DEF Write

LEMMA BeginKeeps == ASSUME IInv, RecordedLast, NEW r \in Requests, Begin(r) PROVE RecordedLast'
<1>1. PICK c \in Callers, o \in Requests \cup {None} :
        LET busy == {q \in Requests : InFlight(q) /\ SessionOf(q) = c.session}
        IN  /\ caller' = [caller EXCEPT ![r] = c]
            /\ Recall(r, c, o)
            /\ Enter(r, [frame[r] EXCEPT !.at = "look", !.mine = o])
            /\ alone' = IF busy = {} THEN alone \cup {r} ELSE alone \ busy
            /\ acked' = [acked EXCEPT ![c.session] = None]
  BY DEF Begin
<1> DEFINE f == [frame[r] EXCEPT !.at = "look", !.mine = o]
<1>2. /\ At(r) = "arrived" /\ Kept(r) /\ heap[r] = None /\ ~Known(r) /\ frame[r] \in Frames
      /\ caller \in [Requests -> Callers \cup {None}]
      /\ heap \in [Requests -> Session \cup {None}] /\ disk \in [Sessions -> Session \cup {None}]
      /\ items \in [Workers -> [Sessions -> Requests \cup {None}]]
      /\ acked \in [Sessions -> Requests \cup {None}] /\ alone \subseteq Requests
      /\ c.session \in Sessions /\ c.worker \in Workers
  BY CallersAssumption DEF Begin, RecordedLast, IInv, ObjectsProper, TypeOK, Frames, Known
<1>3. f \in Frames /\ f.at = "look" /\ f.result = frame[r].result /\ Enter(r, f)
  BY <1>1, <1>2 DEF Frames, Places
<1> HIDE DEF f
<1>4. /\ frame'[r] = f /\ frame'[r].result # "ok"
      /\ \A q \in Requests : q # r => frame'[q] = frame[q]
  BY <1>2, <1>3, Entering DEF IInv, Kept
<1>5. /\ \A q \in Requests : q # r => heap'[q] = heap[q] /\ caller'[q] = caller[q]
      /\ \A w \in Workers, s \in Sessions :
             items'[w][s] \in {None, items[w][s]} \/ s = c.session
      /\ \A s \in Sessions : disk'[s] \in {None, disk[s]}
      /\ caller'[r] = c
  BY <1>1, <1>2 DEF Recall, RecallHeld, RecallExpired, RecallStored, RecallOutdated, sessionVars
<1>6. \A q \in alone' : q # r => q \in alone /\ ~(InFlight(q) /\ SessionOf(q) = c.session)
  BY <1>1, <1>2
<1>7. ASSUME NEW q \in Requests PROVE Kept(q)'
  <2>1. CASE q = r
    BY <1>4, <2>1 DEF Kept
  <2>2. CASE q # r
    <3>1. frame'[q] = frame[q] /\ caller'[q] = caller[q] /\ Kept(q)
      BY <1>4, <1>5, <2>2 DEF RecordedLast
    <3> SUFFICES ASSUME frame[q].result = "ok", q \in alone',
                        At(q) \in {"note", "check", "store", "dump", "write"}
                 PROVE  /\ heap'[Mine(q)].base = q
                        /\ At(q) \in {"dump", "write"} =>
                               items'[Worker(q)][SessionOf(q)] \in {None, Mine(q)}
                        /\ q \in alone
      BY <3>1 DEF Kept, At, Mine, Worker, SessionOf
    <3>2. InFlight(q) /\ Known(q)
      BY DEF InFlight, Known
    <3>3. q \in alone /\ SessionOf(q) # c.session
      BY <1>6, <2>2, <3>2
    <3>4. Mine(q) # None /\ Mine(q) \in Requests /\ heap[Mine(q)] # None
      BY <3>1 DEF Kept, IInv, PlacesFit, Fits, MineProper, TypeOK, Mine
    <3>5. heap'[Mine(q)] = heap[Mine(q)]
      BY <1>2, <1>5, <3>4
    <3>6. Worker(q) \in Workers /\ SessionOf(q) \in Sessions
      BY <3>2, Whose
    <3> QED  BY <1>5, <3>1, <3>3, <3>5, <3>6 DEF Kept
  <2> QED  BY <2>1, <2>2
<1>8. ASSUME NEW s \in Sessions PROVE Last(s)'
  <2>1. CASE s = c.session
    BY <1>1, <1>2, <2>1 DEF Last
  <2>2. CASE s # c.session
    <3>1. acked'[s] = acked[s]
      BY <1>1, <1>2, <2>2
    <3> DEFINE t == acked[s]
               w == Worker(t)
               p == items[w][s]
    <3> SUFFICES ASSUME t # None
                 PROVE  /\ frame'[t].at # "arrived" /\ caller'[t].session = s
                        /\ \A q \in Requests : InFlight(q)' => caller'[q].session # s
                        /\ disk'[s] # None => disk'[s].base = t
                        /\ items'[caller'[t].worker][s] # None =>
                               heap'[items'[caller'[t].worker][s]].base = t
      BY <3>1 DEF Last, SessionOf, Worker, Known, At
    <3>2. /\ t \in Requests /\ Known(t) /\ SessionOf(t) = s
          /\ \A q \in Requests : InFlight(q) => SessionOf(q) # s
          /\ disk[s] # None => disk[s].base = t
          /\ p # None => heap[p].base = t
      BY <1>2 DEF RecordedLast, Last
    <3>3. w \in Workers /\ t # r
      BY <1>2, <3>2, Whose
    <3>4. p # None => p \in Requests /\ heap[p] # None
      BY <1>2, <3>3 DEF IInv, ItemsProper
    <3> HIDE DEF t, p
    <3>5. frame'[t].at # "arrived" /\ caller'[t] = caller[t]
      BY <1>4, <1>5, <3>2, <3>3 DEF Known, At
    <3>6. \A q \in Requests : InFlight(q)' => caller'[q].session # s
      BY <1>4, <1>5, <2>2, <3>2 DEF InFlight, At, SessionOf
    <3>7. caller'[t].worker = w
      BY <3>5 DEF Worker
    <3> HIDE DEF w
    <3>8. items'[w][s] \in {None, p}
      BY <1>5, <2>2, <3>3 DEF p
    <3>9. p # None => heap'[p] = heap[p]
      BY <1>2, <1>5, <3>4
    <3>10. disk'[s] \in {None, disk[s]}
      BY <1>5
    <3> QED  BY <3>2, <3>5, <3>6, <3>7, <3>8, <3>9, <3>10 DEF SessionOf
  <2> QED  BY <2>1, <2>2
<1> QED  BY <1>7, <1>8 DEF RecordedLast

LEMMA RestartKeeps ==
    ASSUME IInv, RecordedLast, NEW w \in Workers, Restart(w) PROVE RecordedLast'
<1> DEFINE its  == {r \in Requests : caller[r] # None /\ Worker(r) = w}
           lost == {r \in its : InFlight(r)}
<1>1. /\ items' = [items EXCEPT ![w] = [s \in Sessions |-> None]]
      /\ heap' = [r \in Requests |-> IF r \in its THEN None ELSE heap[r]]
      /\ frame' = [r \in Requests |-> IF r \in lost THEN Frame("over") ELSE frame[r]]
      /\ alone' = alone \ lost
      /\ UNCHANGED <<caller, disk, acked>>
  BY DEF Restart
<1>2. /\ heap \in [Requests -> Session \cup {None}]
      /\ items \in [Workers -> [Sessions -> Requests \cup {None}]]
      /\ acked \in [Sessions -> Requests \cup {None}]
  BY DEF IInv, TypeOK
<1>3. \A r \in Requests : /\ Known(r) => caller[r] \in Callers /\ caller[r] # None
                          /\ InFlight(r) => Known(r)
  BY NoneAssumption DEF IInv, CallersKnown, Known, InFlight
<1>4. \A r \in Requests :
          \/ frame'[r] = frame[r] /\ (InFlight(r) => Worker(r) # w)
          \/ frame'[r] = Frame("over")
  BY <1>1, <1>3
<1>5. \A r \in Requests : Known(r) /\ Worker(r) # w => heap'[r] = heap[r]
  BY <1>1, <1>2, <1>3
<1>6. \A v \in Workers, s \in Sessions :
          IF v = w THEN items'[v][s] = None ELSE items'[v][s] = items[v][s]
  BY <1>1, <1>2
<1>7. alone' \subseteq alone /\ caller' = caller /\ disk' = disk /\ acked' = acked
  BY <1>1
<1> HIDE DEF lost, its
<1>8. ASSUME NEW q \in Requests PROVE Kept(q)'
  <2>1. CASE frame'[q] = Frame("over")
    BY <2>1, OverTyped DEF Kept
  <2>2. CASE frame'[q] = frame[q] /\ (InFlight(q) => Worker(q) # w)
    <3>1. Kept(q)
      BY DEF RecordedLast
    <3> SUFFICES ASSUME frame[q].result = "ok", q \in alone,
                        At(q) \in {"note", "check", "store", "dump", "write"}
                 PROVE  /\ heap'[Mine(q)].base = q
                        /\ At(q) \in {"dump", "write"} =>
                               items'[Worker(q)][SessionOf(q)] \in {None, Mine(q)}
      BY <1>7, <2>2, <3>1 DEF Kept, At, Mine, Worker, SessionOf
    <3>2. InFlight(q) /\ Known(q) /\ Worker(q) # w
      BY <2>2 DEF InFlight, Known
    <3>3. Mine(q) # None /\ Mine(q) \in Requests /\ Known(Mine(q)) /\ Worker(Mine(q)) = Worker(q)
      BY <3>1 DEF Kept, IInv, PlacesFit, Fits, MineProper, ObjectsProper, TypeOK, Mine
    <3>4. heap'[Mine(q)] = heap[Mine(q)]
      BY <1>5, <3>2, <3>3
    <3>5. Worker(q) \in Workers /\ SessionOf(q) \in Sessions
      BY <3>2, Whose
    <3> QED  BY <1>6, <3>1, <3>2, <3>4, <3>5 DEF Kept
  <2> QED  BY <1>4, <2>1, <2>2
<1>9. ASSUME NEW s \in Sessions PROVE Last(s)'
  <2> DEFINE v == Worker(acked[s])
             p == items[v][s]
  <2> SUFFICES ASSUME acked[s] # None
               PROVE  /\ Known(acked[s])' /\ SessionOf(acked[s]) = s
                      /\ \A q \in Requests : InFlight(q)' => SessionOf(q) # s
                      /\ disk[s] # None => disk[s].base = acked[s]
                      /\ items'[v][s] # None => heap'[items'[v][s]].base = acked[s]
    BY <1>7 DEF Last, SessionOf, Worker, Known, At
  <2>1. /\ acked[s] \in Requests /\ Known(acked[s]) /\ SessionOf(acked[s]) = s
        /\ \A q \in Requests : InFlight(q) => SessionOf(q) # s
        /\ disk[s] # None => disk[s].base = acked[s]
        /\ p # None => heap[p].base = acked[s]
    BY <1>2 DEF RecordedLast, Last
  <2>2. Known(acked[s])' /\ \A q \in Requests : InFlight(q)' => InFlight(q)
    BY <1>4, <1>7, <2>1, OverTyped DEF Known, InFlight, At
  <2>3. v \in Workers
    BY <2>1, Whose
  <2>4. p # None => p \in Requests /\ Worker(p) = v /\ Known(p)
    BY <1>2, <2>3 DEF IInv, ItemsProper, ObjectsProper
  <2> HIDE DEF v, p
  <2>5. items'[v][s] # None => v # w /\ items'[v][s] = p
    BY <1>6, <2>3 DEF p
  <2>6. items'[v][s] # None => heap'[items'[v][s]].base = acked[s]
    BY <1>5, <2>1, <2>4, <2>5
  <2> QED  BY <2>1, <2>2, <2>6
<1> QED  BY <1>8, <1>9 DEF RecordedLast

LEMMA LastStepping == ASSUME IInv, RecordedLast, [Next]_vars PROVE RecordedLast'
<1>1. ASSUME NEW r \in Requests, Step(r) PROVE RecordedLast'
  <2>1. CASE LookUp(r) \/ Consume(r) \/ Drop(r) \/ DropAny(r) \/ Forget(r)
    BY <2>1, FirstHalf
  <2>2. CASE Route(r) \/ Run(r) \/ Resolve(r) \/ Switch(r)
    BY <2>2, SecondHalf
  <2>3. CASE Begin(r)
    BY <2>3, BeginKeeps
  <2>4. CASE Ask(r)
    BY <2>4, AskKeeps
  <2>5. CASE Record(r)
    BY <2>5, RecordKeeps
  <2>6. CASE Note(r) \/ Check(r)
    BY <2>6, NoteKeeps
  <2>7. CASE Store(r)
    BY <2>7, StoreKeeps
  <2>8. CASE Dump(r)
    BY <2>8, DumpKeeps
  <2>9. CASE Write(r)
    BY <2>9, WriteKeeps
  <2> QED  BY <1>1, <2>1, <2>2, <2>3, <2>4, <2>5, <2>6, <2>7, <2>8, <2>9 DEF Step
<1>2. CASE UNCHANGED vars
  BY <1>2 DEF vars, requestVars, sessionVars, historyVars, RecordedLast, Kept, Last, Known,
              InFlight, At, Mine, Worker, SessionOf
<1> QED  BY <1>1, <1>2, RestartKeeps DEF Next

\* What a session has recorded last stays in the memory of its worker and on disk
\* until the next request of the session, an eviction or its expiry.
THEOREM LastInvariance == Spec => [](IInv /\ RecordedLast)
<1>1. Init => RecordedLast
  <2> SUFFICES ASSUME Init PROVE RecordedLast
    OBVIOUS
  <2>1. \A r \in Requests : frame[r].result = "none"
    BY DEF Init, Frame
  <2> QED  BY <2>1 DEF Init, RecordedLast, Kept, Last
<1>2. IInv /\ RecordedLast /\ [Next]_vars => RecordedLast'
  BY LastStepping
<1> QED  BY <1>1, <1>2, Invariance, PTL DEF Spec

LEMMA OneMoves ==
    ASSUME TypeOK, NEW q \in Requests, Step(q), NEW r \in Requests, r # q
    PROVE  frame'[r] = frame[r]
<1>1. ASSUME NEW f, Enter(q, f) PROVE frame'[r] = frame[r]
  BY <1>1 DEF Enter, TypeOK
<1>2. ASSUME NEW place, Go(q, place) PROVE frame'[r] = frame[r]
  BY <1>1, <1>2 DEF Go
<1>3. CASE Begin(q) \/ Route(q) \/ Dump(q)
  BY <1>1, <1>3 DEF Begin, Route, Dump
<1>4. CASE Run(q)
  BY <1>1, <1>2, <1>4 DEF Run
<1>5. CASE Record(q)
  BY <1>1, <1>2, <1>5 DEF Record
<1>6. CASE LookUp(q) \/ Consume(q) \/ Drop(q) \/ DropAny(q) \/ Forget(q) \/ Resolve(q)
  BY <1>2, <1>6 DEF LookUp, Consume, Drop, DropAny, Forget, Resolve
<1>7. CASE Ask(q) \/ Switch(q) \/ Note(q) \/ Check(q) \/ Store(q) \/ Write(q)
  BY <1>2, <1>7 DEF Ask, Switch, Note, Check, Store, Write
<1> QED  BY <1>3, <1>4, <1>5, <1>6, <1>7 DEF Step

\* The request after a recorded turn builds on its DSL, from the memory of the
\* worker or from the disk, also after a restart (SessionStore.get and update of
\* agent/memory.py), with any number of workers and sessions.
THEOREM LastTurnSeen == Spec => SeesLastTurn
<1>1. ASSUME IInv, RecordedLast, [Next]_vars, NEW r \in Requests,
             At(r) = "arrived", frame'[r].at = "look",
             acked[caller'[r].session] # None, frame'[r].mine # None,
             \/ items[caller'[r].worker][caller'[r].session] = None
             \/ Worker(acked[caller'[r].session]) = caller'[r].worker
      PROVE  heap'[frame'[r].mine].base = acked[caller'[r].session]
  <2>1. Begin(r)
    <3>1. ~UNCHANGED vars
      BY <1>1 DEF vars, requestVars, At
    <3>2. ASSUME NEW w \in Workers, Restart(w) PROVE FALSE
      <4>1. frame'[r] \in {frame[r], Frame("over")}
        BY <3>2 DEF Restart
      <4> QED  BY <1>1, <4>1, OverTyped DEF At
    <3>3. ASSUME NEW q \in Requests, Step(q), q # r PROVE FALSE
      <4>1. frame'[r] = frame[r]
        BY <1>1, <3>3, OneMoves DEF IInv
      <4> QED  BY <1>1, <4>1 DEF At
    <3>4. Step(r)
      BY <1>1, <3>1, <3>2, <3>3 DEF Next
    <3> QED  BY <1>1, <3>4 DEF Step, LookUp, Consume, Route, Drop, DropAny, Forget, Resolve,
                    Run, Ask, Switch, Record, Note, Check, Store, Dump, Write
  <2>2. PICK c \in Callers, o \in Requests \cup {None} :
          /\ caller' = [caller EXCEPT ![r] = c]
          /\ Recall(r, c, o)
          /\ Enter(r, [frame[r] EXCEPT !.at = "look", !.mine = o])
    BY <2>1 DEF Begin
  <2> DEFINE s == c.session
             w == c.worker
             t == acked[s]
             p == items[w][s]
  <2>3. /\ frame \in [Requests -> Frames] /\ caller \in [Requests -> Callers \cup {None}]
        /\ heap \in [Requests -> Session \cup {None}]
    BY <1>1 DEF IInv, TypeOK, Frames
  <2>8. s \in Sessions /\ w \in Workers
    BY CallersAssumption
  <2>4. caller'[r] = c /\ frame'[r].mine = o
    BY <2>2, <2>3 DEF Enter, Frames
  <2>5. /\ t # None /\ o # None /\ (p = None \/ Worker(t) = w)
        /\ disk[s] # None => disk[s].base = t
        /\ (Worker(t) = w /\ p # None => heap[p].base = t)
    BY <1>1, <2>4, <2>8 DEF RecordedLast, Last
  <2>6. CASE RecallHeld(r, c, o) \/ RecallExpired(r, c, o) \/ RecallOutdated(r, c, o)
    BY <2>4, <2>5, <2>6 DEF RecallHeld, RecallExpired, RecallOutdated, sessionVars
  <2>7. CASE RecallStored(r, c, o)
    <3>1. o = r /\ OwnerOf(disk[s]) = c.user /\ heap'[r] = disk[s]
      BY <2>3, <2>5, <2>7 DEF RecallStored
    <3>2. disk[s] # None
      BY <3>1, CallersAssumption, NoneAssumption DEF OwnerOf
    <3> QED  BY <2>4, <2>5, <3>1, <3>2
  <2> QED  BY <2>2, <2>6, <2>7 DEF Recall
<1>2. IInv /\ RecordedLast /\ [Next]_vars =>
      [\A r \in Requests :
          LET c == caller'[r]
              t == acked[c.session]
          IN  At(r) = "arrived" /\ frame'[r].at = "look" /\ t # None /\ frame'[r].mine # None
              /\ (items[c.worker][c.session] = None \/ Worker(t) = c.worker)
              => heap'[frame'[r].mine].base = t]_vars
  BY <1>1
<1> QED  BY <1>2, LastInvariance, PTL DEF Spec, SeesLastTurn
=============================================================================
