-------------------------- MODULE AgentStreamProofs --------------------------
(***************************************************************************)
(* Proofs about AgentStream: for any number of calls and users and any     *)
(* size of the event queue, a paused run is taken up at most once and by   *)
(* its own user, a token that a client was told works, and the frames of a *)
(* response are in the order of its run and end with its outcome.          *)
(***************************************************************************)
EXTENDS AgentStream, SequenceTheorems, TLAPS

\* A question is in the sequence of events s of call c, or is not.
Asks(s) == \E i \in DOMAIN s : s[i].kind = "question"
OwnQuestions(s, c) == \A i \in DOMAIN s : s[i].kind = "question" => s[i].tok = c

\* Call c has a question on its way to the client, or delivered.
Told(c) == event[c].kind = "question" \/ Asks(queue[c]) \/ Asks(received[c])

\* Past the point where a run that stops at a question has been registered.
PastRun(c) == worker[c] \in {"put", "over"}

\* A call asks only with its own token, and not before its run is over.
QuestionsOwn ==
    \A c \in Calls :
        /\ event[c].kind = "question" => event[c].tok = c
        /\ OwnQuestions(queue[c], c) /\ OwnQuestions(received[c], c)
        /\ Told(c) => PastRun(c)

\* A state that waits is its call's own and has not been taken up.
PausedFresh ==
    \A t \in Tokens : paused[t] # None =>
        PastRun(t) /\ paused[t] = user[t] /\ resumed[t] = {}

ResumedByOwner ==
    \A t \in Tokens : \A c \in resumed[t] :
        PastRun(t) /\ worker[c] # "idle" /\ user[c] = user[t]

ResumedOnce == \A t \in Tokens : \A c, d \in resumed[t] : c = d

\* A call that has not begun sends no token, one that is about to redeem has one.
RedeemsToken ==
    \A c \in Calls : /\ worker[c] = "idle" => token[c] = None
                     /\ worker[c] = "redeem" => token[c] \in Tokens

\* The token of a call that asks waits until some call sends it.
ToldWaits ==
    \A c \in Calls :
        Told(c) /\ (\A d \in Calls : token[d] # c) => paused[c] = user[c]

UsersKnown == \A c \in Calls : worker[c] # "idle" => user[c] \in Users

IInv == /\ TypeOK
        /\ UsersKnown
        /\ QuestionsOwn
        /\ PausedFresh
        /\ ResumedByOwner
        /\ ResumedOnce
        /\ RedeemsToken
        /\ ToldWaits

-----------------------------------------------------------------------------
(* Lemmas about sequences of events and the steps' parts *)

Kinds == {"progress", "done", "error", "question", "end"}

LEMMA AppendAsks ==
    ASSUME NEW s \in Seq(Event), NEW e \in Event
    PROVE  /\ Append(s, e) \in Seq(Event)
           /\ Len(Append(s, e)) = Len(s) + 1
           /\ Asks(Append(s, e)) => Asks(s) \/ e.kind = "question"
           /\ \A c : OwnQuestions(s, c) /\ (e.kind = "question" => e.tok = c)
                     => OwnQuestions(Append(s, e), c)
<1>1. /\ Append(s, e) \in Seq(Event)
      /\ Len(Append(s, e)) = Len(s) + 1
      /\ \A i \in 1..Len(s) : Append(s, e)[i] = s[i]
      /\ Append(s, e)[Len(s) + 1] = e
  BY AppendProperties
<1>2. DOMAIN s = 1..Len(s) /\ Len(s) \in Nat
  BY LenProperties
<1>3. DOMAIN Append(s, e) = 1..(Len(s) + 1)
  BY <1>1, LenProperties
<1>4. \A i \in DOMAIN Append(s, e) : i \in DOMAIN s \/ i = Len(s) + 1
  BY <1>2, <1>3
<1> QED  BY <1>1, <1>2, <1>4 DEF Asks, OwnQuestions

LEMMA TailAsks ==
    ASSUME NEW s \in Seq(Event), s # <<>>
    PROVE  /\ Tail(s) \in Seq(Event)
           /\ Len(Tail(s)) = Len(s) - 1
           /\ Len(s) \in Nat \ {0}
           /\ Head(s) \in Event
           /\ Asks(Tail(s)) => Asks(s)
           /\ Head(s).kind = "question" => Asks(s)
           /\ \A c : OwnQuestions(s, c) =>
                  /\ OwnQuestions(Tail(s), c)
                  /\ Head(s).kind = "question" => Head(s).tok = c
<1>1. /\ Head(s) \in Event
      /\ Tail(s) \in Seq(Event)
      /\ Len(Tail(s)) = Len(s) - 1
      /\ \A i \in 1..Len(Tail(s)) : Tail(s)[i] = s[i + 1]
  BY HeadTailProperties
<1>2. Len(s) \in Nat /\ DOMAIN s = 1..Len(s) /\ s \in [1..Len(s) -> Event]
  BY LenProperties
<1>3. Len(s) # 0
  BY EmptySeq
<1>4. Head(s) = s[1] /\ 1 \in DOMAIN s
  BY <1>2, <1>3
<1>5. DOMAIN Tail(s) = 1..Len(Tail(s))
  BY <1>1, LenProperties
<1>6. \A i \in DOMAIN Tail(s) : i + 1 \in DOMAIN s /\ Tail(s)[i] = s[i + 1]
  BY <1>1, <1>2, <1>5
<1>7. Asks(Tail(s)) => Asks(s)
  BY <1>6 DEF Asks
<1>8. Head(s).kind = "question" => Asks(s)
  BY <1>4 DEF Asks
<1>9. \A c : OwnQuestions(s, c) =>
          /\ OwnQuestions(Tail(s), c)
          /\ Head(s).kind = "question" => Head(s).tok = c
  BY <1>4, <1>6 DEF OwnQuestions
<1> QED  BY <1>1, <1>2, <1>3, <1>7, <1>8, <1>9

LEMMA IssueTypes ==
    ASSUME TypeOK, NEW c \in Calls, NEW place \in Places, NEW kind \in Kinds,
           NEW tok \in Tokens \cup {None}, Issue(c, place, kind, tok)
    PROVE  /\ event' \in [Calls -> Event]
           /\ emitted' \in [Calls -> Nat]
           /\ worker' \in [Calls -> Places]
           /\ event'[c].kind = kind /\ event'[c].tok = tok
           /\ \A d \in Calls \ {c} : event'[d] = event[d] /\ worker'[d] = worker[d]
           /\ worker'[c] = place
<1>1. emitted[c] \in Nat
  BY DEF TypeOK
<1>2. [kind |-> kind, n |-> emitted[c], tok |-> tok] \in Event
  BY <1>1 DEF Event, Kinds
<1> QED  BY <1>1, <1>2 DEF Issue, Go, TypeOK

\* The calls stay as they are, and so do the pauses, but for states that are
\* discarded because a call has sent their token.
OnlySpent ==
    /\ UNCHANGED <<callVars, resumed>>
    /\ paused' \in [Tokens -> Users \cup {None}]
    /\ \A t \in Tokens : \/ paused'[t] = paused[t]
                         \/ paused'[t] = None /\ \E d \in Calls : token[d] = t

\* A step that leaves the calls alone, takes up no run and asks no new question.
LEMMA PausesKept ==
    ASSUME IInv, OnlySpent,
           \A c \in Calls : /\ Told(c)' => Told(c)
                            /\ PastRun(c) => PastRun(c)'
                            /\ worker[c] # "idle" => worker'[c] # "idle"
    PROVE  PausedFresh' /\ ResumedByOwner' /\ ResumedOnce' /\ ToldWaits'
<1> USE DEF IInv, callVars, OnlySpent, Tokens
<1>1. PausedFresh'
  BY DEF PausedFresh
<1>2. ResumedByOwner'
  BY DEF ResumedByOwner, TypeOK
<1>3. ResumedOnce'
  BY DEF ResumedOnce
<1>4. ToldWaits'
  BY DEF ToldWaits
<1> QED  BY <1>1, <1>2, <1>3, <1>4

\* A step with an event of call c that is no question.
LEMMA IssueInv ==
    ASSUME IInv, NEW c \in Calls, worker[c] # "idle",
           NEW place \in Places \ {"idle", "redeem"},
           NEW kind \in Kinds \ {"question"}, Issue(c, place, kind, None),
           PastRun(c) => place \in {"put", "over"},
           OnlySpent, UNCHANGED received,
           queue' \in [Calls -> Seq(Event)],
           \A d \in Calls : /\ Len(queue'[d]) <= QueueSize
                            /\ OwnQuestions(queue'[d], d)
                            /\ Asks(queue'[d]) => Told(d),
           writer' \in [Calls -> {"off", "open", "ended", "gone"}]
    PROVE  IInv'
<1> USE DEF IInv
<1>1. /\ event' \in [Calls -> Event] /\ emitted' \in [Calls -> Nat]
      /\ worker' \in [Calls -> Places]
      /\ event'[c].kind = kind /\ worker'[c] = place
      /\ \A d \in Calls \ {c} : event'[d] = event[d] /\ worker'[d] = worker[d]
  BY IssueTypes
<1>2. TypeOK'
  BY <1>1 DEF TypeOK, OnlySpent, callVars
<1>3. \A d \in Calls : /\ Told(d)' => Told(d)
                       /\ PastRun(d) => PastRun(d)'
                       /\ worker[d] # "idle" => worker'[d] # "idle"
  BY <1>1 DEF Told, PastRun
<1>4. QuestionsOwn'
  <2> SUFFICES ASSUME NEW d \in Calls
               PROVE  /\ event'[d].kind = "question" => event'[d].tok = d
                      /\ OwnQuestions(queue'[d], d) /\ OwnQuestions(received'[d], d)
                      /\ Told(d)' => PastRun(d)'
    BY DEF QuestionsOwn
  <2>1. event'[d].kind = "question" => event'[d].tok = d
    BY <1>1 DEF QuestionsOwn
  <2>2. OwnQuestions(received'[d], d)
    BY DEF QuestionsOwn
  <2>3. Told(d)' => PastRun(d)'
    BY <1>3 DEF QuestionsOwn
  <2> QED  BY <2>1, <2>2, <2>3
<1>5. RedeemsToken'
  BY <1>1 DEF RedeemsToken, OnlySpent, callVars
<1>6. UsersKnown'
  BY <1>1 DEF UsersKnown, OnlySpent, callVars
<1> QED  BY <1>2, <1>3, <1>4, <1>5, <1>6, PausesKept

\* A worker that goes on without an event.
LEMMA GoInv ==
    ASSUME IInv, NEW c \in Calls, worker[c] # "idle",
           NEW place \in Places \ {"idle", "redeem"}, Go(c, place),
           PastRun(c) => place \in {"put", "over"},
           OnlySpent, UNCHANGED <<event, emitted, received>>,
           queue' \in [Calls -> Seq(Event)],
           \A d \in Calls : /\ Len(queue'[d]) <= QueueSize
                            /\ OwnQuestions(queue'[d], d)
                            /\ Asks(queue'[d]) => Told(d),
           writer' \in [Calls -> {"off", "open", "ended", "gone"}]
    PROVE  IInv'
<1> USE DEF IInv
<1>1. /\ worker' \in [Calls -> Places]
      /\ worker'[c] = place
      /\ \A d \in Calls \ {c} : worker'[d] = worker[d]
  BY DEF Go, TypeOK
<1>2. TypeOK'
  BY <1>1 DEF TypeOK, OnlySpent, callVars
<1>3. \A d \in Calls : /\ Told(d)' => Told(d)
                       /\ PastRun(d) => PastRun(d)'
                       /\ worker[d] # "idle" => worker'[d] # "idle"
  BY <1>1 DEF Told, PastRun
<1>4. QuestionsOwn'
  BY <1>3 DEF QuestionsOwn
<1>5. RedeemsToken'
  BY <1>1 DEF RedeemsToken, OnlySpent, callVars
<1>6. UsersKnown'
  BY <1>1 DEF UsersKnown, OnlySpent, callVars
<1> QED  BY <1>2, <1>3, <1>4, <1>5, <1>6, PausesKept

\* An answer of a post that is no question.
LEMMA AnswerInv ==
    ASSUME IInv, NEW c \in Posts, worker[c] # "idle", NEW kind \in Kinds \ {"question"},
           Conclude(c, kind, None), OnlySpent, UNCHANGED queue
    PROVE  IInv'
<1> USE DEF IInv
<1> DEFINE e == [kind |-> kind, n |-> emitted[c], tok |-> None]
<1>1. /\ received' = [received EXCEPT ![c] = Append(@, e)]
      /\ writer' = [writer EXCEPT ![c] = "ended"]
      /\ worker' = [worker EXCEPT ![c] = "over"]
      /\ UNCHANGED <<emitted, event>>
  BY CallsAssumption DEF Conclude, Go
<1>2. c \in Calls /\ e \in Event /\ e.kind # "question"
  BY DEF Event, Kinds, TypeOK, Calls
<1>3. /\ Append(received[c], e) \in Seq(Event)
      /\ Asks(Append(received[c], e)) => Asks(received[c])
      /\ OwnQuestions(received[c], c) => OwnQuestions(Append(received[c], e), c)
  BY <1>2, AppendAsks DEF TypeOK
<1> HIDE DEF e
<1>4. TypeOK'
  BY <1>1, <1>2, <1>3 DEF TypeOK, OnlySpent, callVars, Places
<1>5. \A d \in Calls : Asks(received'[d]) => Asks(received[d])
  BY <1>1, <1>2, <1>3 DEF TypeOK
<1>6. \A d \in Calls : /\ Told(d)' => Told(d)
                       /\ PastRun(d) => PastRun(d)'
                       /\ worker[d] # "idle" => worker'[d] # "idle"
  BY <1>1, <1>5 DEF Told, PastRun, TypeOK
<1>7. \A d \in Calls : OwnQuestions(received'[d], d)
  BY <1>1, <1>2, <1>3 DEF TypeOK, QuestionsOwn
<1>8. QuestionsOwn'
  BY <1>1, <1>6, <1>7 DEF QuestionsOwn
<1>9. RedeemsToken'
  BY <1>1 DEF RedeemsToken, OnlySpent, callVars, TypeOK
<1>10. UsersKnown'
  BY <1>1, <1>2 DEF UsersKnown, OnlySpent, callVars, TypeOK
<1> QED  BY <1>4, <1>6, <1>8, <1>9, <1>10, PausesKept

\* What holds of the queues as they are.
LEMMA QueuesAsTheyAre ==
    ASSUME IInv
    PROVE  \A d \in Calls : /\ Len(queue[d]) <= QueueSize
                            /\ OwnQuestions(queue[d], d)
                            /\ Asks(queue[d]) => Told(d)
BY DEF IInv, TypeOK, QuestionsOwn, Told

\* The queue of c after an event of c is put behind what is left of it.
LEMMA PutBehind ==
    ASSUME IInv, NEW c \in Calls, NEW s \in Seq(Event), Len(s) < QueueSize,
           OwnQuestions(s, c), Asks(s) => Asks(queue[c]),
           queue' = [queue EXCEPT ![c] = Append(s, event[c])]
    PROVE  /\ queue' \in [Calls -> Seq(Event)]
           /\ \A d \in Calls : /\ Len(queue'[d]) <= QueueSize
                               /\ OwnQuestions(queue'[d], d)
                               /\ Asks(queue'[d]) => Told(d)
<1> USE DEF IInv
<1>1. event[c] \in Event
  BY DEF TypeOK
<1>2. /\ Append(s, event[c]) \in Seq(Event)
      /\ Len(Append(s, event[c])) = Len(s) + 1
      /\ Asks(Append(s, event[c])) => Asks(s) \/ event[c].kind = "question"
      /\ OwnQuestions(Append(s, event[c]), c)
  BY <1>1, AppendAsks DEF QuestionsOwn
<1>3. Len(s) \in Nat
  BY LenProperties
<1>4. Len(Append(s, event[c])) <= QueueSize
  BY <1>2, <1>3, BoundsAssumption
<1>5. Asks(Append(s, event[c])) => Told(c)
  BY <1>2 DEF Told
<1> QED  BY <1>2, <1>4, <1>5, QueuesAsTheyAre DEF TypeOK

-----------------------------------------------------------------------------
(* The steps of the worker *)

LEMMA OpenInv ==
    ASSUME IInv, NEW c \in Calls, Open(c) PROVE IInv'
<1> USE DEF IInv, Tokens
<1>1. PICK u \in Users, t \in Announced \cup {None} :
          /\ user' = [user EXCEPT ![c] = u]
          /\ token' = [token EXCEPT ![c] = t]
          /\ worker' = [worker EXCEPT ![c] = IF t = None THEN "run" ELSE "redeem"]
  BY DEF Open, Go
<1>2. /\ worker[c] = "idle"
      /\ writer' = [writer EXCEPT ![c] = "open"]
      /\ UNCHANGED <<emitted, event, queue, received, pauseVars>>
  BY DEF Open
<1>3. t \in Calls \cup {None}
  BY DEF Announced
<1>4. TypeOK'
  BY <1>1, <1>2, <1>3 DEF TypeOK, pauseVars, Places
<1>5. ~Told(c) /\ ~PastRun(c)
  BY <1>2 DEF QuestionsOwn, PastRun
<1>6. \A d \in Calls : /\ Told(d)' <=> Told(d)
                       /\ d # c => worker'[d] = worker[d] /\ user'[d] = user[d] /\ token'[d] = token[d]
  BY <1>1, <1>2 DEF Told, TypeOK
<1>7. QuestionsOwn'
  BY <1>2, <1>5, <1>6 DEF QuestionsOwn, PastRun
<1>8. PausedFresh'
  BY <1>2, <1>5, <1>6 DEF PausedFresh, PastRun, pauseVars
<1>9. ResumedByOwner'
  BY <1>2, <1>5, <1>6 DEF ResumedByOwner, PastRun, pauseVars, TypeOK
<1>10. ResumedOnce'
  BY <1>2 DEF ResumedOnce, pauseVars
<1>11. RedeemsToken'
  BY <1>1, <1>3, <1>6 DEF RedeemsToken, TypeOK
<1>12. ToldWaits'
  <2> SUFFICES ASSUME NEW a \in Calls, Told(a)', \A d \in Calls : token'[d] # a
               PROVE  paused'[a] = user'[a]
    BY DEF ToldWaits
  <2>1. Told(a) /\ a # c
    BY <1>5, <1>6
  <2>2. token[c] # a
    BY <1>2, CallsAssumption DEF RedeemsToken
  <2> QED  BY <1>2, <1>6, <2>1, <2>2 DEF ToldWaits, pauseVars
<1>13. UsersKnown'
  BY <1>1, <1>6 DEF UsersKnown, TypeOK
<1> QED  BY <1>4, <1>7, <1>8, <1>9, <1>10, <1>11, <1>12, <1>13

LEMMA RedeemInv ==
    ASSUME IInv, NEW c \in Calls, Redeem(c) PROVE IInv'
<1> USE DEF IInv, Tokens
<1> DEFINE t == token[c]
<1>1. t \in Calls /\ ~Told(c) /\ ~PastRun(c)
  BY DEF Redeem, RedeemsToken, QuestionsOwn, PastRun
<1>2. /\ paused' = [paused EXCEPT ![t] = None]
      /\ UNCHANGED <<callVars, queue>>
  BY DEF Redeem
<1>3. paused'[t] = None /\ \A a \in Calls \ {t} : paused'[a] = paused[a]
  BY <1>1, <1>2 DEF TypeOK
<1>4. CASE paused[t] = user[c]
  <2>1. /\ resumed' = [resumed EXCEPT ![t] = @ \cup {c}]
        /\ worker' = [worker EXCEPT ![c] = "run"]
        /\ UNCHANGED <<emitted, event, responseVars>>
    BY <1>4 DEF Redeem, Go
  <2>2. TypeOK'
    BY <1>1, <1>2, <2>1 DEF TypeOK, Places, callVars, responseVars
  <2>3. user[c] # None
    BY CallsAssumption DEF Redeem, UsersKnown
  <2>4. PastRun(t) /\ user[t] = user[c] /\ resumed[t] = {}
    BY <1>1, <1>4, <2>3 DEF PausedFresh
  <2>5. \A d \in Calls : /\ Told(d)' <=> Told(d)
                         /\ PastRun(d)' <=> PastRun(d)
                         /\ worker[d] # "idle" => worker'[d] # "idle"
    BY <1>1, <1>2, <2>1 DEF Told, PastRun, TypeOK, responseVars
  <2>6. QuestionsOwn'
    BY <1>2, <2>1, <2>5 DEF QuestionsOwn, responseVars
  <2>7. PausedFresh'
    BY <1>1, <1>2, <1>3, <2>1, <2>5 DEF PausedFresh, callVars, TypeOK
  <2>8. ResumedByOwner'
    BY <1>1, <1>2, <2>1, <2>4, <2>5 DEF ResumedByOwner, callVars, TypeOK
  <2>9. ResumedOnce'
    BY <1>1, <2>1, <2>4 DEF ResumedOnce, TypeOK
  <2>10. RedeemsToken'
    BY <1>2, <2>1 DEF RedeemsToken, callVars, TypeOK
  <2>11. ToldWaits'
    BY <1>2, <1>3, <2>5 DEF ToldWaits, callVars
  <2>12. UsersKnown'
    <3>1. worker[c] # "idle"
      BY DEF Redeem
    <3> QED  BY <1>2, <2>1, <3>1 DEF UsersKnown, callVars, TypeOK
  <2> QED  BY <2>2, <2>6, <2>7, <2>8, <2>9, <2>10, <2>11, <2>12
<1>5. CASE paused[t] # user[c]
  <2>1. OnlySpent /\ worker[c] # "idle" /\ Conclude(c, "error", None)
    BY <1>1, <1>2, <1>3, <1>5 DEF Redeem, OnlySpent, TypeOK
  <2>2. CASE c \in Posts
    BY <1>2, <2>1, <2>2, AnswerInv DEF Kinds
  <2>3. CASE c \in Streams
    <3>1. Issue(c, "put", "error", None) /\ UNCHANGED responseVars
      BY <2>1, <2>3, CallsAssumption DEF Conclude
    <3> QED
      BY <1>2, <2>1, <3>1, IssueInv, QueuesAsTheyAre DEF Kinds, Places, responseVars, TypeOK
  <2> QED  BY <2>2, <2>3 DEF Calls
<1> QED  BY <1>4, <1>5

\* A step that leaves the calls and the pauses alone.
LEMMA NoneSpent ==
    ASSUME IInv, UNCHANGED <<callVars, pauseVars>> PROVE OnlySpent
BY DEF IInv, TypeOK, OnlySpent, pauseVars

LEMMA ProgressInv ==
    ASSUME IInv, NEW c \in Calls, Progress(c) PROVE IInv'
<1>1. OnlySpent /\ worker[c] # "idle" /\ ~PastRun(c) /\ Issue(c, "emit", "progress", None)
      /\ UNCHANGED <<queue, responseVars>>
  BY NoneSpent DEF Progress, PastRun
<1> QED
  BY <1>1, IssueInv, QueuesAsTheyAre DEF Kinds, Places, responseVars, IInv, TypeOK

LEMMA FinishInv ==
    ASSUME IInv, NEW c \in Calls, Finish(c) PROVE IInv'
<1>1. OnlySpent /\ worker[c] # "idle" /\ ~PastRun(c) /\ UNCHANGED queue
  BY NoneSpent DEF Finish, PastRun
<1>2. CASE c \in Streams
  <2>1. PICK kind \in {"done", "error"} :
            Issue(c, "emit", kind, None) /\ UNCHANGED responseVars
    BY <1>2, CallsAssumption DEF Finish
  <2> QED  BY <1>1, <2>1, IssueInv, QueuesAsTheyAre
           DEF Kinds, Places, responseVars, IInv, TypeOK
<1>3. CASE c \in Posts /\ Conclude(c, "done", None)
  BY <1>1, <1>3, AnswerInv DEF Kinds
<1>4. CASE c \in Posts /\ Break(c)
  <2>1. Go(c, "over") /\ UNCHANGED <<event, emitted, received>>
    BY <1>4 DEF Break
  <2>2. writer' \in [Calls -> {"off", "open", "ended", "gone"}]
    BY <1>4 DEF Break, IInv, TypeOK
  <2> QED  BY <1>1, <2>1, <2>2, GoInv, QueuesAsTheyAre DEF Places, IInv, TypeOK
<1> QED  BY <1>2, <1>3, <1>4 DEF Finish

LEMMA SuspendInv ==
    ASSUME IInv, NEW c \in Calls, Suspend(c) PROVE IInv'
<1>1. OnlySpent /\ worker[c] # "idle" /\ ~PastRun(c) /\ Go(c, "register")
      /\ UNCHANGED <<event, emitted, queue, responseVars>>
  BY NoneSpent DEF Suspend, PastRun
<1> QED
  BY <1>1, GoInv, QueuesAsTheyAre DEF Places, responseVars, IInv, TypeOK

\* After an event the observer has put.
LEMMA AfterEmitInv ==
    ASSUME IInv, NEW c \in Calls, worker[c] \in {"emit", "full"}, AfterEmit(c),
           UNCHANGED <<callVars, responseVars, pauseVars>>,
           queue' \in [Calls -> Seq(Event)],
           \A d \in Calls : /\ Len(queue'[d]) <= QueueSize
                            /\ OwnQuestions(queue'[d], d)
                            /\ Asks(queue'[d]) => Told(d)
    PROVE  IInv'
<1>1. OnlySpent /\ worker[c] # "idle" /\ ~PastRun(c)
  BY NoneSpent DEF PastRun
<1>2. CASE Go(c, "run") /\ UNCHANGED <<event, emitted>>
  BY <1>1, <1>2, GoInv DEF Places, responseVars, IInv, TypeOK
<1>3. CASE Issue(c, "put", "end", None)
  BY <1>1, <1>3, IssueInv DEF Kinds, Places, responseVars, IInv, TypeOK
<1>4. CASE Issue(c, "put", "error", None)
  BY <1>1, <1>4, IssueInv DEF Kinds, Places, responseVars, IInv, TypeOK
<1> QED  BY <1>2, <1>3, <1>4 DEF AfterEmit

\* The queue of c with room for the event of c, as it is or without its head.
LEMMA RoomBehind ==
    ASSUME IInv, NEW c \in Calls,
           \/ Len(queue[c]) < QueueSize /\ queue' = [queue EXCEPT ![c] = Append(@, event[c])]
           \/ queue' = [queue EXCEPT ![c] = Append(IF @ = <<>> THEN @ ELSE Tail(@), event[c])]
    PROVE  /\ queue' \in [Calls -> Seq(Event)]
           /\ \A d \in Calls : /\ Len(queue'[d]) <= QueueSize
                               /\ OwnQuestions(queue'[d], d)
                               /\ Asks(queue'[d]) => Told(d)
<1> DEFINE q == queue[c]
<1>1. q \in Seq(Event) /\ Len(q) <= QueueSize /\ OwnQuestions(q, c)
  BY DEF IInv, TypeOK, QuestionsOwn
<1>2. CASE Len(q) < QueueSize /\ queue' = [queue EXCEPT ![c] = Append(q, event[c])]
  BY <1>1, <1>2, PutBehind
<1>3. CASE q = <<>> /\ queue' = [queue EXCEPT ![c] = Append(q, event[c])]
  <2>1. Len(q) < QueueSize
    BY <1>3, EmptySeq, BoundsAssumption
  <2> QED  BY <1>1, <1>3, <2>1, PutBehind
<1>4. CASE q # <<>> /\ queue' = [queue EXCEPT ![c] = Append(Tail(q), event[c])]
  <2>1. /\ Tail(q) \in Seq(Event) /\ Len(Tail(q)) = Len(q) - 1 /\ Len(q) \in Nat
        /\ OwnQuestions(Tail(q), c) /\ (Asks(Tail(q)) => Asks(q))
    BY <1>1, <1>4, TailAsks
  <2>2. Len(Tail(q)) < QueueSize
    BY <1>1, <2>1, BoundsAssumption
  <2> QED  BY <1>4, <2>1, <2>2, PutBehind
<1> QED  BY <1>2, <1>3, <1>4

LEMMA EmitInv ==
    ASSUME IInv, NEW c \in Calls, Emit(c) PROVE IInv'
<1>1. CASE Len(queue[c]) < QueueSize
  BY <1>1, RoomBehind, AfterEmitInv DEF Emit
<1>2. CASE ~(Len(queue[c]) < QueueSize)
  <2>1. OnlySpent /\ worker[c] # "idle" /\ ~PastRun(c) /\ Go(c, "full")
        /\ UNCHANGED <<event, emitted, queue, responseVars>>
    BY <1>2, NoneSpent DEF Emit, PastRun
  <2> QED
    BY <2>1, GoInv, QueuesAsTheyAre DEF Places, responseVars, IInv, TypeOK
<1> QED  BY <1>1, <1>2

LEMMA DropOldestInv ==
    ASSUME IInv, NEW c \in Calls, DropOldest(c) PROVE IInv'
BY RoomBehind, AfterEmitInv DEF DropOldest

LEMMA PutInv ==
    ASSUME IInv, NEW c \in Calls, Put(c) PROVE IInv'
<1>1. OnlySpent /\ worker[c] # "idle" /\ UNCHANGED responseVars
  BY NoneSpent DEF Put
<1>2. /\ queue' \in [Calls -> Seq(Event)]
      /\ \A d \in Calls : /\ Len(queue'[d]) <= QueueSize
                          /\ OwnQuestions(queue'[d], d)
                          /\ Asks(queue'[d]) => Told(d)
  BY RoomBehind DEF Put
<1>3. CASE Go(c, "over") /\ UNCHANGED <<event, emitted>>
  BY <1>1, <1>2, <1>3, GoInv DEF Places, responseVars, IInv, TypeOK
<1>4. CASE Issue(c, "put", "end", None)
  BY <1>1, <1>2, <1>4, IssueInv DEF Kinds, Places, responseVars, IInv, TypeOK
<1> QED  BY <1>3, <1>4 DEF Put

\* The state is registered, and the question put into the queue or answered.
LEMMA RegisterInv ==
    ASSUME IInv, NEW c \in Calls, Register(c) PROVE IInv'
<1> USE DEF IInv, Tokens
<1>1. /\ worker[c] = "register"
      /\ paused' = [paused EXCEPT ![c] = user[c]]
      /\ UNCHANGED <<callVars, queue, resumed>>
  BY DEF Register
<1>2. ~PastRun(c) /\ ~Told(c) /\ resumed[c] = {} /\ user[c] \in Users
  BY <1>1 DEF PastRun, QuestionsOwn, ResumedByOwner, UsersKnown, TypeOK
<1>3. /\ worker' \in [Calls -> Places] /\ PastRun(c)'
      /\ \A d \in Calls \ {c} : worker'[d] = worker[d]
      /\ event' \in [Calls -> Event] /\ emitted' \in [Calls -> Nat]
      /\ received' \in [Calls -> Seq(Event)]
      /\ writer' \in [Calls -> {"off", "open", "ended", "gone"}]
      /\ \A d \in Calls \ {c} : event'[d] = event[d] /\ received'[d] = received[d]
      /\ event'[c].kind = "question" => event'[c].tok = c
      /\ OwnQuestions(received'[c], c)
  <2>1. CASE c \in Streams
    <3>1. Issue(c, "put", "question", c) /\ UNCHANGED responseVars
      BY <2>1, CallsAssumption DEF Register, Conclude
    <3> QED
      BY <3>1, IssueTypes DEF Kinds, Places, PastRun, responseVars, TypeOK, QuestionsOwn
  <2>2. CASE c \in Posts
    <3> DEFINE e == [kind |-> "question", n |-> emitted[c], tok |-> c]
    <3>1. /\ received' = [received EXCEPT ![c] = Append(@, e)]
          /\ writer' = [writer EXCEPT ![c] = "ended"]
          /\ worker' = [worker EXCEPT ![c] = "over"]
          /\ UNCHANGED <<emitted, event>>
      BY <2>2, CallsAssumption DEF Register, Conclude, Go
    <3>2. e \in Event /\ e.tok = c
      BY DEF Event, TypeOK
    <3>3. /\ Append(received[c], e) \in Seq(Event)
          /\ OwnQuestions(Append(received[c], e), c)
      BY <3>2, AppendAsks DEF TypeOK, QuestionsOwn
    <3> HIDE DEF e
    <3> QED  BY <1>2, <3>1, <3>3 DEF Places, PastRun, TypeOK, QuestionsOwn, Told
  <2> QED  BY <2>1, <2>2 DEF Calls
<1>4. TypeOK'
  BY <1>1, <1>2, <1>3 DEF TypeOK, callVars
<1>5. \A d \in Calls \ {c} : /\ Told(d)' <=> Told(d)
                             /\ PastRun(d)' <=> PastRun(d)
                             /\ paused'[d] = paused[d]
  BY <1>1, <1>3 DEF Told, PastRun, TypeOK
<1>6. paused'[c] = user[c]
  BY <1>1 DEF TypeOK
<1>7. QuestionsOwn'
  BY <1>1, <1>3, <1>5 DEF QuestionsOwn
<1>8. PausedFresh'
  BY <1>1, <1>2, <1>3, <1>5, <1>6 DEF PausedFresh, callVars
<1>9. ResumedByOwner'
  <2>1. \A d \in Calls : worker[d] # "idle" => worker'[d] # "idle"
    BY <1>1, <1>3 DEF PastRun
  <2>2. \A t \in Tokens : resumed[t] \subseteq Calls
    BY DEF TypeOK
  <2> QED  BY <1>1, <1>2, <1>5, <2>1, <2>2 DEF ResumedByOwner, callVars
<1>10. ResumedOnce'
  BY <1>1 DEF ResumedOnce
<1>11. RedeemsToken'
  BY <1>1, <1>3 DEF RedeemsToken, callVars, PastRun
<1>12. UsersKnown'
  BY <1>1, <1>3 DEF UsersKnown, callVars
<1>13. ToldWaits'
  BY <1>1, <1>5, <1>6 DEF ToldWaits, callVars
<1> QED  BY <1>4, <1>7, <1>8, <1>9, <1>10, <1>11, <1>12, <1>13

-----------------------------------------------------------------------------
(* The steps of the writer *)

\* The writer takes an event from the queue of c and may pass it on.
LEMMA WriterInv ==
    ASSUME IInv, NEW c \in Calls, UNCHANGED <<callVars, runVars, pauseVars>>,
           writer' \in [Calls -> {"off", "open", "ended", "gone"}],
           \/ UNCHANGED <<queue, received>>
           \/ queue[c] # <<>> /\ Take(c) /\ UNCHANGED received
           \/ /\ queue[c] # <<>> /\ Take(c)
              /\ received' = [received EXCEPT ![c] = Append(@, Head(queue[c]))]
    PROVE  IInv'
<1> USE DEF IInv
<1>1. OnlySpent
  BY NoneSpent
<1>2. /\ queue' \in [Calls -> Seq(Event)] /\ received' \in [Calls -> Seq(Event)]
      /\ \A d \in Calls :
            /\ Len(queue'[d]) <= QueueSize
            /\ OwnQuestions(queue'[d], d) /\ OwnQuestions(received'[d], d)
            /\ Asks(queue'[d]) \/ Asks(received'[d]) => Asks(queue[d]) \/ Asks(received[d])
  <2>1. CASE UNCHANGED <<queue, received>>
    BY <2>1 DEF TypeOK, QuestionsOwn
  <2> DEFINE q == queue[c]
             h == Head(q)
  <2>2. CASE q # <<>> /\ Take(c)
    <3>1. /\ q \in Seq(Event) /\ received[c] \in Seq(Event) /\ Len(q) <= QueueSize
          /\ OwnQuestions(q, c) /\ OwnQuestions(received[c], c)
      BY DEF TypeOK, QuestionsOwn
    <3>2. /\ Tail(q) \in Seq(Event) /\ Len(Tail(q)) = Len(q) - 1
          /\ Len(q) \in Nat \ {0} /\ h \in Event
          /\ Asks(Tail(q)) => Asks(q)
          /\ h.kind = "question" => Asks(q)
          /\ OwnQuestions(Tail(q), c)
          /\ h.kind = "question" => h.tok = c
      BY <2>2, <3>1, TailAsks
    <3>3. /\ Append(received[c], h) \in Seq(Event)
          /\ Asks(Append(received[c], h)) => Asks(received[c]) \/ h.kind = "question"
          /\ OwnQuestions(Append(received[c], h), c)
      BY <3>1, <3>2, AppendAsks
    <3>4. Len(Tail(q)) <= QueueSize
      BY <3>1, <3>2, BoundsAssumption
    <3>5. queue' = [queue EXCEPT ![c] = Tail(q)]
      BY <2>2 DEF Take
    <3>6. /\ queue' \in [Calls -> Seq(Event)]
          /\ \A d \in Calls : /\ Len(queue'[d]) <= QueueSize
                              /\ OwnQuestions(queue'[d], d)
                              /\ Asks(queue'[d]) => Asks(queue[d])
      BY <3>2, <3>4, <3>5 DEF TypeOK, QuestionsOwn
    <3>7. CASE UNCHANGED received
      BY <3>6, <3>7 DEF TypeOK, QuestionsOwn
    <3>8. CASE received' = [received EXCEPT ![c] = Append(received[c], h)]
      <4> HIDE DEF q, h
      <4>1. received' \in [Calls -> Seq(Event)]
        BY <3>3, <3>8 DEF TypeOK
      <4>2. \A d \in Calls \ {c} : received'[d] = received[d]
        BY <3>8 DEF TypeOK
      <4>3. received'[c] = Append(received[c], h)
        BY <3>8 DEF TypeOK
      <4>4. h.kind = "question" => Asks(queue[c])
        BY <3>2 DEF q
      <4> QED  BY <3>3, <3>6, <4>1, <4>2, <4>3, <4>4 DEF QuestionsOwn
    <3> QED  BY <3>7, <3>8
  <2> QED  BY <2>1, <2>2
<1>3. TypeOK'
  BY <1>2 DEF TypeOK, callVars, runVars, pauseVars
<1>4. \A d \in Calls : /\ Told(d)' => Told(d)
                       /\ PastRun(d) <=> PastRun(d)'
                       /\ worker[d] # "idle" => worker'[d] # "idle"
  BY <1>2 DEF Told, PastRun, runVars
<1>5. QuestionsOwn'
  BY <1>2, <1>4 DEF QuestionsOwn, runVars
<1>6. RedeemsToken' /\ UsersKnown'
  BY DEF RedeemsToken, UsersKnown, callVars, runVars
<1> QED  BY <1>1, <1>3, <1>4, <1>5, <1>6, PausesKept

LEMMA ResponseInv ==
    ASSUME IInv, NEW c \in Calls, Write(c) \/ Disconnected(c) \/ Idle(c) PROVE IInv'
<1>1. writer \in [Calls -> {"off", "open", "ended", "gone"}]
  BY DEF IInv, TypeOK
<1>2. CASE Write(c)
  BY <1>1, <1>2, WriterInv DEF Write
<1>3. CASE Disconnected(c)
  BY <1>1, <1>3, WriterInv DEF Disconnected
<1>4. CASE Idle(c)
  BY <1>1, <1>4, WriterInv DEF Idle
<1> QED  BY <1>2, <1>3, <1>4

-----------------------------------------------------------------------------

LEMMA InitInv == Init => IInv
<1> SUFFICES ASSUME Init PROVE IInv
  OBVIOUS
<1> USE DEF Init
<1>1. /\ <<>> \in Seq(Event) /\ Len(<<>>) = 0
      /\ ~Asks(<<>>) /\ \A c : OwnQuestions(<<>>, c)
  BY EmptySeq DEF Asks, OwnQuestions
<1>2. TypeOK
  BY <1>1, BoundsAssumption DEF TypeOK, Event, Places
<1>3. QuestionsOwn
  BY <1>1 DEF QuestionsOwn, Told
<1>4. PausedFresh /\ ResumedByOwner /\ ResumedOnce
  BY DEF PausedFresh, ResumedByOwner, ResumedOnce
<1>5. RedeemsToken /\ UsersKnown
  BY DEF RedeemsToken, UsersKnown
<1>6. ToldWaits
  BY <1>1 DEF ToldWaits, Told
<1> QED  BY <1>2, <1>3, <1>4, <1>5, <1>6 DEF IInv

LEMMA NextInv == IInv /\ [Next]_vars => IInv'
<1> SUFFICES ASSUME IInv, [Next]_vars PROVE IInv'
  OBVIOUS
<1>1. ASSUME NEW c \in Calls, Work(c) PROVE IInv'
  BY <1>1, RedeemInv, ProgressInv, FinishInv, SuspendInv, RegisterInv, EmitInv,
     DropOldestInv, PutInv DEF Work
<1>2. ASSUME NEW c \in Calls, Open(c) PROVE IInv'
  BY <1>2, OpenInv
<1>3. ASSUME NEW c \in Calls, Write(c) \/ Disconnected(c) \/ Idle(c) PROVE IInv'
  BY <1>3, ResponseInv
<1>4. CASE UNCHANGED vars
  <2> USE <1>4 DEF vars, callVars, runVars, responseVars, pauseVars
  <2>1. TypeOK' /\ RedeemsToken' /\ UsersKnown'
    BY DEF IInv, TypeOK, RedeemsToken, UsersKnown
  <2>2. QuestionsOwn' /\ ToldWaits'
    BY DEF IInv, QuestionsOwn, ToldWaits, Told, PastRun
  <2>3. PausedFresh' /\ ResumedByOwner' /\ ResumedOnce'
    BY DEF IInv, PausedFresh, ResumedByOwner, ResumedOnce, PastRun
  <2> QED  BY <2>1, <2>2, <2>3 DEF IInv
<1> QED  BY <1>1, <1>2, <1>3, <1>4 DEF Next

\* The strengthened invariant of the calls and their pauses.
THEOREM Invariance == Spec => []IInv
BY InitInv, NextInv, PTL DEF Spec

\* Every variable has its type, and no queue exceeds its size.
THEOREM TypeCorrect == Spec => []TypeOK
BY Invariance, PTL DEF IInv

\* However many calls send the token of a paused run, one at most takes it up,
\* and it is made by the user whose run it is.
THEOREM OneResumption == Spec => []TakenUpOnce
<1>1. IInv => TakenUpOnce
  BY DEF IInv, TakenUpOnce, ResumedOnce, ResumedByOwner
<1> QED  BY <1>1, Invariance, PTL

\* A token that a client was told works until a call sends it.
THEOREM TokensWork == Spec => []TokenWorks
<1>1. IInv => TokenWorks
  <2> SUFFICES ASSUME IInv, NEW t \in Announced, \A d \in Calls : token[d] # t
               PROVE  paused[t] = user[t]
    BY DEF TokenWorks
  <2>1. PICK c \in Calls : \E i \in DOMAIN received[c] :
            received[c][i].kind = "question" /\ received[c][i].tok = t
    BY DEF Announced
  <2>2. c = t /\ Told(c)
    BY <2>1 DEF IInv, QuestionsOwn, OwnQuestions, Told, Asks
  <2> QED  BY <2>2 DEF IInv, ToldWaits
<1> QED  BY <1>1, Invariance, PTL

-----------------------------------------------------------------------------
(* The outcome is delivered, in the order of the run *)

Outcomes == {"done", "error", "question"}
Ordered(s) == \A i, j \in DOMAIN s : i < j => s[i].n < s[j].n
Before(s, m) == \A i \in DOMAIN s : s[i].n < m
Concluded(s) == s # <<>> /\ s[Len(s)].kind \in Outcomes
NoEnd(s) == \A i \in DOMAIN s : s[i].kind # "end"

\* An event that its stream has still to put.
Pending(c) == worker[c] \in {"emit", "full", "put"}

\* What the client got, what is queued and what is to be put follow each other.
InOrder(c) ==
    /\ Ordered(received[c]) /\ Ordered(queue[c])
    /\ \A i \in DOMAIN queue[c] : Before(received[c], queue[c][i].n)
    /\ Before(received[c], emitted[c]) /\ Before(queue[c], emitted[c])
    /\ Pending(c) => /\ event[c].n < emitted[c]
                     /\ Before(received[c], event[c].n)
                     /\ Before(queue[c], event[c].n)

\* The end marker follows an outcome: the last event the client got, if nothing
\* before it is queued any more, or the one before it in the queue.
EndsWell(c) ==
    /\ worker[c] \in {"emit", "full"} => event[c].kind \in {"progress", "done", "error"}
    /\ worker[c] = "put" => event[c].kind \in {"error", "question", "end"}
    /\ worker[c] # "over" => NoEnd(queue[c])
    /\ \A i \in DOMAIN queue[c] : queue[c][i].kind = "end" =>
           /\ i = Len(queue[c])
           /\ IF i > 1 THEN queue[c][i - 1].kind \in Outcomes
                       ELSE writer[c] = "open" => Concluded(received[c])
    /\ worker[c] = "put" /\ event[c].kind = "end" =>
           Concluded(queue[c]) \/ (queue[c] = <<>> /\ (writer[c] = "open" => Concluded(received[c])))
    /\ writer[c] = "ended" => worker[c] = "over" /\ Concluded(received[c])

\* A post has nothing to put into its queue, and its only frame is its outcome,
\* if it comes to one.
PostAnswers(c) ==
    /\ queue[c] = <<>> /\ ~Pending(c)
    /\ \/ worker[c] = "over" /\ Len(received[c]) = 1 /\ Concluded(received[c])
       \/ received[c] = <<>> /\ writer[c] # "ended"

Delivers(c) ==
    /\ c \in Streams => InOrder(c) /\ EndsWell(c)
    /\ c \in Posts => PostAnswers(c)

DInv == IInv /\ \A c \in Calls : Delivers(c)

LEMMA AppendOrder ==
    ASSUME NEW s \in Seq(Event), NEW e \in Event
    PROVE  /\ DOMAIN Append(s, e) = 1..(Len(s) + 1) /\ Len(Append(s, e)) = Len(s) + 1
           /\ Len(s) \in Nat /\ DOMAIN s = 1..Len(s)
           /\ Append(s, e)[Len(s) + 1] = e
           /\ \A i \in 1..Len(s) : Append(s, e)[i] = s[i]
           /\ Ordered(s) /\ Before(s, e.n) => Ordered(Append(s, e))
           /\ \A m \in Nat : Before(s, m) /\ e.n < m => Before(Append(s, e), m)
           /\ e.kind \in Outcomes => Concluded(Append(s, e))
           /\ NoEnd(s) /\ e.kind # "end" => NoEnd(Append(s, e))
<1> DEFINE a == Append(s, e)
<1>1. /\ a \in Seq(Event) /\ Len(a) = Len(s) + 1 /\ a # <<>>
      /\ \A i \in 1..Len(s) : a[i] = s[i]
      /\ a[Len(s) + 1] = e
  BY AppendProperties
<1>2. Len(s) \in Nat /\ DOMAIN s = 1..Len(s) /\ DOMAIN a = 1..(Len(s) + 1)
  BY <1>1, LenProperties
<1> HIDE DEF a
<1>3. \A i \in DOMAIN a : i = Len(s) + 1 \/ i \in DOMAIN s
  BY <1>2
<1>4. Ordered(s) /\ Before(s, e.n) => Ordered(a)
  BY <1>1, <1>2, <1>3 DEF Ordered, Before
<1>5. \A m \in Nat : Before(s, m) /\ e.n < m => Before(a, m)
  BY <1>1, <1>2, <1>3 DEF Before
<1>6. e.kind \in Outcomes => Concluded(a)
  BY <1>1 DEF Concluded
<1>7. NoEnd(s) /\ e.kind # "end" => NoEnd(a)
  BY <1>1, <1>2, <1>3 DEF NoEnd
<1> QED  BY <1>1, <1>2, <1>4, <1>5, <1>6, <1>7 DEF a

LEMMA TailOrder ==
    ASSUME NEW s \in Seq(Event), s # <<>>
    PROVE  /\ Tail(s) \in Seq(Event) /\ Len(Tail(s)) = Len(s) - 1
           /\ Len(s) \in Nat \ {0} /\ DOMAIN s = 1..Len(s)
           /\ Head(s) = s[1] /\ Head(s) \in Event
           /\ DOMAIN Tail(s) = 1..(Len(s) - 1)
           /\ \A i \in 1..(Len(s) - 1) : i + 1 \in 1..Len(s) /\ Tail(s)[i] = s[i + 1]
           /\ Ordered(s) => /\ Ordered(Tail(s))
                            /\ \A i \in DOMAIN Tail(s) : Head(s).n < Tail(s)[i].n
           /\ \A m \in Nat : Before(s, m) => Before(Tail(s), m)
           /\ NoEnd(s) => NoEnd(Tail(s))
<1> DEFINE t == Tail(s)
<1>1. /\ t \in Seq(Event) /\ Len(t) = Len(s) - 1 /\ Head(s) \in Event
      /\ \A i \in 1..Len(t) : t[i] = s[i + 1]
  BY HeadTailProperties
<1>2. Len(s) \in Nat \ {0} /\ DOMAIN s = 1..Len(s) /\ Head(s) = s[1]
  BY LenProperties, EmptySeq
<1>3. DOMAIN t = 1..(Len(s) - 1)
  BY <1>1, LenProperties
<1> HIDE DEF t
<1>4. \A i \in 1..(Len(s) - 1) : i + 1 \in 1..Len(s) /\ t[i] = s[i + 1]
  BY <1>1, <1>2
<1>5. ASSUME Ordered(s) PROVE Ordered(t) /\ \A i \in DOMAIN t : Head(s).n < t[i].n
  <2>1. ASSUME NEW i \in DOMAIN t, NEW j \in DOMAIN t, i < j PROVE t[i].n < t[j].n
    <3>1. i + 1 \in DOMAIN s /\ j + 1 \in DOMAIN s /\ i + 1 < j + 1
      BY <1>2, <1>3, <2>1
    <3> QED  BY <1>3, <1>4, <1>5, <3>1 DEF Ordered
  <2>2. ASSUME NEW i \in DOMAIN t PROVE s[1].n < t[i].n
    <3>1. 1 \in DOMAIN s /\ i + 1 \in DOMAIN s /\ 1 < i + 1
      BY <1>2, <1>3
    <3> QED  BY <1>3, <1>4, <1>5, <3>1 DEF Ordered
  <2> QED  BY <1>2, <2>1, <2>2 DEF Ordered
<1>6. \A m \in Nat : Before(s, m) => Before(t, m)
  BY <1>2, <1>3, <1>4 DEF Before
<1>7. NoEnd(s) => NoEnd(t)
  BY <1>2, <1>3, <1>4 DEF NoEnd
<1> QED  BY <1>1, <1>2, <1>3, <1>4, <1>5, <1>6, <1>7 DEF t

\* A step of one call leaves the others as they are.
LEMMA OneDelivers ==
    ASSUME DInv, NEW c \in Calls, Delivers(c)',
           \A d \in Calls \ {c} :
               /\ worker'[d] = worker[d] /\ event'[d] = event[d] /\ emitted'[d] = emitted[d]
               /\ queue'[d] = queue[d] /\ writer'[d] = writer[d] /\ received'[d] = received[d]
    PROVE  \A d \in Calls : Delivers(d)'
BY DEF DInv, Delivers, InOrder, EndsWell, PostAnswers, Pending

LEMMA TypesOf ==
    ASSUME DInv, NEW c \in Calls
    PROVE  /\ event[c] \in Event /\ event[c].n \in Nat /\ emitted[c] \in Nat
           /\ queue[c] \in Seq(Event) /\ received[c] \in Seq(Event)
           /\ Len(queue[c]) \in Nat /\ Len(received[c]) \in Nat
           /\ DOMAIN queue[c] = 1..Len(queue[c])
           /\ DOMAIN received[c] = 1..Len(received[c])
           /\ \A i \in DOMAIN queue[c] : queue[c][i] \in Event /\ queue[c][i].n \in Nat
           /\ \A i \in DOMAIN received[c] : received[c][i].n \in Nat
<1>1. /\ event[c] \in Event /\ emitted[c] \in Nat
      /\ queue[c] \in Seq(Event) /\ received[c] \in Seq(Event)
  BY DEF DInv, IInv, TypeOK
<1>2. \A e \in Event : e.n \in Nat
  BY DEF Event
<1>3. /\ Len(queue[c]) \in Nat /\ DOMAIN queue[c] = 1..Len(queue[c])
      /\ Len(received[c]) \in Nat /\ DOMAIN received[c] = 1..Len(received[c])
  BY <1>1, LenProperties
<1>4. /\ \A i \in DOMAIN queue[c] : queue[c][i] \in Event
      /\ \A i \in DOMAIN received[c] : received[c][i] \in Event
  BY <1>1
<1> QED  BY <1>1, <1>2, <1>3, <1>4

\* What follows the events before m comes after those before a later m.
LEMMA BeforeLater ==
    ASSUME DInv, NEW c \in Calls, NEW m \in Nat, NEW k \in Nat, m <= k
    PROVE  /\ Before(received[c], m) => Before(received[c], k)
           /\ Before(queue[c], m) => Before(queue[c], k)
<1>1. /\ \A i \in DOMAIN queue[c] : queue[c][i].n \in Nat
      /\ \A i \in DOMAIN received[c] : received[c][i].n \in Nat
  BY TypesOf
<1> QED  BY <1>1 DEF Before

\* A stream's worker goes to its next event.
LEMMA IssueDelivers ==
    ASSUME DInv, NEW c \in Streams, worker[c] \in {"redeem", "run", "register"},
           NEW place, NEW kind, NEW tok, Issue(c, place, kind, tok),
           \/ place = "emit" /\ kind \in {"progress", "done", "error"}
           \/ place = "put" /\ kind \in {"error", "question"},
           UNCHANGED <<queue, responseVars>>
    PROVE  Delivers(c)'
<1>0. c \in Calls /\ c \notin Posts
  BY CallsAssumption DEF Calls
<1>1. InOrder(c) /\ EndsWell(c)
  BY <1>0 DEF DInv, Delivers
<1>2. /\ worker'[c] = place /\ emitted'[c] = emitted[c] + 1
      /\ event'[c].kind = kind /\ event'[c].n = emitted[c]
      /\ UNCHANGED <<queue, received, writer>>
  BY <1>0 DEF Issue, Go, DInv, IInv, TypeOK, responseVars
<1>3. emitted[c] \in Nat /\ emitted[c] <= emitted[c] + 1 /\ emitted[c] + 1 \in Nat
  BY <1>0, TypesOf
<1>4. Before(received[c], emitted[c] + 1) /\ Before(queue[c], emitted[c] + 1)
  BY <1>0, <1>1, <1>3, BeforeLater DEF InOrder
<1>5. emitted[c] < emitted[c] + 1
  BY <1>3
<1>6. InOrder(c)'
  BY <1>1, <1>2, <1>4, <1>5 DEF InOrder
<1>7. EndsWell(c)'
  BY <1>1, <1>2 DEF EndsWell, NoEnd
<1> QED  BY <1>0, <1>6, <1>7 DEF Delivers

\* A stream's worker goes on without an event, or finds the queue full.
LEMMA GoDelivers ==
    ASSUME DInv, NEW c \in Streams, NEW place, Go(c, place),
           \/ worker[c] \in {"idle", "redeem", "run", "register"} /\ place \in {"redeem", "run", "register"}
           \/ worker[c] = "emit" /\ place = "full",
           writer'[c] # "ended",
           UNCHANGED <<event, emitted, queue, received>>
    PROVE  Delivers(c)'
<1>0. c \in Calls /\ c \notin Posts
  BY CallsAssumption DEF Calls
<1>1. InOrder(c) /\ EndsWell(c)
  BY <1>0 DEF DInv, Delivers
<1>2. worker'[c] = place
  BY <1>0 DEF Go, DInv, IInv, TypeOK
<1>3. InOrder(c)'
  BY <1>1, <1>2 DEF InOrder, Pending
<1>4. EndsWell(c)'
  BY <1>1, <1>2 DEF EndsWell, NoEnd
<1> QED  BY <1>0, <1>3, <1>4 DEF Delivers

\* A stream's event is put behind what is left of the queue.
LEMMA PutDelivers ==
    ASSUME DInv, NEW c \in Streams, Pending(c),
           NEW q \in Seq(Event),
           \/ q = queue[c]
           \/ queue[c] # <<>> /\ q = Tail(queue[c]) /\ worker[c] # "put",
           queue'[c] = Append(q, event[c]),
           \/ worker[c] # "put" /\ AfterEmit(c)
           \/ /\ worker[c] = "put"
              /\ IF event[c].kind = "end"
                 THEN Go(c, "over") /\ UNCHANGED <<event, emitted>>
                 ELSE Issue(c, "put", "end", None),
           UNCHANGED responseVars
    PROVE  Delivers(c)'
<1>0. c \in Calls /\ c \notin Posts
  BY CallsAssumption DEF Calls
<1>1. InOrder(c) /\ EndsWell(c)
  BY <1>0 DEF DInv, Delivers
<1>2. /\ event[c] \in Event /\ event[c].n \in Nat /\ emitted[c] \in Nat
      /\ queue[c] \in Seq(Event)
  BY <1>0, TypesOf
<1>3. UNCHANGED <<received, writer>> /\ writer[c] # "ended"
  BY <1>1 DEF EndsWell, Pending, responseVars
<1> DEFINE e == event[c]
           a == Append(q, e)
<1>4. /\ Ordered(q) /\ Before(q, e.n) /\ NoEnd(q)
      /\ \A i \in DOMAIN q : Before(received[c], q[i].n)
      /\ e.n < emitted[c] /\ Before(received[c], e.n)
  <2>1. /\ Ordered(queue[c]) /\ Before(queue[c], e.n) /\ NoEnd(queue[c])
        /\ \A i \in DOMAIN queue[c] : Before(received[c], queue[c][i].n)
        /\ e.n < emitted[c] /\ Before(received[c], e.n)
    BY <1>1 DEF InOrder, EndsWell, Pending
  <2>2. CASE q = queue[c]
    BY <2>1, <2>2
  <2>3. CASE queue[c] # <<>> /\ q = Tail(queue[c])
    <3>1. /\ Ordered(Tail(queue[c])) /\ Before(Tail(queue[c]), e.n) /\ NoEnd(Tail(queue[c]))
          /\ DOMAIN Tail(queue[c]) = 1..(Len(queue[c]) - 1)
          /\ DOMAIN queue[c] = 1..Len(queue[c])
          /\ \A i \in 1..(Len(queue[c]) - 1) :
                 i + 1 \in 1..Len(queue[c]) /\ Tail(queue[c])[i] = queue[c][i + 1]
      BY <1>2, <2>1, <2>3, TailOrder
    <3>2. \A i \in DOMAIN q : Before(received[c], q[i].n)
      BY <2>1, <2>3, <3>1
    <3> QED  BY <2>1, <2>3, <3>1, <3>2
  <2> QED  BY <2>2, <2>3
<1>5. /\ DOMAIN a = 1..(Len(q) + 1) /\ Len(a) = Len(q) + 1
      /\ Len(q) \in Nat /\ DOMAIN q = 1..Len(q)
      /\ a[Len(q) + 1] = e
      /\ \A i \in 1..Len(q) : a[i] = q[i]
      /\ Ordered(a)
      /\ Before(a, emitted[c])
      /\ e.kind \in Outcomes => Concluded(a)
      /\ e.kind # "end" => NoEnd(a)
  <2>1. e \in Event
    BY <1>2
  <2>2. \A i \in DOMAIN q : q[i] \in Event
    OBVIOUS
  <2>3. \A i \in DOMAIN q : q[i].n \in Nat
    BY <2>2 DEF Event
  <2>4. Before(q, emitted[c])
    BY <1>2, <1>4, <2>3 DEF Before
  <2> HIDE DEF e
  <2>5. /\ DOMAIN a = 1..(Len(q) + 1) /\ Len(a) = Len(q) + 1
        /\ Len(q) \in Nat /\ DOMAIN q = 1..Len(q)
        /\ a[Len(q) + 1] = e
        /\ \A i \in 1..Len(q) : a[i] = q[i]
        /\ Ordered(q) /\ Before(q, e.n) => Ordered(a)
        /\ \A m \in Nat : Before(q, m) /\ e.n < m => Before(a, m)
        /\ e.kind \in Outcomes => Concluded(a)
        /\ NoEnd(q) /\ e.kind # "end" => NoEnd(a)
    BY <2>1, AppendOrder
  <2> HIDE DEF a
  <2> QED  BY <1>2, <1>4, <2>4, <2>5
<1>6. Before(a, emitted[c]) => Before(a, emitted[c] + 1)
  <2>1. a \in Seq(Event)
    BY <1>2
  <2> HIDE DEF a
  <2>2. \A i \in DOMAIN a : a[i] \in Event
    BY <2>1
  <2>3. \A i \in DOMAIN a : a[i].n \in Nat
    BY <2>2 DEF Event
  <2> QED  BY <1>2, <2>3 DEF Before
<1>7. queue'[c] = a
  OBVIOUS
<1> HIDE DEF a
<1>8. \A i \in DOMAIN a : Before(received[c], a[i].n)
  <2>1. \A i \in DOMAIN a : i = Len(q) + 1 \/ i \in DOMAIN q
    BY <1>5
  <2> QED  BY <1>4, <1>5, <2>1
<1>9. CASE Issue(c, "put", "end", None) /\ e.kind \in Outcomes
  <2>1. /\ worker'[c] = "put" /\ emitted'[c] = emitted[c] + 1
        /\ event'[c].kind = "end" /\ event'[c].n = emitted[c]
    BY <1>0, <1>9 DEF Issue, Go, DInv, IInv, TypeOK
  <2>2. emitted[c] + 1 \in Nat /\ emitted[c] <= emitted[c] + 1 /\ emitted[c] < emitted[c] + 1
    BY <1>2
  <2>3. Before(received[c], emitted[c]) /\ Before(received[c], emitted[c] + 1)
    BY <1>0, <1>1, <1>2, <2>2, BeforeLater DEF InOrder
  <2>4. Before(a, emitted[c] + 1)
    BY <1>5, <1>6
  <2>5. InOrder(c)'
    BY <1>1, <1>3, <1>5, <1>7, <1>8, <2>1, <2>2, <2>3, <2>4 DEF InOrder
  <2>6. Concluded(a) /\ NoEnd(a)
    BY <1>5, <1>9 DEF Outcomes
  <2>7. EndsWell(c)'
    BY <1>3, <1>7, <2>1, <2>6 DEF EndsWell, NoEnd
  <2> QED  BY <1>0, <2>5, <2>7 DEF Delivers
<1>10. CASE Issue(c, "put", "error", None) /\ e.kind \in Outcomes
  <2>1. /\ worker'[c] = "put" /\ emitted'[c] = emitted[c] + 1
        /\ event'[c].kind = "error" /\ event'[c].n = emitted[c]
    BY <1>0, <1>10 DEF Issue, Go, DInv, IInv, TypeOK
  <2>2. emitted[c] + 1 \in Nat /\ emitted[c] <= emitted[c] + 1 /\ emitted[c] < emitted[c] + 1
    BY <1>2
  <2>3. Before(received[c], emitted[c]) /\ Before(received[c], emitted[c] + 1)
    BY <1>0, <1>1, <1>2, <2>2, BeforeLater DEF InOrder
  <2>4. Before(a, emitted[c] + 1)
    BY <1>5, <1>6
  <2>5. InOrder(c)'
    BY <1>1, <1>3, <1>5, <1>7, <1>8, <2>1, <2>2, <2>3, <2>4 DEF InOrder
  <2>6. NoEnd(a)
    BY <1>5, <1>10 DEF Outcomes
  <2>7. EndsWell(c)'
    BY <1>3, <1>7, <2>1, <2>6 DEF EndsWell, NoEnd
  <2> QED  BY <1>0, <2>5, <2>7 DEF Delivers
<1>11. CASE Go(c, "run") /\ UNCHANGED <<event, emitted>> /\ e.kind = "progress"
  <2>1. worker'[c] = "run"
    BY <1>0, <1>11 DEF Go, DInv, IInv, TypeOK
  <2>2. InOrder(c)'
    BY <1>1, <1>3, <1>5, <1>7, <1>8, <1>11, <2>1 DEF InOrder, Pending
  <2>3. NoEnd(a)
    BY <1>5, <1>11
  <2>4. EndsWell(c)'
    BY <1>3, <1>7, <2>1, <2>3 DEF EndsWell, NoEnd
  <2> QED  BY <1>0, <2>2, <2>4 DEF Delivers
<1>12. CASE /\ worker[c] = "put" /\ e.kind = "end" /\ q = queue[c]
            /\ Go(c, "over") /\ UNCHANGED <<event, emitted>>
  <2>1. worker'[c] = "over"
    BY <1>0, <1>12 DEF Go, DInv, IInv, TypeOK
  <2>2. InOrder(c)'
    BY <1>1, <1>3, <1>5, <1>7, <1>8, <1>12, <2>1 DEF InOrder, Pending
  <2>3. Concluded(q) \/ (q = <<>> /\ (writer[c] = "open" => Concluded(received[c])))
    BY <1>1, <1>12 DEF EndsWell
  <2>4. ASSUME NEW i \in DOMAIN a, a[i].kind = "end"
        PROVE  /\ i = Len(a)
               /\ IF i > 1 THEN a[i - 1].kind \in Outcomes
                           ELSE writer[c] = "open" => Concluded(received[c])
    <3>1. i = Len(a)
      BY <1>4, <1>5, <2>4 DEF NoEnd
    <3>2. CASE i > 1
      <4>1. Concluded(q) /\ i - 1 = Len(q) /\ a[i - 1] = q[Len(q)]
        BY <1>5, <2>3, <3>1, <3>2, EmptySeq
      <4> QED  BY <3>1, <3>2, <4>1 DEF Concluded
    <3>3. CASE ~(i > 1)
      <4>1. Len(q) = 0
        BY <1>5, <3>1, <3>3
      <4>2. q = <<>>
        BY <4>1, EmptySeq
      <4> QED  BY <2>3, <3>1, <3>3, <4>2 DEF Concluded
    <3> QED  BY <3>2, <3>3
  <2>5. EndsWell(c)'
    BY <1>3, <1>7, <2>1, <2>4 DEF EndsWell
  <2> QED  BY <1>0, <2>2, <2>5 DEF Delivers
<1>13. CASE worker[c] # "put" /\ AfterEmit(c)
  <2>1. CASE e.kind = "progress" /\ Go(c, "run") /\ UNCHANGED <<event, emitted>>
    BY <1>11, <2>1
  <2>2. CASE e.kind = "done" /\ Issue(c, "put", "end", None)
    BY <1>9, <2>2 DEF Outcomes
  <2>3. CASE e.kind = "error" /\ Issue(c, "put", "error", None)
    BY <1>10, <2>3 DEF Outcomes
  <2> QED  BY <1>13, <2>1, <2>2, <2>3 DEF AfterEmit
<1>14. CASE worker[c] = "put"
  <2>1. e.kind \in {"error", "question", "end"} /\ q = queue[c]
    BY <1>1, <1>14 DEF EndsWell
  <2> QED  BY <1>9, <1>12, <1>14, <2>1 DEF Outcomes
<1> QED  BY <1>13, <1>14

\* The writer takes the head of a stream's queue and passes it on, ends with it
\* or leaves.
LEMMA WriteDelivers ==
    ASSUME DInv, NEW c \in Streams, Write(c) \/ Disconnected(c)
    PROVE  Delivers(c)'
<1> DEFINE q == queue[c]
           r == received[c]
           h == Head(q)
           t == Tail(q)
<1>0. c \in Calls /\ c \notin Posts
  BY CallsAssumption DEF Calls
<1>1. InOrder(c) /\ EndsWell(c)
  BY <1>0 DEF DInv, Delivers
<1>2. /\ q # <<>> /\ queue'[c] = t /\ writer[c] = "open"
      /\ worker'[c] = worker[c] /\ event'[c] = event[c] /\ emitted'[c] = emitted[c]
  BY <1>0 DEF Write, Disconnected, Take, runVars, DInv, IInv, TypeOK
<1>3. /\ q \in Seq(Event) /\ r \in Seq(Event) /\ emitted[c] \in Nat /\ event[c].n \in Nat
      /\ \A i \in DOMAIN q : q[i].n \in Nat
  BY <1>0, TypesOf
<1>4. /\ Ordered(q) /\ Ordered(r)
      /\ NoEnd(q) => NoEnd(t)
      /\ \A i \in DOMAIN q : Before(r, q[i].n)
      /\ Before(r, emitted[c]) /\ Before(q, emitted[c])
      /\ Pending(c) => /\ event[c].n < emitted[c]
                       /\ Before(r, event[c].n) /\ Before(q, event[c].n)
  BY <1>1, <1>2, <1>3, TailOrder DEF InOrder
<1>5. /\ worker[c] \in {"emit", "full"} => event[c].kind \in {"progress", "done", "error"}
      /\ worker[c] = "put" => event[c].kind \in {"error", "question", "end"}
      /\ worker[c] # "over" => NoEnd(q)
      /\ \A i \in DOMAIN q : q[i].kind = "end" =>
             /\ i = Len(q)
             /\ IF i > 1 THEN q[i - 1].kind \in Outcomes ELSE Concluded(r)
      /\ worker[c] = "put" /\ event[c].kind = "end" => Concluded(q)
  BY <1>1, <1>2 DEF EndsWell
<1>6. /\ t \in Seq(Event) /\ Len(t) = Len(q) - 1
      /\ Len(q) \in Nat \ {0} /\ DOMAIN q = 1..Len(q)
      /\ h = q[1] /\ h \in Event
      /\ DOMAIN t = 1..(Len(q) - 1)
      /\ \A i \in 1..(Len(q) - 1) : i + 1 \in 1..Len(q) /\ t[i] = q[i + 1]
      /\ Ordered(t) /\ \A i \in DOMAIN t : h.n < t[i].n
      /\ \A m \in Nat : Before(q, m) => Before(t, m)
  BY <1>2, <1>3, <1>4, TailOrder
<1>7. 1 \in DOMAIN q /\ Before(r, h.n) /\ h.n \in Nat
  BY <1>3, <1>4, <1>6
<1> HIDE DEF h, t
<1>8. ASSUME NEW j \in DOMAIN q, q[j].kind = "end"
       PROVE  j = Len(q) /\ IF j > 1 THEN q[j - 1].kind \in Outcomes ELSE Concluded(r)
  BY <1>5, <1>8, Zenon
<1>9. ASSUME NEW i \in DOMAIN t, t[i].kind = "end"
       PROVE  i = Len(t) /\ IF i > 1 THEN t[i - 1].kind \in Outcomes ELSE h.kind \in Outcomes
  <2>1. i + 1 \in DOMAIN q /\ q[i + 1].kind = "end" /\ i \in Nat \ {0}
    BY <1>6, <1>9
  <2>2. /\ i + 1 = Len(q)
        /\ IF i + 1 > 1 THEN q[i + 1 - 1].kind \in Outcomes ELSE Concluded(r)
    BY <1>8, <2>1
  <2>3. i = Len(t) /\ q[i].kind \in Outcomes
    BY <1>6, <2>1, <2>2
  <2>4. i > 1 => t[i - 1] = q[i]
    BY <1>6
  <2>5. ~(i > 1) => h = q[i]
    BY <1>6, <2>1
  <2> QED  BY <2>3, <2>4, <2>5
<1>10. /\ Before(t, emitted[c])
       /\ Pending(c) => Before(t, event[c].n)
       /\ \A i \in DOMAIN t : Before(r, t[i].n)
  BY <1>3, <1>4, <1>6
<1>11. CASE received'[c] = r
  <2>1. InOrder(c)'
    BY <1>2, <1>4, <1>6, <1>10, <1>11 DEF InOrder, Pending
  <2>2. CASE h.kind = "end" /\ writer'[c] = "ended"
    <3>1. worker[c] = "over"
      BY <1>5, <1>6, <1>7, <2>2 DEF NoEnd
    <3>2. 1 = Len(q) /\ Concluded(r)
      <4>1. q[1].kind = "end"
        BY <1>6, <2>2
      <4>2. 1 = Len(q) /\ IF 1 > 1 THEN q[1 - 1].kind \in Outcomes ELSE Concluded(r)
        BY <1>7, <1>8, <4>1
      <4> QED  BY <4>2
    <3>3. DOMAIN t = {}
      BY <1>6, <3>2
    <3> QED  BY <1>0, <1>2, <1>11, <2>1, <2>2, <3>1, <3>2, <3>3 DEF Delivers, EndsWell, NoEnd
  <2>3. CASE writer'[c] = "gone"
    <3>1. ASSUME NEW i \in DOMAIN t, t[i].kind = "end"
          PROVE  i = Len(t) /\ (i > 1 => t[i - 1].kind \in Outcomes)
      BY <1>9, <3>1
    <3>2. worker[c] = "put" /\ event[c].kind = "end" => Concluded(t) \/ t = <<>>
      <4>1. CASE t # <<>>
        <5>1. Len(t) # 0 /\ t[Len(t)] = q[Len(q)]
          BY <1>6, <4>1, EmptySeq
        <5> QED  BY <1>5, <4>1, <5>1 DEF Concluded
      <4> QED  BY <4>1
    <3>3. EndsWell(c)'
      BY <1>2, <1>4, <1>5, <2>3, <3>1, <3>2 DEF EndsWell
    <3> QED  BY <1>0, <2>1, <3>3 DEF Delivers
  <2>4. (h.kind = "end" /\ writer'[c] = "ended") \/ writer'[c] = "gone"
    <3>1. CASE Write(c)
      <4>1. CASE h.kind = "end"
        BY <1>0, <3>1, <4>1 DEF Write, DInv, IInv, TypeOK, h
      <4>2. CASE h.kind # "end"
        <5>1. received'[c] = Append(r, h)
          BY <1>0, <3>1, <4>2 DEF Write, DInv, IInv, TypeOK, h
        <5>2. Len(Append(r, h)) = Len(r) + 1 /\ Len(r) \in Nat
          BY <1>3, <1>6, AppendOrder
        <5> QED  BY <1>11, <5>1, <5>2
      <4> QED  BY <4>1, <4>2
    <3>2. CASE Disconnected(c)
      BY <1>0, <3>2 DEF Disconnected, DInv, IInv, TypeOK
    <3> QED  BY <3>1, <3>2
  <2> QED  BY <2>2, <2>3, <2>4
<1>12. CASE received'[c] = Append(r, h) /\ writer'[c] = "open" /\ h.kind # "end"
  <2> DEFINE a == Append(r, h)
  <2>1. /\ Ordered(r) /\ Before(r, h.n) => Ordered(a)
        /\ \A m \in Nat : Before(r, m) /\ h.n < m => Before(a, m)
        /\ h.kind \in Outcomes => Concluded(a)
    BY <1>3, <1>6, AppendOrder
  <2> HIDE DEF a
  <2>2. h.n < emitted[c] /\ (Pending(c) => h.n < event[c].n)
    BY <1>4, <1>6, <1>7 DEF Before
  <2>3. \A i \in DOMAIN t : t[i].n \in Nat
    BY <1>3, <1>6
  <2>4. Before(a, emitted[c]) /\ (Pending(c) => Before(a, event[c].n))
    BY <1>3, <1>4, <2>1, <2>2
  <2>5. \A i \in DOMAIN t : Before(a, t[i].n)
    BY <1>6, <1>10, <2>1, <2>3
  <2>6. received'[c] = a
    BY <1>12 DEF a
  <2>7. InOrder(c)'
    BY <1>2, <1>4, <1>6, <1>10, <2>1, <2>4, <2>5, <2>6 DEF InOrder, Pending
  <2>8. ASSUME NEW i \in DOMAIN t, t[i].kind = "end"
        PROVE  /\ i = Len(t)
               /\ IF i > 1 THEN t[i - 1].kind \in Outcomes ELSE Concluded(a)
    BY <1>9, <2>1, <2>8
  <2>9. worker[c] = "put" /\ event[c].kind = "end" => Concluded(t) \/ (t = <<>> /\ Concluded(a))
    <3>1. CASE t # <<>>
      <4>1. Len(t) # 0 /\ t[Len(t)] = q[Len(q)]
        BY <1>6, <3>1, EmptySeq
      <4> QED  BY <1>5, <3>1, <4>1 DEF Concluded
    <3>2. CASE t = <<>>
      <4>1. Len(t) = 0
        BY <3>2, EmptySeq
      <4>2. h = q[Len(q)]
        BY <1>6, <4>1
      <4> QED  BY <1>5, <2>1, <3>2, <4>2 DEF Concluded
    <3> QED  BY <3>1, <3>2
  <2>10. EndsWell(c)'
    BY <1>2, <1>4, <1>5, <1>12, <2>6, <2>8, <2>9 DEF EndsWell
  <2> QED  BY <1>0, <2>7, <2>10 DEF Delivers
<1>13. received'[c] = r \/ (received'[c] = Append(r, h) /\ writer'[c] = "open" /\ h.kind # "end")
  <2>1. CASE Write(c)
    BY <1>0, <2>1 DEF Write, DInv, IInv, TypeOK, h
  <2>2. CASE Disconnected(c)
    BY <2>2 DEF Disconnected
  <2> QED  BY <2>1, <2>2
<1> QED  BY <1>11, <1>12, <1>13

\* The writer of a stream leaves an empty queue.
LEMMA IdleDelivers ==
    ASSUME DInv, NEW c \in Streams, Idle(c) PROVE Delivers(c)'
<1>0. c \in Calls /\ c \notin Posts
  BY CallsAssumption DEF Calls
<1>1. InOrder(c) /\ EndsWell(c)
  BY <1>0 DEF DInv, Delivers
<1>2. /\ writer[c] = "open" /\ writer'[c] = "gone"
      /\ UNCHANGED <<worker, event, emitted, queue, received>>
  BY <1>0 DEF Idle, runVars, DInv, IInv, TypeOK
<1>3. InOrder(c)' /\ EndsWell(c)'
  BY <1>1, <1>2 DEF InOrder, EndsWell, Pending
<1> QED  BY <1>0, <1>3 DEF Delivers

\* A post goes on with its run.
LEMMA PostGoes ==
    ASSUME DInv, NEW c \in Posts, NEW place \in {"run", "redeem", "register"}, worker[c] # "over", Go(c, place),
           writer'[c] # "ended", UNCHANGED <<queue, received>>
    PROVE  Delivers(c)'
<1>0. c \in Calls /\ c \notin Streams
  BY CallsAssumption DEF Calls
<1>1. worker'[c] = place
  BY <1>0 DEF Go, DInv, IInv, TypeOK
<1> QED  BY <1>0, <1>1 DEF DInv, Delivers, PostAnswers, Pending

\* A post answers with its outcome.
LEMMA PostConcludes ==
    ASSUME DInv, NEW c \in Posts, worker[c] # "over", NEW kind \in Outcomes,
           NEW tok \in Tokens \cup {None}, Conclude(c, kind, tok), UNCHANGED queue
    PROVE  Delivers(c)'
<1> DEFINE e == [kind |-> kind, n |-> emitted[c], tok |-> tok]
<1>0. c \in Calls /\ c \notin Streams
  BY CallsAssumption DEF Calls
<1>1. queue[c] = <<>> /\ received[c] = <<>>
  BY <1>0 DEF DInv, Delivers, PostAnswers
<1>2. received'[c] = Append(<<>>, e) /\ worker'[c] = "over"
  BY <1>0, <1>1 DEF Conclude, Go, DInv, IInv, TypeOK
<1>3. e \in Event /\ e.kind \in Outcomes /\ <<>> \in Seq(Event) /\ Len(<<>>) = 0
  BY <1>0, TypesOf, EmptySeq DEF Event, Outcomes
<1> HIDE DEF e
<1>4. /\ Len(Append(<<>>, e)) = Len(<<>>) + 1
      /\ e.kind \in Outcomes => Concluded(Append(<<>>, e))
  BY <1>3, AppendOrder
<1>5. PostAnswers(c)'
  BY <1>1, <1>2, <1>3, <1>4 DEF PostAnswers, Pending
<1> QED  BY <1>0, <1>5 DEF Delivers

\* What a step of call c leaves of the others.
OthersStay(c) ==
    \A d \in Calls \ {c} :
        /\ worker'[d] = worker[d] /\ event'[d] = event[d] /\ emitted'[d] = emitted[d]
        /\ queue'[d] = queue[d] /\ writer'[d] = writer[d] /\ received'[d] = received[d]

LEMMA OneCall ==
    ASSUME TypeOK, NEW c \in Calls, Open(c) \/ Work(c) \/ Write(c) \/ Disconnected(c) \/ Idle(c)
    PROVE  OthersStay(c)
<1> USE DEF TypeOK, OthersStay, Go, Issue, Conclude, responseVars, runVars
<1>1. CASE Open(c)
  BY <1>1 DEF Open
<1>2. CASE Redeem(c)
  BY <1>2 DEF Redeem
<1>3. CASE Progress(c) \/ Suspend(c)
  BY <1>3 DEF Progress, Suspend
<1>4. CASE Finish(c)
  BY <1>4 DEF Finish, Break
<1>5. CASE Register(c)
  BY <1>5 DEF Register
<1>6. CASE Emit(c)
  BY <1>6 DEF Emit, AfterEmit
<1>7. CASE DropOldest(c)
  BY <1>7 DEF DropOldest, AfterEmit
<1>8. CASE Put(c)
  BY <1>8 DEF Put
<1>9. CASE Write(c)
  BY <1>9 DEF Write, Take
<1>10. CASE Disconnected(c) \/ Idle(c)
  BY <1>10 DEF Disconnected, Take, Idle
<1> QED  BY <1>1, <1>2, <1>3, <1>4, <1>5, <1>6, <1>7, <1>8, <1>9, <1>10 DEF Work

\* A stream's worker before it has an event to put.
LEMMA StreamRuns ==
    ASSUME DInv, NEW c \in Streams,
           Open(c) \/ Redeem(c) \/ Progress(c) \/ Finish(c) \/ Suspend(c) \/ Register(c)
    PROVE  Delivers(c)'
<1>0. c \in Calls /\ c \notin Posts
  BY CallsAssumption DEF Calls
<1>1. EndsWell(c)
  BY <1>0 DEF DInv, Delivers
<1>2. CASE Open(c)
  <2>1. PICK t \in Announced \cup {None} : Go(c, IF t = None THEN "run" ELSE "redeem")
    BY <1>2 DEF Open
  <2>2. /\ worker[c] = "idle" /\ writer'[c] = "open"
        /\ UNCHANGED <<event, emitted, queue, received>>
    BY <1>0, <1>2 DEF Open, DInv, IInv, TypeOK
  <2> QED  BY <2>1, <2>2, GoDelivers
<1>3. CASE Redeem(c)
  <2>1. CASE Go(c, "run") /\ UNCHANGED <<emitted, event, responseVars>>
    BY <1>1, <1>3, <2>1, GoDelivers DEF Redeem, EndsWell, responseVars
  <2>2. CASE Conclude(c, "error", None)
    BY <1>0, <1>3, <2>2, IssueDelivers DEF Redeem, Conclude
  <2> QED  BY <1>3, <2>1, <2>2 DEF Redeem
<1>4. CASE Progress(c)
  BY <1>4, IssueDelivers DEF Progress
<1>5. CASE Finish(c)
  BY <1>5, CallsAssumption, IssueDelivers DEF Finish
<1>6. CASE Suspend(c)
  BY <1>1, <1>6, GoDelivers DEF Suspend, EndsWell, responseVars
<1>7. CASE Register(c)
  BY <1>0, <1>7, IssueDelivers DEF Register, Conclude
<1> QED  BY <1>2, <1>3, <1>4, <1>5, <1>6, <1>7

LEMMA StreamPuts ==
    ASSUME DInv, NEW c \in Streams, Emit(c) \/ DropOldest(c) \/ Put(c)
    PROVE  Delivers(c)'
<1>0. c \in Calls /\ c \notin Posts /\ queue[c] \in Seq(Event)
  BY CallsAssumption DEF Calls, DInv, IInv, TypeOK
<1>1. EndsWell(c)
  BY <1>0 DEF DInv, Delivers
<1>2. CASE Emit(c) /\ Len(queue[c]) < QueueSize
  <2>1. /\ worker[c] = "emit" /\ Pending(c) /\ AfterEmit(c)
        /\ UNCHANGED responseVars /\ queue'[c] = Append(queue[c], event[c])
    BY <1>0, <1>2 DEF Emit, Pending, DInv, IInv, TypeOK
  <2> QED  BY <1>0, <2>1, PutDelivers
<1>3. CASE Emit(c) /\ ~(Len(queue[c]) < QueueSize)
  BY <1>1, <1>3, GoDelivers DEF Emit, EndsWell, responseVars
<1>4. CASE DropOldest(c)
  <2> DEFINE q == IF queue[c] = <<>> THEN queue[c] ELSE Tail(queue[c])
  <2>1. /\ worker[c] = "full" /\ Pending(c) /\ AfterEmit(c)
        /\ UNCHANGED responseVars /\ queue'[c] = Append(q, event[c])
    BY <1>0, <1>4 DEF DropOldest, Pending, DInv, IInv, TypeOK
  <2>2. q \in Seq(Event) /\ (q = queue[c] \/ (queue[c] # <<>> /\ q = Tail(queue[c])))
    BY <1>0, TailOrder
  <2> QED  BY <2>1, <2>2, PutDelivers
<1>5. CASE Put(c)
  <2>1. /\ worker[c] = "put" /\ Pending(c)
        /\ UNCHANGED responseVars /\ queue'[c] = Append(queue[c], event[c])
        /\ IF event[c].kind = "end"
           THEN Go(c, "over") /\ UNCHANGED <<event, emitted>>
           ELSE Issue(c, "put", "end", None)
    BY <1>0, <1>5 DEF Put, Pending, DInv, IInv, TypeOK
  <2> QED  BY <1>0, <2>1, PutDelivers
<1> QED  BY <1>2, <1>3, <1>4, <1>5

LEMMA PostWorks ==
    ASSUME DInv, NEW c \in Posts, Open(c) \/ Work(c) PROVE Delivers(c)'
<1>0. c \in Calls /\ c \notin Streams
  BY CallsAssumption DEF Calls
<1>1. PostAnswers(c) /\ writer[c] \in {"off", "open", "ended", "gone"}
  BY <1>0 DEF DInv, Delivers, IInv, TypeOK
<1>2. CASE Open(c)
  <2>1. PICK t \in Announced \cup {None} : Go(c, IF t = None THEN "run" ELSE "redeem")
    BY <1>2 DEF Open
  <2>2. worker[c] = "idle" /\ writer'[c] = "open" /\ UNCHANGED <<queue, received>>
    BY <1>0, <1>2 DEF Open, DInv, IInv, TypeOK
  <2> QED  BY <2>1, <2>2, PostGoes
<1>3. CASE Redeem(c)
  <2>1. CASE Go(c, "run") /\ UNCHANGED <<emitted, event, responseVars>>
    BY <1>1, <1>3, <2>1, PostGoes DEF Redeem, PostAnswers, responseVars
  <2>2. CASE Conclude(c, "error", None)
    BY <1>3, <2>2, PostConcludes DEF Redeem, Outcomes
  <2> QED  BY <1>3, <2>1, <2>2 DEF Redeem
<1>4. CASE Finish(c)
  <2>1. worker[c] = "run" /\ UNCHANGED queue
    BY <1>4 DEF Finish
  <2>2. CASE Conclude(c, "done", None)
    BY <2>1, <2>2, PostConcludes DEF Outcomes
  <2>3. CASE Break(c)
    <3>1. worker'[c] = "over" /\ writer'[c] = "gone" /\ UNCHANGED received
      BY <1>0, <2>3 DEF Break, Go, DInv, IInv, TypeOK
    <3>2. received[c] = <<>> /\ queue[c] = <<>>
      BY <1>1, <2>1 DEF PostAnswers
    <3>3. PostAnswers(c)'
      BY <2>1, <3>1, <3>2 DEF PostAnswers, Pending
    <3> QED  BY <1>0, <3>3 DEF Delivers
  <2> QED  BY <1>0, <1>4, <2>2, <2>3 DEF Finish
<1>5. CASE Suspend(c)
  BY <1>1, <1>5, PostGoes DEF Suspend, PostAnswers, responseVars
<1>6. CASE Register(c)
  BY <1>0, <1>6, PostConcludes DEF Register, Outcomes, Tokens
<1>7. ~Progress(c)
  BY <1>0 DEF Progress
<1>8. ~Emit(c) /\ ~DropOldest(c) /\ ~Put(c)
  BY <1>1 DEF PostAnswers, Pending, Emit, DropOldest, Put
<1> QED  BY <1>2, <1>3, <1>4, <1>5, <1>6, <1>7, <1>8 DEF Work

LEMMA InitDelivers == Init => DInv
<1> SUFFICES ASSUME Init PROVE DInv
  OBVIOUS
<1>1. IInv
  BY InitInv
<1>2. DOMAIN <<>> = {}
  OBVIOUS
<1>3. ASSUME NEW c \in Calls PROVE Delivers(c)
  <2>1. /\ queue[c] = <<>> /\ received[c] = <<>> /\ worker[c] = "idle" /\ writer[c] = "off"
        /\ ~Pending(c)
    BY DEF Init, Pending
  <2>2. InOrder(c)
    BY <1>2, <2>1 DEF InOrder, Ordered, Before
  <2>3. EndsWell(c)
    BY <1>2, <2>1 DEF EndsWell, NoEnd
  <2> QED  BY <2>1, <2>2, <2>3 DEF Delivers, PostAnswers
<1> QED  BY <1>1, <1>3 DEF DInv

LEMMA NextDelivers == DInv /\ [Next]_vars => DInv'
<1> SUFFICES ASSUME DInv, [Next]_vars PROVE DInv'
  OBVIOUS
<1>1. IInv'
  BY NextInv DEF DInv
<1>2. CASE UNCHANGED vars
  BY <1>1, <1>2 DEF vars, callVars, runVars, responseVars, DInv, Delivers, InOrder, EndsWell,
     PostAnswers, Pending
<1>3. ASSUME NEW c \in Calls, Open(c) \/ Work(c) \/ Write(c) \/ Disconnected(c) \/ Idle(c)
      PROVE  \A d \in Calls : Delivers(d)'
  <2> SUFFICES Delivers(c)'
    <3>1. OthersStay(c)
      BY <1>3, OneCall DEF DInv, IInv
    <3> QED  BY <3>1, OneDelivers DEF OthersStay
  <2>1. CASE c \in Streams
    BY <1>3, <2>1, StreamRuns, StreamPuts, WriteDelivers, IdleDelivers DEF Work
  <2>2. CASE c \in Posts
    <3>1. ~Write(c) /\ ~Disconnected(c) /\ ~Idle(c)
      BY <2>2, CallsAssumption DEF DInv, Delivers, PostAnswers, Write, Disconnected, Idle
    <3> QED  BY <1>3, <2>2, <3>1, PostWorks
  <2> QED  BY <2>1, <2>2 DEF Calls
<1> QED  BY <1>1, <1>2, <1>3 DEF DInv, Next

\* The strengthened invariant of what is on its way to the clients.
THEOREM DeliveryInvariance == Spec => []DInv
BY InitDelivers, NextDelivers, PTL DEF Spec

\* The frames of every response are in the order of its run, and a response that
\* is complete ends with the run's outcome, however full its queue became.
THEOREM OutcomesArrive == Spec => []OutcomeDelivered
<1>1. DInv => OutcomeDelivered
  <2> SUFFICES ASSUME DInv, NEW c \in Calls
               PROVE  /\ Ordered(received[c])
                      /\ writer[c] = "ended" => Concluded(received[c])
    BY DEF OutcomeDelivered, Ordered, Concluded, Outcomes
  <2>1. CASE c \in Streams
    BY <2>1 DEF DInv, Delivers, InOrder, EndsWell
  <2>2. CASE c \in Posts
    <3>1. PostAnswers(c)
      BY <2>2 DEF DInv, Delivers
    <3>2. DOMAIN received[c] = 1..Len(received[c]) /\ Len(received[c]) \in {0, 1}
      BY <3>1, TypesOf, EmptySeq DEF PostAnswers
    <3>3. Ordered(received[c])
      BY <3>2 DEF Ordered
    <3> QED  BY <3>1, <3>3 DEF PostAnswers
  <2> QED  BY <2>1, <2>2 DEF Calls
<1> QED  BY <1>1, DeliveryInvariance, PTL
=============================================================================
