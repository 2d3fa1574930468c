-------------------------- MODULE ToolAgentProofs --------------------------
(* Proofs about ToolAgent, for any number of runs and all budgets. *)
EXTENDS ToolAgent, SequenceTheorems, TLAPS

\* A run is executing a call.
Executing(r) == frame[r].at \in {"tool", "statement", "rewrite"}

Fails(r, i) == ~Succeeded(outputs[r][i])

\* No call is executed without a step left for it.
InBudget(r) ==
    /\ Steps(r) <= MaxSteps
    /\ Executing(r) \/ frame[r].at \in {"correct", "replan", "reflect"} => Steps(r) < MaxSteps

\* Statements compiled so far: the calls that ended used up their share at most,
\* the call being executed has its rewrites and one attempt more.
Share == MaxRewrites + 1
AttemptsInBudget(r) ==
    /\ frame[r].at = "tool" => frame[r].rewrites = 0
    /\ frame[r].at = "rewrite" => frame[r].rewrites < MaxRewrites
    /\ frame[r].attempts <= Steps(r) * Share
           + (CASE frame[r].at = "statement" -> frame[r].rewrites
                [] frame[r].at = "rewrite" -> frame[r].rewrites + 1
                [] OTHER -> 0)

\* The calls a replan asked for are executed: it is paid for by a step.
ReplansInBudget(r) ==
    /\ result[r].replans <= Steps(r) + 1
    /\ result[r].replans > Steps(r) =>
           /\ Steps(r) < MaxSteps
           /\ \/ Executing(r)
              \/ frame[r].at = "call" /\ frame[r].calls # <<>>

\* All is well: nothing was executed yet, or the last call succeeded.
Fine(r) == outputs[r] = <<>> \/ LastSucceeded(r)

\* One more call may follow: no failure so far but at the end, or repaired by
\* the call after it.
Open(r) ==
    \A i \in 1..(Steps(r) - 1) :
        Fails(r, i) => /\ llm
                       /\ outputs[r][i].outcome # "denied"
                       /\ i + 1 < Steps(r) => ~Fails(r, i + 1)

\* The last call failed and it was no correction.
Reparable(r) ==
    /\ outputs[r] # <<>>
    /\ outputs[r][Steps(r)].outcome = "failed"
    /\ Steps(r) > 1 => ~Fails(r, Steps(r) - 1)

\* A failure stops the run: the property FailureStops of one run.
Stops(r) ==
    \A i \in 1..Steps(r) :
        Fails(r, i) => /\ ~llm => i = Steps(r)
                       /\ outputs[r][i].outcome = "denied" => Steps(r) <= i + 1
                       /\ i < Steps(r) /\ Fails(r, i + 1) => Steps(r) <= i + 2

Trajectory(r) ==
    /\ Stops(r)
    /\ frame[r].at \notin {"synthesize", "done"} => Open(r)
    /\ frame[r].at \in {"store", "stored", "plan", "call", "replan"} => Fine(r)
    /\ frame[r].at = "correct" => Reparable(r)
    /\ Executing(r) => /\ frame[r].as = "planned" => Fine(r)
                       /\ frame[r].as = "corrected" => llm /\ Reparable(r)
                       /\ frame[r].as = "followup" => llm

\* What the error and the answer of a finished run say of its last call.
Told(r) ==
    /\ outputs[r] # <<>> => (result[r].answer = "error" <=> ~LastSucceeded(r))
    /\ result[r].answer \in {"none", "error"} => result[r].error
    /\ result[r].error => result[r].answer = "error" \/ LastSucceeded(r)

\* The answer is given last, and only the planner's comes before the synthesis.
Answering(r) ==
    /\ frame[r].at \in {"store", "stored", "plan"} => outputs[r] = <<>>
    /\ frame[r].at = "done" => Told(r)
    /\ frame[r].at # "done" => ~result[r].error
    /\ frame[r].at \notin {"synthesize", "done"} => result[r].answer = "none"
    /\ frame[r].at = "synthesize" => result[r].answer \in {"none", "replan", "question"}
    /\ frame[r].at = "synthesize" /\ result[r].answer # "none" => Fine(r)

RunInv(r) ==
    /\ InBudget(r)
    /\ AttemptsInBudget(r)
    /\ ReplansInBudget(r)
    /\ Trajectory(r)
    /\ Answering(r)

IInv ==
    /\ TypeOK
    /\ \A r \in Requests : RunInv(r)

-----------------------------------------------------------------------------
(* The initial states *)

THEOREM Initially == Init => IInv
<1> SUFFICES ASSUME Init PROVE IInv
    OBVIOUS
<1>1. TypeOK
    <2>1. llm \in BOOLEAN /\ reflecting \in BOOLEAN
        BY DEF Init
    <2>2. history \in Requests \cup {None} /\ lastDsl \in Requests \cup {None}
        BY DEF Init
    <2>3. frame \in [Requests -> Frames]
        <3>1. 0 \in 0..MaxRewrites
            BY RewritesAssumption
        <3>2. ASSUME NEW i \in BOOLEAN
              PROVE  [at |-> "store", inherited |-> i, calls |-> <<>>,
                      tool |-> "query_metric", as |-> "planned", rewrites |-> 0,
                      attempts |-> 0, plannedOn |-> <<>>] \in Frames
            BY <3>1 DEF Frames, Places, Tools, Queriers
        <3> QED BY <3>2, Zenon DEF Init
    <2>4. outputs \in [Requests -> Seq(Outputs)] /\ result \in [Requests -> Results]
        BY DEF Init, Results
    <2> QED BY <2>1, <2>2, <2>3, <2>4 DEF TypeOK
<1>2. ASSUME NEW r \in Requests PROVE RunInv(r)
    <2>1. /\ frame[r].at = "store" /\ frame[r].attempts = 0 /\ outputs[r] = <<>>
          /\ Steps(r) = 0
          /\ result[r].answer = "none" /\ result[r].error = FALSE /\ result[r].replans = 0
        BY DEF Init, Steps
    <2>2. InBudget(r) /\ ReplansInBudget(r)
        BY <2>1, StepsAssumption DEF InBudget, ReplansInBudget, Executing
    <2>3. AttemptsInBudget(r)
        BY <2>1, RewritesAssumption DEF AttemptsInBudget, Share
    <2>4. Trajectory(r)
        BY <2>1 DEF Trajectory, Stops, Open, Fine, Executing
    <2>5. Answering(r)
        BY <2>1 DEF Answering
    <2> QED BY <2>2, <2>3, <2>4, <2>5 DEF RunInv
<1> QED BY <1>1, <1>2 DEF IInv

-----------------------------------------------------------------------------
(* Types *)

\* Every plan is a sequence of calls.
LEMMA PlansAreCalls == KeywordPlans \subseteq Seq(Tools) /\ FirstPlans \subseteq Seq(Tools)
<1>0. \A t \in Tools : <<t>> \in Seq(Tools)
    OBVIOUS
<1>1. KeywordPlans \subseteq Seq(Tools)
    <2>1. <<"query_metric", "export_report">> \in Seq(Tools)
        BY DEF Tools, Queriers
    <2>2. \A t \in Queriers : t \in Tools
        BY DEF Tools
    <2> QED BY <1>0, <2>1, <2>2, Zenon DEF KeywordPlans, Single
<1>2. Comparisons \subseteq Seq(Tools)
    <2> SUFFICES ASSUME NEW n \in 2..MaxEntities
                 PROVE [i \in 1..n |-> "query_metric"] \in Seq(Tools)
        BY DEF Comparisons
    <2>1. n \in Nat
        BY EntitiesAssumption
    <2>2. [i \in 1..n |-> "query_metric"] \in [1..n -> Tools]
        BY DEF Tools, Queriers
    <2> QED BY <2>1, <2>2, SeqDef
<1>3. Single(Tools) \subseteq Seq(Tools) /\ Single({"explain_glossary"}) \subseteq Seq(Tools)
    <2>1. "explain_glossary" \in Tools
        BY DEF Tools
    <2> QED BY <1>0, <2>1, Zenon DEF Single
<1>4. <<>> \in Seq(Tools)
    OBVIOUS
<1> QED BY <1>1, <1>2, <1>3, <1>4 DEF FirstPlans

\* The run of another request is left alone.
LEMMA Locality ==
    ASSUME TypeOK, NEW r \in Requests, Step(r), NEW q \in Requests, q # r
    PROVE  /\ frame'[q] = frame[q]
           /\ outputs'[q] = outputs[q]
           /\ result'[q] = result[q]
           /\ llm' = llm
<1> USE DEF TypeOK, Go, Start, Finish
<1>1. CASE StoreHistory(r) \/ StoreLastDsl(r)
    BY <1>1 DEF StoreHistory, StoreLastDsl
<1>2. CASE PlanInherited(r) \/ Plan(r)
    BY <1>2 DEF PlanInherited, Plan
<1>3. CASE Call(r) \/ Correct(r)
    BY <1>3 DEF Call, Correct
<1>4. CASE RunTool(r)
    BY <1>4 DEF RunTool
<1>5. CASE RunStatement(r) \/ Rewrite(r)
    BY <1>5 DEF RunStatement, Rewrite
<1>6. CASE Replan(r) \/ Reflect(r)
    BY <1>6 DEF Replan, Reflect
<1>7. CASE Synthesize(r)
    BY <1>7 DEF Synthesize
<1> QED BY <1>1, <1>2, <1>3, <1>4, <1>5, <1>6, <1>7 DEF Step

\* Where a run may go when a batch or the schedule ends.
LEMMA EndOfSchedule ==
    ASSUME TypeOK, NEW r \in Requests, NEW n \in Nat
    PROVE  \/ AfterSchedule(r, n) = "reflect" /\ n > 0 /\ n < MaxSteps
           \/ AfterSchedule(r, n) = "synthesize"
BY StepsAssumption DEF AfterSchedule

\* Where a run may go after a call.
LEMMA EndOfCall ==
    ASSUME TypeOK, NEW r \in Requests, NEW o \in Outcomes
    PROVE  \/ frame[r].as = "followup" /\ AfterCall(r, o) = "synthesize"
           \/ /\ frame[r].as # "followup" /\ o \notin Failures
              /\ AfterCall(r, o) = "call"
           \/ /\ frame[r].as = "planned" /\ o = "failed" /\ Steps(r) + 1 < MaxSteps
              /\ AfterCall(r, o) = "correct"
           \/ /\ frame[r].as # "followup" /\ o \in Failures
              /\ AfterCall(r, o) = AfterSchedule(r, Steps(r) + 1)
BY DEF AfterCall, Failures

\* The updates of a frame keep its type.
LEMMA GoTyped ==
    ASSUME TypeOK, NEW r \in Requests, NEW p \in Places, Go(r, p)
    PROVE  frame' \in [Requests -> Frames]
<1>1. frame \in [Requests -> Frames]
    BY DEF TypeOK
<1> QED BY <1>1 DEF Go, Frames

LEMMA StartTyped ==
    ASSUME TypeOK, NEW r \in Requests, NEW t \in Tools, NEW c \in Seq(Tools),
           NEW a \in {"planned", "corrected", "followup"}, Start(r, t, a, c)
    PROVE  frame' \in [Requests -> Frames]
<1>1. frame \in [Requests -> Frames]
    BY DEF TypeOK
<1>2. "tool" \in Places /\ 0 \in 0..MaxRewrites
    BY RewritesAssumption DEF Places
<1>3. [frame[r] EXCEPT !.at = "tool", !.tool = t, !.as = a, !.calls = c, !.rewrites = 0] \in Frames
    <2>1. frame[r] \in Frames
        BY <1>1
    <2> QED BY <1>2, <2>1 DEF Frames
<1> QED BY <1>1, <1>3 DEF Start

LEMMA FinishTyped ==
    ASSUME TypeOK, NEW r \in Requests, NEW o \in Outcomes, NEW n \in 0..1, Finish(r, o, n)
    PROVE  frame' \in [Requests -> Frames] /\ outputs' \in [Requests -> Seq(Outputs)]
<1>0. frame \in [Requests -> Frames] /\ outputs \in [Requests -> Seq(Outputs)]
    BY DEF TypeOK
<1>1. AfterCall(r, o) \in Places
    <2>1. Steps(r) \in Nat
        BY <1>0 DEF Steps
    <2> QED BY <2>1, EndOfCall, EndOfSchedule DEF Places
<1>2. frame' \in [Requests -> Frames]
    <2>1. frame[r] \in Frames /\ n \in Nat
        BY <1>0
    <2>2. frame[r].attempts + n \in Nat
        BY <2>1 DEF Frames
    <2>3. \A m \in Nat : [frame[r] EXCEPT !.at = AfterCall(r, o), !.attempts = m] \in Frames
        BY <1>1, <2>1 DEF Frames
    <2>4. [frame[r] EXCEPT !.at = AfterCall(r, o), !.attempts = @ + n] \in Frames
        BY <2>2, <2>3
    <2> QED BY <1>0, <2>4 DEF Finish
<1>3. [tool |-> frame[r].tool, outcome |-> o] \in Outputs
    BY <1>0 DEF Frames, Outputs
<1>4. outputs' \in [Requests -> Seq(Outputs)]
    BY <1>0, <1>3 DEF Finish
<1> QED BY <1>2, <1>4

\* Every step keeps the types.
LEMMA TypeStep ==
    ASSUME IInv, NEW r \in Requests, Step(r)
    PROVE  TypeOK'
<1>a. TypeOK /\ RunInv(r)
    BY DEF IInv
<1>b. /\ frame \in [Requests -> Frames] /\ frame[r] \in Frames
      /\ outputs \in [Requests -> Seq(Outputs)]
      /\ result \in [Requests -> Results] /\ result[r] \in Results
    BY <1>a DEF TypeOK
<1>c. llm' = llm /\ reflecting' = reflecting
    BY DEF Step, StoreHistory, StoreLastDsl, PlanInherited, Plan, Call, RunTool, RunStatement,
           Rewrite, Correct, Replan, Reflect, Synthesize
<1>d. history' \in {history, r} /\ lastDsl' \in {lastDsl, r}
    BY DEF Step, StoreHistory, StoreLastDsl, PlanInherited, Plan, Call, RunTool, RunStatement,
           Rewrite, Correct, Replan, Reflect, Synthesize, shared
<1> SUFFICES /\ frame' \in [Requests -> Frames]
             /\ outputs' \in [Requests -> Seq(Outputs)]
             /\ result' \in [Requests -> Results]
    BY <1>a, <1>c, <1>d DEF TypeOK
<1>0. Steps(r) \in Nat /\ \A n \in Nat : AfterSchedule(r, n) \in Places
    <2>1. Steps(r) \in Nat
        BY <1>b DEF Steps
    <2> QED BY <1>a, <2>1, EndOfSchedule DEF Places
<1>1. CASE StoreHistory(r) \/ StoreLastDsl(r)
    <2>1. frame' \in [Requests -> Frames]
        BY <1>a, <1>1, GoTyped DEF StoreHistory, StoreLastDsl, Places
    <2> QED BY <1>b, <1>1, <2>1 DEF StoreHistory, StoreLastDsl
<1>2. CASE PlanInherited(r)
    <2>1. PICK c \in KeywordPlans :
              frame' = [frame EXCEPT ![r].at = "call", ![r].calls = c]
        BY <1>2 DEF PlanInherited
    <2>2. [frame[r] EXCEPT !.at = "call", !.calls = c] \in Frames
        BY <1>b, PlansAreCalls DEF Frames, Places
    <2>3. frame' \in [Requests -> Frames]
        BY <1>b, <2>1, <2>2
    <2> QED BY <1>b, <1>2, <2>3 DEF PlanInherited
<1>3. CASE Plan(r)
    <2>1. shared \in (Requests \cup {None}) \X (Requests \cup {None})
        BY <1>a DEF TypeOK, shared
    <2>2. ASSUME NEW c \in FirstPlans,
                 frame' = [frame EXCEPT ![r].at = "call", ![r].calls = c, ![r].plannedOn = shared],
                 UNCHANGED result
          PROVE  frame' \in [Requests -> Frames] /\ result' \in [Requests -> Results]
        <3>1. [frame[r] EXCEPT !.at = "call", !.calls = c, !.plannedOn = shared] \in Frames
            BY <1>b, <2>1, PlansAreCalls DEF Frames, Places
        <3> QED BY <1>b, <2>2, <3>1
    <2>3. ASSUME NEW a \in {"direct", "question", "error"},
                 frame' = [frame EXCEPT ![r].at = "done", ![r].plannedOn = shared],
                 result' = [result EXCEPT ![r].answer = a, ![r].error = (a = "error")]
          PROVE  frame' \in [Requests -> Frames] /\ result' \in [Requests -> Results]
        <3>1. [frame[r] EXCEPT !.at = "done", !.plannedOn = shared] \in Frames
            BY <1>b, <2>1 DEF Frames, Places
        <3>2. [result[r] EXCEPT !.answer = a, !.error = (a = "error")] \in Results
            BY <1>b DEF Results
        <3> QED BY <1>b, <2>3, <3>1, <3>2
    <2> QED BY <1>3, <1>b, <2>2, <2>3 DEF Plan
<1>4. CASE Call(r)
    <2>1. AfterBatch(r) \in Places
        BY <1>0 DEF AfterBatch, Places
    <2>2. frame' \in [Requests -> Frames]
        <3>1. CASE frame[r].calls = <<>> \/ Steps(r) >= MaxSteps
            BY <1>a, <1>4, <2>1, <3>1, GoTyped DEF Call
        <3>2. CASE ~(frame[r].calls = <<>> \/ Steps(r) >= MaxSteps)
            <4>1. Head(frame[r].calls) \in Tools /\ Tail(frame[r].calls) \in Seq(Tools)
                BY <1>b, <3>2 DEF Frames
            <4> QED BY <1>a, <1>4, <3>2, <4>1, StartTyped DEF Call
        <3> QED BY <3>1, <3>2
    <2> QED BY <1>b, <1>4, <2>2 DEF Call
<1>5. CASE RunTool(r)
    <2>1. ASSUME NEW o \in Outcomes, Finish(r, o, 0)
          PROVE  frame' \in [Requests -> Frames] /\ outputs' \in [Requests -> Seq(Outputs)]
        BY <1>a, <2>1, FinishTyped
    <2>2. ASSUME Go(r, "statement"), UNCHANGED outputs
          PROVE  frame' \in [Requests -> Frames] /\ outputs' \in [Requests -> Seq(Outputs)]
        BY <1>a, <1>b, <2>2, GoTyped DEF Places
    <2>3. frame' \in [Requests -> Frames] /\ outputs' \in [Requests -> Seq(Outputs)]
        BY <1>5, <2>1, <2>2 DEF RunTool, FromPrior, Outcomes
    <2> QED BY <1>b, <1>5, <2>3 DEF RunTool
<1>6. CASE RunStatement(r)
    <2>1. ASSUME NEW o \in Outcomes, Finish(r, o, 1)
          PROVE  frame' \in [Requests -> Frames] /\ outputs' \in [Requests -> Seq(Outputs)]
        BY <1>a, <2>1, FinishTyped
    <2>2. ASSUME frame' = [frame EXCEPT ![r].at = "rewrite", ![r].attempts = @ + 1],
                 UNCHANGED outputs
          PROVE  frame' \in [Requests -> Frames] /\ outputs' \in [Requests -> Seq(Outputs)]
        <3>1. frame[r].attempts + 1 \in Nat
            BY <1>b DEF Frames
        <3>2. \A m \in Nat : [frame[r] EXCEPT !.at = "rewrite", !.attempts = m] \in Frames
            BY <1>b DEF Frames, Places
        <3>3. [frame[r] EXCEPT !.at = "rewrite", !.attempts = @ + 1] \in Frames
            BY <3>1, <3>2
        <3> QED BY <1>b, <2>2, <3>3
    <2>3. frame' \in [Requests -> Frames] /\ outputs' \in [Requests -> Seq(Outputs)]
        BY <1>6, <2>1, <2>2 DEF RunStatement, Outcomes
    <2> QED BY <1>b, <1>6, <2>3 DEF RunStatement
<1>7. CASE Rewrite(r)
    <2>1. ASSUME Finish(r, "failed", 0)
          PROVE  frame' \in [Requests -> Frames] /\ outputs' \in [Requests -> Seq(Outputs)]
        BY <1>a, <2>1, FinishTyped DEF Outcomes
    <2>2. ASSUME frame' = [frame EXCEPT ![r].at = "statement", ![r].rewrites = @ + 1],
                 UNCHANGED outputs
          PROVE  frame' \in [Requests -> Frames] /\ outputs' \in [Requests -> Seq(Outputs)]
        <3>1. frame[r].rewrites + 1 \in 0..MaxRewrites
            BY <1>a, <1>b, <1>7, RewritesAssumption DEF Rewrite, RunInv, AttemptsInBudget, Frames
        <3>2. \A k \in 0..MaxRewrites : [frame[r] EXCEPT !.at = "statement", !.rewrites = k] \in Frames
            BY <1>b DEF Frames, Places
        <3>3. [frame[r] EXCEPT !.at = "statement", !.rewrites = @ + 1] \in Frames
            BY <3>1, <3>2
        <3> QED BY <1>b, <2>2, <3>3
    <2>3. frame' \in [Requests -> Frames] /\ outputs' \in [Requests -> Seq(Outputs)]
        BY <1>7, <2>1, <2>2 DEF Rewrite
    <2> QED BY <1>b, <1>7, <2>3 DEF Rewrite
<1>8. CASE Correct(r)
    <2>1. ASSUME NEW t \in Tools, Start(r, t, "corrected", frame[r].calls)
          PROVE  frame' \in [Requests -> Frames]
        <3>1. frame[r].calls \in Seq(Tools)
            BY <1>b DEF Frames
        <3> QED BY <1>a, <2>1, <3>1, StartTyped
    <2>2. ASSUME Go(r, AfterSchedule(r, Steps(r)))
          PROVE  frame' \in [Requests -> Frames]
        BY <1>0, <1>a, <2>2, GoTyped
    <2>3. frame' \in [Requests -> Frames]
        BY <1>8, <2>1, <2>2 DEF Correct
    <2> QED BY <1>b, <1>8, <2>3 DEF Correct
<1>9. CASE Replan(r)
    <2>1. ASSUME Go(r, "synthesize") \/ Go(r, AfterSchedule(r, Steps(r)))
          PROVE  frame' \in [Requests -> Frames]
        BY <1>0, <1>a, <2>1, GoTyped DEF Places
    <2>2. ASSUME NEW t \in Tools, frame' = [frame EXCEPT ![r].at = "call", ![r].calls = <<t>>]
          PROVE  frame' \in [Requests -> Frames]
        <3>1. [frame[r] EXCEPT !.at = "call", !.calls = <<t>>] \in Frames
            <4>1. <<t>> \in Seq(Tools)
                OBVIOUS
            <4> QED BY <1>b, <4>1 DEF Frames, Places
        <3> QED BY <1>b, <2>2, <3>1
    <2>3. frame' \in [Requests -> Frames]
        BY <1>9, <2>1, <2>2 DEF Replan
    <2>4. result' \in [Requests -> Results]
        <3>1. ASSUME NEW a \in {"replan", "question"}, result' = [result EXCEPT ![r].answer = a]
              PROVE  result' \in [Requests -> Results]
            BY <1>b, <3>1 DEF Results
        <3>2. ASSUME result' = [result EXCEPT ![r].replans = @ + 1]
              PROVE  result' \in [Requests -> Results]
            <4>1. result[r].replans + 1 \in Nat
                BY <1>b DEF Results
            <4>2. \A n \in Nat : [result[r] EXCEPT !.replans = n] \in Results
                BY <1>b DEF Results
            <4> QED BY <1>b, <3>2, <4>1, <4>2
        <3> QED BY <1>9, <1>b, <3>1, <3>2 DEF Replan
    <2> QED BY <1>b, <1>9, <2>3, <2>4 DEF Replan
<1>10. CASE Reflect(r)
    <2>1. ASSUME Go(r, "synthesize")
          PROVE  frame' \in [Requests -> Frames]
        BY <1>a, <2>1, GoTyped DEF Places
    <2>2. ASSUME NEW t \in Tools, Start(r, t, "followup", <<>>)
          PROVE  frame' \in [Requests -> Frames]
        <3>1. <<>> \in Seq(Tools) /\ "followup" \in {"planned", "corrected", "followup"}
            OBVIOUS
        <3> QED BY <1>a, <2>2, <3>1, StartTyped
    <2>3. frame' \in [Requests -> Frames]
        BY <1>10, <2>1, <2>2 DEF Reflect
    <2>4. result' \in [Requests -> Results]
        <3>1. ASSUME NEW v \in {"none", "sufficient", "insufficient", "followed"},
                     result' = [result EXCEPT ![r].reflection = v]
              PROVE  result' \in [Requests -> Results]
            BY <1>b, <3>1 DEF Results
        <3> QED BY <1>10, <3>1 DEF Reflect
    <2> QED BY <1>b, <1>10, <2>3, <2>4 DEF Reflect
<1>11. CASE Synthesize(r)
    <2>1. frame' \in [Requests -> Frames]
        BY <1>11, <1>a, GoTyped DEF Synthesize, Places
    <2>2. Errs(r) \in BOOLEAN
        BY DEF Errs
    <2>3. Concluded(r) \in {"none", "direct", "question", "replan", "chitchat", "data", "error"}
        BY <1>b DEF Concluded, Results
    <2>4. ASSUME NEW e \in BOOLEAN, NEW a \in {result[r].answer, Concluded(r)},
                 result' = [result EXCEPT ![r].error = e, ![r].answer = a]
          PROVE  result' \in [Requests -> Results]
        BY <1>b, <2>3, <2>4 DEF Results
    <2>5. result' \in [Requests -> Results]
        BY <1>11, <2>2, <2>4 DEF Synthesize
    <2> QED BY <1>b, <1>11, <2>1, <2>5 DEF Synthesize
<1> QED BY <1>1, <1>2, <1>3, <1>4, <1>5, <1>6, <1>7, <1>8, <1>9, <1>10, <1>11 DEF Step

-----------------------------------------------------------------------------
(* Every action keeps the invariant of its run *)

\* What a move to another place leaves alone.
LEMMA GoFields ==
    ASSUME TypeOK, NEW r \in Requests, NEW p, Go(r, p)
    PROVE  /\ frame'[r].at = p
           /\ frame'[r].calls = frame[r].calls
           /\ frame'[r].tool = frame[r].tool
           /\ frame'[r].as = frame[r].as
           /\ frame'[r].rewrites = frame[r].rewrites
           /\ frame'[r].attempts = frame[r].attempts
<1>1. frame \in [Requests -> Frames] /\ frame[r] \in Frames
    BY DEF TypeOK
<1> QED BY <1>1 DEF Go, Frames

LEMMA StartFields ==
    ASSUME TypeOK, NEW r \in Requests, NEW t, NEW a, NEW c, Start(r, t, a, c)
    PROVE  /\ frame'[r].at = "tool"
           /\ frame'[r].tool = t
           /\ frame'[r].calls = c
           /\ frame'[r].as = a
           /\ frame'[r].rewrites = 0
           /\ frame'[r].attempts = frame[r].attempts
<1>1. frame \in [Requests -> Frames] /\ frame[r] \in Frames
    BY DEF TypeOK
<1> QED BY <1>1 DEF Start, Frames

\* The share of statements grows with the steps.
LEMMA Shares ==
    ASSUME NEW n \in Nat, NEW m \in Nat, n <= m, m <= MaxSteps
    PROVE  /\ n * Share \in Nat
           /\ (n + 1) * Share = n * Share + Share
           /\ n * Share <= m * Share
           /\ Share \in Nat
<1>1. MaxSteps \in {3, 4, 5}
    BY StepsAssumption
<1>2. n \in {0, 1, 2, 3, 4, 5} /\ m \in {0, 1, 2, 3, 4, 5}
    BY <1>1
<1>3. Share \in Nat
    BY RewritesAssumption DEF Share
<1>4. (n + 1) * Share = n * Share + Share /\ n * Share \in Nat
    BY <1>2, <1>3
<1>5. n * Share <= m * Share
    BY <1>2, <1>3
<1> QED BY <1>3, <1>4, <1>5

\* The end of a call.
LEMMA FinishKeeps ==
    ASSUME TypeOK, NEW r \in Requests, RunInv(r), Executing(r),
           NEW o \in Outcomes, NEW n \in 0..1, n = 1 => frame[r].at = "statement",
           Finish(r, o, n), llm' = llm, result' = result
    PROVE  RunInv(r)'
<1>1. /\ frame \in [Requests -> Frames] /\ frame[r] \in Frames
      /\ outputs \in [Requests -> Seq(Outputs)] /\ outputs[r] \in Seq(Outputs)
      /\ result[r] \in Results
    BY DEF TypeOK
<1>2. Steps(r) \in Nat /\ Steps(r) < MaxSteps
    BY <1>1 DEF Steps, RunInv, InBudget
<1>3. /\ frame'[r].at = AfterCall(r, o)
      /\ frame'[r].attempts = frame[r].attempts + n
    BY <1>1 DEF Finish, Frames
<1>4. /\ Steps(r)' = Steps(r) + 1
      /\ \A i \in 1..Steps(r) : outputs'[r][i] = outputs[r][i]
      /\ outputs'[r][Steps(r) + 1].outcome = o
      /\ outputs'[r] # <<>>
    <2> DEFINE x == [tool |-> frame[r].tool, outcome |-> o]
    <2>1. outputs'[r] = Append(outputs[r], x)
        BY <1>1 DEF Finish
    <2>2. x \in Outputs
        BY <1>1 DEF Frames, Outputs
    <2>3. x.outcome = o
        OBVIOUS
    <2> HIDE DEF x
    <2>4. Len(outputs'[r]) = Len(outputs[r]) + 1 /\ outputs'[r] # <<>>
        <3>1. Len(outputs'[r]) = Len(outputs[r]) + 1
            BY <1>1, <2>1, <2>2
        <3>2. Len(outputs[r]) \in Nat /\ Len(<<>>) = 0
            BY <1>1
        <3> QED BY <3>1, <3>2
    <2>5. \A i \in 1..Len(outputs[r]) : outputs'[r][i] = outputs[r][i]
        BY <1>1, <2>1, <2>2
    <2>6. outputs'[r][Len(outputs[r]) + 1] = x
        BY <1>1, <2>1, <2>2
    <2> QED BY <2>3, <2>4, <2>5, <2>6 DEF Steps
<1>5. \/ frame[r].as = "followup" /\ frame'[r].at = "synthesize"
      \/ frame[r].as # "followup" /\ o \notin Failures /\ frame'[r].at = "call"
      \/ /\ frame[r].as = "planned" /\ o = "failed" /\ Steps(r) + 1 < MaxSteps
         /\ frame'[r].at = "correct"
      \/ /\ frame[r].as # "followup" /\ o \in Failures
         /\ \/ frame'[r].at = "reflect" /\ Steps(r) + 1 < MaxSteps
            \/ frame'[r].at = "synthesize"
    <2>1. Steps(r) + 1 \in Nat
        BY <1>2
    <2> QED BY <1>2, <1>3, <2>1, EndOfCall, EndOfSchedule
<1>6. InBudget(r)'
    BY <1>2, <1>4, <1>5, StepsAssumption DEF InBudget, Executing
<1>7. AttemptsInBudget(r)'
    <2>1. frame[r].rewrites \in 0..MaxRewrites /\ frame[r].attempts \in Nat
        BY <1>1 DEF Frames
    <2>2. frame'[r].at \in {"synthesize", "call", "correct", "reflect"}
        BY <1>5
    <2>3. /\ Share = MaxRewrites + 1 /\ Share' = Share
          /\ (Steps(r) + 1) * Share = Steps(r) * Share + Share
          /\ Steps(r) * Share \in Nat
        BY <1>2, Shares, StepsAssumption DEF Share
    <2>4. frame[r].attempts + n <= Steps(r) * Share + Share
        <3>1. CASE frame[r].at = "statement"
            BY <2>1, <2>3, <3>1, RewritesAssumption DEF RunInv, AttemptsInBudget
        <3>2. CASE frame[r].at = "rewrite"
            BY <2>1, <2>3, <3>2, RewritesAssumption DEF RunInv, AttemptsInBudget
        <3>3. CASE frame[r].at = "tool"
            BY <2>1, <2>3, <3>3, RewritesAssumption DEF RunInv, AttemptsInBudget
        <3> QED BY <3>1, <3>2, <3>3 DEF Executing
    <2>5. frame'[r].attempts <= Steps(r)' * Share'
        BY <1>3, <1>4, <2>3, <2>4
    <2>6. Steps(r)' * Share' \in Nat
        BY <1>4, <2>3, RewritesAssumption
    <2> QED BY <2>2, <2>5, <2>6 DEF AttemptsInBudget
<1>8. ReplansInBudget(r)'
    BY <1>1, <1>2, <1>4 DEF RunInv, ReplansInBudget, Results
<1>9. Trajectory(r)'
    <2>0. PICK k \in Nat : k = Steps(r)
        BY <1>2
    <2>1. /\ Steps(r)' = k + 1
          /\ \A i \in 1..k : Fails(r, i)' <=> Fails(r, i)
          /\ \A i \in 1..k : outputs'[r][i].outcome = outputs[r][i].outcome
          /\ outputs'[r][k + 1].outcome = o
          /\ Fails(r, k + 1)' <=> o \in Failures
        BY <1>4, <2>0 DEF Fails, Succeeded
    <2>2. Open(r)
        BY DEF RunInv, Trajectory, Executing
    <2>a. Fine(r) => (k > 0 => ~Fails(r, k))
        BY <1>1, <2>0 DEF Fine, LastSucceeded, Fails, Steps
    <2>b. Reparable(r) => /\ k > 0 /\ outputs[r][k].outcome = "failed"
                          /\ k > 1 => ~Fails(r, k - 1)
        BY <1>1, <2>0 DEF Reparable, Steps
    <2>c. /\ frame[r].as \in {"planned", "corrected", "followup"}
          /\ frame[r].as = "planned" => (k > 0 => ~Fails(r, k))
          /\ frame[r].as = "corrected" => /\ llm /\ k > 0 /\ outputs[r][k].outcome = "failed"
                                          /\ k > 1 => ~Fails(r, k - 1)
          /\ frame[r].as = "followup" => llm
        BY <1>1, <2>a, <2>b DEF RunInv, Trajectory, Frames
    <2>d. \A i \in 1..(k - 1) :
              Fails(r, i) => /\ llm
                             /\ outputs[r][i].outcome # "denied"
                             /\ i + 1 < k => ~Fails(r, i + 1)
        BY <2>0, <2>2 DEF Open
    <2>e. /\ Fails(r, k) /\ k > 0 => llm
          /\ frame[r].as # "followup" /\ Fails(r, k) /\ k > 0 => outputs[r][k].outcome = "failed"
        <3>1. CASE frame[r].as = "planned"
            BY <2>c, <3>1
        <3>2. CASE frame[r].as = "corrected"
            <4>1. llm
                BY <2>c, <3>2, Zenon
            <4>2. outputs[r][k].outcome = "failed"
                BY <2>c, <3>2, Zenon
            <4> QED BY <4>1, <4>2, Zenon
        <3>3. CASE frame[r].as = "followup"
            BY <2>c, <3>3
        <3> QED BY <2>c, <3>1, <3>2, <3>3
    <2>3. Stops(r)'
        <3> SUFFICES ASSUME NEW i \in 1..(k + 1), Fails(r, i)'
                     PROVE  /\ ~llm => i = k + 1
                            /\ outputs'[r][i].outcome = "denied" => k + 1 <= i + 1
                            /\ i < k + 1 /\ Fails(r, i + 1)' => k + 1 <= i + 2
            BY <2>1 DEF Stops
        <3>1. CASE i = k + 1
            BY <3>1
        <3>2. CASE i = k
            <4>1. k \in 1..k /\ Fails(r, k)
                BY <2>1, <3>2 DEF Fails
            <4>2. llm
                BY <2>e, <4>1
            <4> QED BY <3>2, <4>2
        <3>3. CASE i < k
            BY <2>1, <2>d, <3>3
        <3> QED BY <3>1, <3>2, <3>3
    <2>4. frame[r].as # "followup" => Open(r)'
        <3> SUFFICES ASSUME frame[r].as # "followup", NEW i \in 1..k, Fails(r, i)'
                     PROVE  /\ llm /\ outputs'[r][i].outcome # "denied"
                            /\ i + 1 < k + 1 => ~Fails(r, i + 1)'
            BY <2>1 DEF Open
        <3>0. frame[r].as # "followup"
            OBVIOUS
        <3>1. CASE i = k
            <4>1. k \in 1..k /\ Fails(r, k)
                BY <2>1, <3>1 DEF Fails
            <4>2. outputs'[r][k].outcome = outputs[r][k].outcome
                BY <2>1, <4>1
            <4>3. llm /\ outputs[r][k].outcome # "denied"
                BY <2>e, <4>1
            <4> QED BY <3>1, <4>2, <4>3
        <3>2. CASE i < k
            <4>1. CASE i + 1 < k
                BY <2>1, <2>d, <3>2, <4>1
            <4>2. CASE i + 1 = k
                <5>1. i \in 1..(k - 1) /\ Fails(r, i) /\ i = k - 1 /\ k > 1 /\ k \in 1..k
                    BY <2>1, <3>2, <4>2
                <5>2. llm /\ outputs'[r][i].outcome # "denied"
                    BY <2>1, <2>d, <3>2, <5>1
                <5>3. Fails(r, k - 1)
                    BY <5>1, Zenon
                <5>4. ~Fails(r, k)
                    <6>1. CASE frame[r].as = "planned"
                        BY <2>c, <5>1, <6>1
                    <6>2. CASE frame[r].as = "corrected"
                        BY <2>c, <5>1, <5>3, <6>2, Zenon
                    <6> QED BY <2>c, <3>0, <6>1, <6>2
                <5>5. ~Fails(r, k)'
                    BY <2>1, <5>1, <5>4, Zenon
                <5>6. ~Fails(r, i + 1)'
                    BY <4>2, <5>5 DEF Fails
                <5> QED BY <5>2, <5>6, Zenon
            <4> QED BY <3>2, <4>1, <4>2
        <3> QED BY <3>1, <3>2
    <2>5. o \notin Failures => Fine(r)'
        BY <2>1 DEF Fine, LastSucceeded, Succeeded
    <2>6. frame[r].as = "planned" /\ o = "failed" => Reparable(r)'
        BY <1>4, <2>1, <2>c DEF Reparable
    <2> QED BY <1>5, <2>3, <2>4, <2>5, <2>6 DEF Trajectory, Executing
<1>10. Answering(r)'
    BY <1>5 DEF RunInv, Answering, Executing
<1> QED BY <1>6, <1>7, <1>8, <1>9, <1>10 DEF RunInv

\* What depends on the outputs of a run only.
LEMMA SameOutputs ==
    ASSUME NEW r \in Requests, outputs'[r] = outputs[r], llm' = llm
    PROVE  /\ Steps(r)' = Steps(r)
           /\ Stops(r) => Stops(r)'
           /\ Open(r) => Open(r)'
           /\ Fine(r) => Fine(r)'
           /\ Reparable(r) => Reparable(r)'
           /\ LastSucceeded(r)' <=> LastSucceeded(r)
<1>1. Steps(r)' = Steps(r)
    BY DEF Steps
<1>2. ASSUME NEW i PROVE Fails(r, i)' <=> Fails(r, i)
    BY DEF Fails, Succeeded
<1>3. Stops(r) => Stops(r)'
    BY <1>1, <1>2 DEF Stops
<1>4. Open(r) => Open(r)'
    BY <1>1, <1>2 DEF Open
<1>5. Fine(r) => Fine(r)'
    BY <1>1 DEF Fine, LastSucceeded, Succeeded
<1>6. Reparable(r) => Reparable(r)'
    BY DEF Reparable, Steps, Fails, Succeeded
<1>7. LastSucceeded(r)' <=> LastSucceeded(r)
    BY <1>1 DEF LastSucceeded, Succeeded
<1> QED BY <1>1, <1>3, <1>4, <1>5, <1>6, <1>7

\* Where no budget is touched.
LEMMA IdleKeeps ==
    ASSUME TypeOK, TypeOK', NEW r \in Requests, RunInv(r), outputs'[r] = outputs[r], llm' = llm,
           frame'[r].attempts = frame[r].attempts,
           frame[r].at \notin {"statement", "rewrite"},
           \/ frame'[r].at \notin {"statement", "rewrite", "tool"}
           \/ frame'[r].at \in {"tool", "statement"} /\ frame'[r].rewrites = 0
    PROVE  AttemptsInBudget(r)'
<1>1. Steps(r)' = Steps(r) /\ Share' = Share
    BY SameOutputs DEF Share
<1>2. frame[r].attempts <= Steps(r) * Share + 0
    BY DEF RunInv, AttemptsInBudget
<1> QED BY <1>1, <1>2 DEF AttemptsInBudget

\* A step of a run keeps the invariant of that run.
LEMMA StepKeeps ==
    ASSUME IInv, NEW r \in Requests, Step(r)
    PROVE  RunInv(r)'
<1>a. TypeOK /\ TypeOK' /\ RunInv(r)
    BY TypeStep DEF IInv
<1>b. /\ frame \in [Requests -> Frames] /\ frame[r] \in Frames
      /\ outputs \in [Requests -> Seq(Outputs)]
      /\ result \in [Requests -> Results] /\ result[r] \in Results
    BY <1>a DEF TypeOK
<1>c. llm' = llm
    BY DEF Step, StoreHistory, StoreLastDsl, PlanInherited, Plan, Call, RunTool, RunStatement,
           Rewrite, Correct, Replan, Reflect, Synthesize
<1>d. Steps(r) \in Nat /\ MaxSteps \in Nat
    BY <1>b, StepsAssumption DEF Steps
<1>1. CASE StoreHistory(r) \/ StoreLastDsl(r)
    <2>1. /\ frame[r].at \in {"store", "stored"} /\ frame'[r].at \in {"stored", "plan"}
          /\ frame'[r].attempts = frame[r].attempts /\ outputs' = outputs /\ result' = result
        BY <1>a, <1>1, GoFields DEF StoreHistory, StoreLastDsl
    <2> QED BY <1>a, <1>c, <2>1, SameOutputs, IdleKeeps
            DEF RunInv, InBudget, ReplansInBudget, Trajectory, Answering, Executing
<1>2. CASE PlanInherited(r)
    <2>1. /\ frame[r].at = "plan" /\ frame'[r].at = "call"
          /\ frame'[r].attempts = frame[r].attempts /\ outputs' = outputs /\ result' = result
        BY <1>b, <1>2 DEF PlanInherited, Frames
    <2> QED BY <1>a, <1>c, <2>1, SameOutputs, IdleKeeps
            DEF RunInv, InBudget, ReplansInBudget, Trajectory, Answering, Executing
<1>3. CASE Plan(r)
    <2>1. /\ frame[r].at = "plan" /\ frame'[r].attempts = frame[r].attempts /\ outputs' = outputs
          /\ result'[r].replans = result[r].replans
          /\ \/ frame'[r].at = "call" /\ result' = result
             \/ /\ frame'[r].at = "done" /\ result'[r].answer # "none"
                /\ result'[r].error <=> result'[r].answer = "error"
        <3>1. frame[r].at = "plan" /\ outputs' = outputs
            BY <1>3 DEF Plan
        <3>2. ASSUME NEW c \in FirstPlans, UNCHANGED result,
                     frame' = [frame EXCEPT ![r].at = "call", ![r].calls = c,
                                            ![r].plannedOn = shared]
              PROVE  /\ frame'[r].at = "call" /\ frame'[r].attempts = frame[r].attempts
                     /\ result' = result
            BY <1>b, <3>2 DEF Frames
        <3>3. ASSUME NEW a \in {"direct", "question", "error"},
                     frame' = [frame EXCEPT ![r].at = "done", ![r].plannedOn = shared],
                     result' = [result EXCEPT ![r].answer = a, ![r].error = (a = "error")]
              PROVE  /\ frame'[r].at = "done" /\ frame'[r].attempts = frame[r].attempts
                     /\ result'[r].replans = result[r].replans
                     /\ result'[r].answer # "none"
                     /\ result'[r].error <=> result'[r].answer = "error"
            BY <1>b, <3>3 DEF Frames, Results
        <3> QED BY <1>3, <3>1, <3>2, <3>3 DEF Plan
    <2>2. (outputs'[r] = <<>> /\ Told(r)') \/ frame'[r].at = "call"
        BY <1>a, <2>1 DEF RunInv, Answering, Told
    <2> QED BY <1>a, <1>c, <2>1, <2>2, SameOutputs, IdleKeeps
            DEF RunInv, InBudget, ReplansInBudget, Trajectory, Answering, Executing
<1>4. CASE Call(r)
    <2>0. /\ frame[r].at = "call" /\ outputs' = outputs /\ result' = result
        BY <1>4 DEF Call
    <2>1. CASE frame[r].calls = <<>> \/ Steps(r) >= MaxSteps
        <3>1. /\ frame'[r].at = AfterBatch(r) /\ frame'[r].attempts = frame[r].attempts
            BY <1>a, <1>4, <2>1, GoFields DEF Call
        <3>2. \/ frame'[r].at \in {"replan", "reflect"} /\ Steps(r) < MaxSteps
              \/ frame'[r].at = "synthesize"
            BY <1>a, <1>d, <3>1, EndOfSchedule DEF AfterBatch
        <3>3. result[r].replans <= Steps(r)
            BY <1>a, <1>b, <1>d, <2>0, <2>1 DEF RunInv, ReplansInBudget, Executing, Results
        <3>4. Steps(r)' = Steps(r) /\ AttemptsInBudget(r)'
            BY <1>a, <1>c, <2>0, <3>1, <3>2, SameOutputs, IdleKeeps
        <3>5. InBudget(r)' /\ ReplansInBudget(r)'
            BY <1>a, <1>b, <1>d, <2>0, <3>2, <3>3, <3>4
            DEF RunInv, InBudget, ReplansInBudget, Executing, Results
        <3>6. Trajectory(r)' /\ Answering(r)'
            BY <1>a, <1>c, <2>0, <3>2, SameOutputs DEF RunInv, Trajectory, Answering, Executing
        <3> QED BY <3>4, <3>5, <3>6 DEF RunInv
    <2>2. CASE ~(frame[r].calls = <<>> \/ Steps(r) >= MaxSteps)
        <3>1. /\ frame'[r].at = "tool" /\ frame'[r].as = "planned" /\ frame'[r].rewrites = 0
              /\ frame'[r].attempts = frame[r].attempts
            BY <1>a, <1>4, <2>2, StartFields DEF Call
        <3>2. Steps(r) < MaxSteps
            BY <1>d, <2>2
        <3>3. Steps(r)' = Steps(r) /\ AttemptsInBudget(r)'
            BY <1>a, <1>c, <2>0, <3>1, SameOutputs, IdleKeeps
        <3>4. InBudget(r)' /\ ReplansInBudget(r)'
            BY <1>a, <2>0, <3>1, <3>2, <3>3 DEF RunInv, InBudget, ReplansInBudget, Executing
        <3>5. Trajectory(r)' /\ Answering(r)'
            BY <1>a, <1>c, <2>0, <3>1, SameOutputs DEF RunInv, Trajectory, Answering, Executing
        <3> QED BY <3>3, <3>4, <3>5 DEF RunInv
    <2> QED BY <2>1, <2>2
<1>5. CASE RunTool(r)
    <2>1. Executing(r) /\ result' = result
        BY <1>5 DEF RunTool, Executing
    <2>2. ASSUME NEW o \in Outcomes, Finish(r, o, 0) PROVE RunInv(r)'
        BY <1>a, <1>c, <2>1, <2>2, FinishKeeps
    <2>3. ASSUME Go(r, "statement"), UNCHANGED outputs PROVE RunInv(r)'
        <3>1. /\ frame'[r].at = "statement" /\ frame'[r].as = frame[r].as
              /\ frame'[r].rewrites = frame[r].rewrites
              /\ frame'[r].attempts = frame[r].attempts
            BY <1>a, <2>3, GoFields
        <3>2. frame[r].at = "tool" /\ frame[r].rewrites = 0
            BY <1>a, <1>5 DEF RunTool, RunInv, AttemptsInBudget
        <3>3. Steps(r)' = Steps(r) /\ AttemptsInBudget(r)'
            BY <1>a, <1>c, <2>3, <3>1, <3>2, SameOutputs, IdleKeeps
        <3>4. InBudget(r)' /\ ReplansInBudget(r)'
            BY <1>a, <2>1, <3>1, <3>2, <3>3 DEF RunInv, InBudget, ReplansInBudget, Executing
        <3>5. Trajectory(r)' /\ Answering(r)'
            BY <1>a, <1>c, <2>1, <2>3, <3>1, <3>2, SameOutputs
            DEF RunInv, Trajectory, Answering, Executing
        <3> QED BY <3>3, <3>4, <3>5 DEF RunInv
    <2> QED BY <1>5, <2>2, <2>3 DEF RunTool, FromPrior, Outcomes
<1>6. CASE RunStatement(r)
    <2>1. frame[r].at = "statement" /\ Executing(r) /\ result' = result
        BY <1>6 DEF RunStatement, Executing
    <2>2. ASSUME NEW o \in Outcomes, Finish(r, o, 1) PROVE RunInv(r)'
        BY <1>a, <1>c, <2>1, <2>2, FinishKeeps
    <2>3. ASSUME CanRewrite(r), UNCHANGED outputs,
                 frame' = [frame EXCEPT ![r].at = "rewrite", ![r].attempts = @ + 1]
          PROVE  RunInv(r)'
        <3>1. /\ frame'[r].at = "rewrite" /\ frame'[r].as = frame[r].as
              /\ frame'[r].rewrites = frame[r].rewrites
              /\ frame'[r].attempts = frame[r].attempts + 1
            BY <1>b, <2>3 DEF Frames
        <3>2. Steps(r)' = Steps(r)
            BY <1>c, <2>3, SameOutputs
        <3>3. AttemptsInBudget(r)'
            <4>1. Steps(r) * Share \in Nat /\ Share' = Share
                BY <1>a, <1>d, Shares DEF RunInv, InBudget, Share
            <4>2. frame[r].attempts <= Steps(r) * Share + frame[r].rewrites
                BY <1>a, <2>1 DEF RunInv, AttemptsInBudget
            <4>3. frame[r].rewrites \in Nat /\ frame[r].attempts \in Nat
                BY <1>b, RewritesAssumption DEF Frames
            <4>4. frame'[r].attempts <= Steps(r) * Share + (frame'[r].rewrites + 1)
                BY <3>1, <4>1, <4>2, <4>3
            <4> QED BY <2>3, <3>1, <3>2, <4>1, <4>4 DEF AttemptsInBudget, CanRewrite
        <3>4. InBudget(r)' /\ ReplansInBudget(r)'
            BY <1>a, <2>1, <3>1, <3>2 DEF RunInv, InBudget, ReplansInBudget, Executing
        <3>5. Trajectory(r)' /\ Answering(r)'
            BY <1>a, <1>c, <2>1, <2>3, <3>1, SameOutputs
            DEF RunInv, Trajectory, Answering, Executing
        <3> QED BY <3>3, <3>4, <3>5 DEF RunInv
    <2> QED BY <1>6, <2>2, <2>3 DEF RunStatement, Outcomes
<1>7. CASE Rewrite(r)
    <2>1. frame[r].at = "rewrite" /\ Executing(r) /\ result' = result
        BY <1>7 DEF Rewrite, Executing
    <2>2. ASSUME Finish(r, "failed", 0) PROVE RunInv(r)'
        BY <1>a, <1>c, <2>1, <2>2, FinishKeeps DEF Outcomes
    <2>3. ASSUME UNCHANGED outputs,
                 frame' = [frame EXCEPT ![r].at = "statement", ![r].rewrites = @ + 1]
          PROVE  RunInv(r)'
        <3>1. /\ frame'[r].at = "statement" /\ frame'[r].as = frame[r].as
              /\ frame'[r].rewrites = frame[r].rewrites + 1
              /\ frame'[r].attempts = frame[r].attempts
            BY <1>b, <2>3 DEF Frames
        <3>2. Steps(r)' = Steps(r) /\ Share' = Share
            BY <1>c, <2>3, SameOutputs DEF Share
        <3>3. AttemptsInBudget(r)'
            BY <1>a, <2>1, <3>1, <3>2 DEF RunInv, AttemptsInBudget
        <3>4. InBudget(r)' /\ ReplansInBudget(r)'
            BY <1>a, <2>1, <3>1, <3>2 DEF RunInv, InBudget, ReplansInBudget, Executing
        <3>5. Trajectory(r)' /\ Answering(r)'
            BY <1>a, <1>c, <2>1, <2>3, <3>1, SameOutputs
            DEF RunInv, Trajectory, Answering, Executing
        <3> QED BY <3>3, <3>4, <3>5 DEF RunInv
    <2> QED BY <1>7, <2>2, <2>3 DEF Rewrite
<1>8. CASE Correct(r)
    <2>1. frame[r].at = "correct" /\ outputs' = outputs /\ result' = result
        BY <1>8 DEF Correct
    <2>2. ASSUME llm, NEW t \in Tools, Start(r, t, "corrected", frame[r].calls) PROVE RunInv(r)'
        <3>1. /\ frame'[r].at = "tool" /\ frame'[r].as = "corrected" /\ frame'[r].rewrites = 0
              /\ frame'[r].attempts = frame[r].attempts
            BY <1>a, <2>2, StartFields
        <3>2. Steps(r)' = Steps(r) /\ AttemptsInBudget(r)'
            BY <1>a, <1>c, <2>1, <3>1, SameOutputs, IdleKeeps
        <3>3. InBudget(r)' /\ ReplansInBudget(r)'
            BY <1>a, <2>1, <3>1, <3>2 DEF RunInv, InBudget, ReplansInBudget, Executing
        <3>4. Answering(r)'
            BY <1>a, <2>1, <3>1 DEF RunInv, Answering
        <3>5. Stops(r)' /\ Open(r)' /\ Reparable(r)' /\ llm'
            BY <1>a, <1>c, <2>1, <2>2, SameOutputs DEF RunInv, Trajectory
        <3>6. Trajectory(r)'
            BY <3>1, <3>5 DEF Trajectory, Executing
        <3> QED BY <3>2, <3>3, <3>4, <3>6 DEF RunInv
    <2>3. ASSUME Go(r, AfterSchedule(r, Steps(r))) PROVE RunInv(r)'
        <3>1. /\ frame'[r].at = AfterSchedule(r, Steps(r))
              /\ frame'[r].attempts = frame[r].attempts
            BY <1>a, <2>3, GoFields
        <3>2. frame'[r].at \in {"reflect", "synthesize"}
            BY <1>a, <1>d, <3>1, EndOfSchedule
        <3>3. Steps(r)' = Steps(r) /\ AttemptsInBudget(r)'
            BY <1>a, <1>c, <2>1, <3>1, <3>2, SameOutputs, IdleKeeps
        <3>4. InBudget(r)' /\ ReplansInBudget(r)'
            BY <1>a, <2>1, <3>2, <3>3 DEF RunInv, InBudget, ReplansInBudget, Executing
        <3>5. Trajectory(r)' /\ Answering(r)'
            BY <1>a, <1>c, <2>1, <3>2, SameOutputs DEF RunInv, Trajectory, Answering, Executing
        <3> QED BY <3>3, <3>4, <3>5 DEF RunInv
    <2> QED BY <1>8, <2>2, <2>3 DEF Correct
<1>9. CASE Replan(r)
    <2>1. frame[r].at = "replan" /\ outputs' = outputs
        BY <1>9 DEF Replan
    <2>0. Steps(r) < MaxSteps /\ result[r].replans <= Steps(r) /\ result[r].replans \in Nat
        BY <1>a, <1>b, <1>d, <2>1 DEF RunInv, InBudget, ReplansInBudget, Executing, Results
    <2>2. ASSUME NEW a \in {"replan", "question"}, Go(r, "synthesize"),
                 result' = [result EXCEPT ![r].answer = a]
          PROVE  RunInv(r)'
        <3>1. frame'[r].at = "synthesize" /\ frame'[r].attempts = frame[r].attempts
            BY <1>a, <2>2, GoFields
        <3>2. /\ result'[r].answer = a /\ result'[r].error = result[r].error
              /\ result'[r].replans = result[r].replans
            BY <1>b, <2>2 DEF Results
        <3>3. Steps(r)' = Steps(r) /\ AttemptsInBudget(r)'
            BY <1>a, <1>c, <2>1, <3>1, SameOutputs, IdleKeeps
        <3>4. InBudget(r)' /\ ReplansInBudget(r)'
            BY <1>d, <2>0, <3>1, <3>2, <3>3 DEF InBudget, ReplansInBudget, Executing
        <3>5. Trajectory(r)'
            BY <1>a, <1>c, <2>1, <3>1, SameOutputs DEF RunInv, Trajectory, Executing
        <3>6. Fine(r)'
            BY <1>a, <1>c, <2>1, SameOutputs DEF RunInv, Trajectory
        <3>7. Answering(r)'
            BY <1>a, <2>1, <3>1, <3>2, <3>6 DEF RunInv, Answering
        <3> QED BY <3>3, <3>4, <3>5, <3>7 DEF RunInv
    <2>3. ASSUME Go(r, AfterSchedule(r, Steps(r))), UNCHANGED result PROVE RunInv(r)'
        <3>1. /\ frame'[r].at = AfterSchedule(r, Steps(r))
              /\ frame'[r].attempts = frame[r].attempts
            BY <1>a, <2>3, GoFields
        <3>2. frame'[r].at \in {"reflect", "synthesize"}
            BY <1>a, <1>d, <3>1, EndOfSchedule
        <3>3. Steps(r)' = Steps(r) /\ AttemptsInBudget(r)'
            BY <1>a, <1>c, <2>1, <3>1, <3>2, SameOutputs, IdleKeeps
        <3>4. InBudget(r)' /\ ReplansInBudget(r)'
            BY <1>d, <2>0, <2>3, <3>2, <3>3 DEF InBudget, ReplansInBudget, Executing
        <3>5. Trajectory(r)' /\ Answering(r)'
            BY <1>a, <1>c, <2>1, <2>3, <3>2, SameOutputs
            DEF RunInv, Trajectory, Answering, Executing
        <3> QED BY <3>3, <3>4, <3>5 DEF RunInv
    <2>4. ASSUME NEW t \in Tools,
                 frame' = [frame EXCEPT ![r].at = "call", ![r].calls = <<t>>],
                 result' = [result EXCEPT ![r].replans = @ + 1]
          PROVE  RunInv(r)'
        <3>1. /\ frame'[r].at = "call" /\ frame'[r].calls # <<>>
              /\ frame'[r].attempts = frame[r].attempts
            BY <1>b, <2>4 DEF Frames
        <3>2. /\ result'[r].answer = result[r].answer /\ result'[r].error = result[r].error
              /\ result'[r].replans = result[r].replans + 1
            BY <1>b, <2>4 DEF Results
        <3>3. Steps(r)' = Steps(r) /\ AttemptsInBudget(r)'
            BY <1>a, <1>c, <2>1, <3>1, SameOutputs, IdleKeeps
        <3>4. InBudget(r)' /\ ReplansInBudget(r)'
            BY <1>d, <2>0, <3>1, <3>2, <3>3 DEF InBudget, ReplansInBudget, Executing
        <3>5. Trajectory(r)'
            BY <1>a, <1>c, <2>1, <3>1, SameOutputs DEF RunInv, Trajectory, Executing
        <3>6. Answering(r)'
            BY <1>a, <2>1, <3>1, <3>2 DEF RunInv, Answering
        <3> QED BY <3>3, <3>4, <3>5, <3>6 DEF RunInv
    <2> QED BY <1>9, <2>2, <2>3, <2>4 DEF Replan
<1>10. CASE Reflect(r)
    <2>1. frame[r].at = "reflect" /\ outputs' = outputs
        BY <1>10 DEF Reflect
    <2>2. /\ result'[r].answer = result[r].answer /\ result'[r].error = result[r].error
          /\ result'[r].replans = result[r].replans
        BY <1>b, <1>10 DEF Reflect, Results
    <2>3. \/ frame'[r].at = "synthesize" /\ frame'[r].attempts = frame[r].attempts
          \/ /\ llm
             /\ frame'[r].at = "tool" /\ frame'[r].as = "followup" /\ frame'[r].rewrites = 0
             /\ frame'[r].attempts = frame[r].attempts
        BY <1>a, <1>10, GoFields, StartFields DEF Reflect
    <2>4. Steps(r)' = Steps(r) /\ AttemptsInBudget(r)'
        BY <1>a, <1>c, <2>1, <2>3, SameOutputs, IdleKeeps
    <2>5. InBudget(r)' /\ ReplansInBudget(r)'
        BY <1>a, <1>b, <1>d, <2>1, <2>2, <2>3, <2>4
        DEF RunInv, InBudget, ReplansInBudget, Executing, Results
    <2>6. Stops(r)' /\ Open(r)'
        BY <1>a, <1>c, <2>1, SameOutputs DEF RunInv, Trajectory
    <2>7. Trajectory(r)'
        <3>1. CASE frame'[r].at = "synthesize"
            BY <2>6, <3>1 DEF Trajectory, Executing
        <3>2. CASE frame'[r].at # "synthesize"
            <4>1. frame'[r].at = "tool" /\ frame'[r].as = "followup"
                BY <2>3, <3>2
            <4>2. llm
                BY <2>3, <3>2
            <4>3. llm'
                BY <1>c, <4>2
            <4> QED BY <2>6, <4>1, <4>3 DEF Trajectory, Executing
        <3> QED BY <3>1, <3>2
    <2>8. Answering(r)'
        BY <1>a, <2>1, <2>2, <2>3 DEF RunInv, Answering
    <2> QED BY <2>4, <2>5, <2>7, <2>8 DEF RunInv
<1>11. CASE Synthesize(r)
    <2>1. /\ frame[r].at = "synthesize" /\ outputs' = outputs
          /\ frame'[r].at = "done" /\ frame'[r].attempts = frame[r].attempts
        BY <1>a, <1>11, GoFields DEF Synthesize
    <2>2. result'[r].replans = result[r].replans
        BY <1>b, <1>11 DEF Synthesize, Results
    <2>3. Steps(r)' = Steps(r) /\ AttemptsInBudget(r)'
        BY <1>a, <1>c, <2>1, SameOutputs, IdleKeeps
    <2>4. InBudget(r)' /\ ReplansInBudget(r)'
        BY <1>a, <2>1, <2>2, <2>3 DEF RunInv, InBudget, ReplansInBudget, Executing
    <2>5. Trajectory(r)'
        BY <1>a, <1>c, <2>1, SameOutputs DEF RunInv, Trajectory, Executing
    <2>6. Answering(r)'
        <3>1. /\ result[r].answer \in {"none", "replan", "question"}
              /\ result[r].answer # "none" => Fine(r)
            BY <1>a, <2>1 DEF RunInv, Answering
        <3>2. LastSucceeded(r)' <=> LastSucceeded(r)
            BY <1>c, <2>1, SameOutputs
        <3>3. CASE result' = [result EXCEPT ![r].error = Errs(r), ![r].answer = Concluded(r)]
            <4>1. result'[r].error = Errs(r) /\ result'[r].answer = Concluded(r)
                BY <1>b, <3>3 DEF Results
            <4>2. Told(r)'
                BY <2>1, <3>1, <3>2, <4>1 DEF Told, Errs, Concluded, Fine
            <4> QED BY <2>1, <4>2 DEF Answering
        <3>4. ASSUME LastSucceeded(r), NEW a \in {result[r].answer, Concluded(r)},
                     result' = [result EXCEPT ![r].error = TRUE, ![r].answer = a]
              PROVE  Answering(r)'
            <4>1. result'[r].error = TRUE /\ result'[r].answer = a
                BY <1>b, <3>4 DEF Results
            <4>2. a # "error"
                BY <3>1, <3>4 DEF Concluded, Errs
            <4>3. Told(r)'
                BY <2>1, <3>2, <3>4, <4>1, <4>2 DEF Told
            <4> QED BY <2>1, <4>3 DEF Answering
        <3> QED BY <1>11, <3>3, <3>4 DEF Synthesize
    <2> QED BY <2>3, <2>4, <2>5, <2>6 DEF RunInv
<1> QED BY <1>1, <1>2, <1>3, <1>4, <1>5, <1>6, <1>7, <1>8, <1>9, <1>10, <1>11 DEF Step

\* A step of one run keeps the invariant of every other.
LEMMA OthersKeep ==
    ASSUME IInv, NEW r \in Requests, Step(r), NEW q \in Requests, q # r
    PROVE  RunInv(q)'
<1>1. /\ frame'[q] = frame[q] /\ outputs'[q] = outputs[q] /\ result'[q] = result[q]
      /\ llm' = llm
    BY Locality DEF IInv
<1>2. RunInv(q)
    BY DEF IInv
<1>3. Steps(q)' = Steps(q)
    BY <1>1, SameOutputs
<1>4. InBudget(q)' /\ AttemptsInBudget(q)' /\ ReplansInBudget(q)'
    BY <1>1, <1>2, <1>3 DEF RunInv, InBudget, AttemptsInBudget, ReplansInBudget, Executing, Share
<1>5. Trajectory(q)'
    BY <1>1, <1>2, SameOutputs DEF RunInv, Trajectory, Executing
<1>6. Answering(q)'
    <2>1. (Fine(q) => Fine(q)') /\ (LastSucceeded(q)' <=> LastSucceeded(q))
        BY <1>1, SameOutputs
    <2> QED BY <1>1, <1>2, <2>1 DEF RunInv, Answering, Told
<1> QED BY <1>4, <1>5, <1>6 DEF RunInv

-----------------------------------------------------------------------------
(* The theorems *)

\* Every step keeps the inductive invariant.
LEMMA InvarianceStep == IInv /\ [Next]_vars => IInv'
<1> SUFFICES ASSUME IInv, [Next]_vars PROVE IInv'
    OBVIOUS
<1>1. ASSUME NEW r \in Requests, Step(r) PROVE IInv'
    <2>1. TypeOK'
        BY <1>1, TypeStep
    <2>2. \A q \in Requests : RunInv(q)'
        BY <1>1, StepKeeps, OthersKeep
    <2> QED BY <2>1, <2>2 DEF IInv
<1>2. CASE UNCHANGED vars
    <2>1. UNCHANGED <<llm, reflecting, history, lastDsl, frame, outputs, result>>
        BY <1>2 DEF vars, shared
    <2>2. TypeOK'
        BY <2>1 DEF IInv, TypeOK
    <2>3. ASSUME NEW q \in Requests PROVE RunInv(q)'
        <3>1. RunInv(q)
            BY DEF IInv
        <3> QED BY <2>1, <3>1
                DEF RunInv, InBudget, AttemptsInBudget, ReplansInBudget, Trajectory, Answering,
                    Told, Executing, Share, Steps, Fine, Open, Stops, Reparable, Fails, LastSucceeded,
                    Succeeded
    <2> QED BY <2>2, <2>3 DEF IInv
<1> QED BY <1>1, <1>2 DEF Next

\* The inductive invariant holds of every reachable state.
THEOREM Invariance == Spec => []IInv
BY Initially, InvarianceStep, PTL DEF Spec

\* Every variable keeps its type, for any number of runs and all budgets.
THEOREM TypeCorrect == Spec => []TypeOK
<1>1. IInv => TypeOK
    BY DEF IInv
<1> QED BY <1>1, Invariance, PTL

\* The step budget and the self-heal budget bound what a run executes, asks for
\* and compiles, whatever the planner, the reflector and the rewriter decide.
THEOREM WorkTheorem == Spec => []WorkBounded
<1>1. IInv => WorkBounded
    <2> SUFFICES ASSUME IInv, NEW r \in Requests
                 PROVE  /\ Steps(r) <= MaxSteps
                        /\ result[r].replans <= MaxSteps
                        /\ frame[r].attempts <= MaxSteps * (MaxRewrites + 1)
        BY DEF WorkBounded
    <2>1. /\ InBudget(r) /\ AttemptsInBudget(r) /\ ReplansInBudget(r)
          /\ Steps(r) \in Nat /\ MaxSteps \in Nat
          /\ frame[r] \in Frames /\ result[r] \in Results
        BY StepsAssumption DEF IInv, RunInv, TypeOK, Steps
    <2>2. Steps(r) <= MaxSteps /\ result[r].replans <= MaxSteps
        BY <2>1 DEF InBudget, ReplansInBudget, Results
    <2>3. /\ Share = MaxRewrites + 1 /\ Share \in Nat
          /\ Steps(r) * Share \in Nat /\ MaxSteps * Share \in Nat
          /\ Steps(r) * Share <= MaxSteps * Share
        BY <2>1, <2>2, Shares DEF Share
    <2>4. frame[r].rewrites \in 0..MaxRewrites /\ frame[r].attempts \in Nat
        BY <2>1 DEF Frames
    <2>5. CASE frame[r].at \in {"statement", "rewrite"}
        <3>1. Steps(r) + 1 <= MaxSteps
            BY <2>1, <2>5 DEF InBudget, Executing
        <3>2. /\ (Steps(r) + 1) * Share <= MaxSteps * Share
              /\ (Steps(r) + 1) * Share = Steps(r) * Share + Share
            BY <2>1, <3>1, Shares
        <3>3. frame[r].attempts <= Steps(r) * Share + Share
            <4>1. CASE frame[r].at = "statement"
                BY <2>1, <2>3, <2>4, <4>1, RewritesAssumption DEF AttemptsInBudget
            <4>2. CASE frame[r].at = "rewrite"
                BY <2>1, <2>3, <2>4, <4>2, RewritesAssumption DEF AttemptsInBudget
            <4> QED BY <2>5, <4>1, <4>2
        <3>4. frame[r].attempts <= MaxSteps * Share
            BY <2>3, <2>4, <3>2, <3>3
        <3> QED BY <2>2, <2>3, <3>4
    <2>6. CASE frame[r].at \notin {"statement", "rewrite"}
        <3>1. frame[r].attempts <= Steps(r) * Share + 0
            BY <2>1, <2>6 DEF AttemptsInBudget
        <3>2. frame[r].attempts <= MaxSteps * Share
            BY <2>3, <2>4, <3>1
        <3> QED BY <2>2, <2>3, <3>2
    <2> QED BY <2>5, <2>6
<1> QED BY <1>1, Invariance, PTL

\* After a permanent failure, or a failure and that of its correction, a run
\* executes the reflection's follow-up at most.
THEOREM FailureTheorem == Spec => []FailureStops
<1>1. IInv => FailureStops
    BY DEF IInv, RunInv, Trajectory, Stops, Fails, FailureStops
<1> QED BY <1>1, Invariance, PTL

\* The last call of a run decides whether its answer is an error, and an error
\* beside another answer is one of a synthesizer that raised over that call's
\* output.
THEOREM LastCallTheorem == Spec => []LastCallDecides
<1>1. IInv => LastCallDecides
    BY DEF IInv, RunInv, Answering, Told, LastCallDecides
<1> QED BY <1>1, Invariance, PTL

-----------------------------------------------------------------------------
(* Exports without an LLM *)

\* The last output is the rows of a query.
RowsLast(r) == outputs[r] # <<>> /\ outputs[r][Steps(r)].outcome = "rows"

\* In what is left of a plan an export follows a query: its first call does if
\* what comes before is one.
Paired(calls, queried) ==
    \A i \in DOMAIN calls :
        /\ calls[i] # "export_prior"
        /\ calls[i] = "export_report" => IF i = 1 THEN queried ELSE calls[i - 1] \in Queriers

\* The property ExportFollowsQuery of one run.
Exported(r) ==
    \A i \in 1..Steps(r) :
        outputs[r][i].tool = "export_report" /\ Succeeded(outputs[r][i]) =>
            /\ outputs[r][i].outcome = "file"
            /\ i > 1 /\ outputs[r][i - 1].outcome = "rows"

\* The query of an export that is planned has given its rows, or is being
\* executed, or is planned before it.
Following(r) ==
    /\ frame[r].at # "replan"
    /\ frame[r].at = "call" => Paired(frame[r].calls, RowsLast(r))
    /\ Executing(r) => /\ frame[r].as = "planned"
                       /\ frame[r].tool # "export_prior"
                       /\ frame[r].tool = "export_report" => RowsLast(r)
                       /\ Paired(frame[r].calls, frame[r].tool \in Queriers)
    /\ frame[r].at \in {"statement", "rewrite"} => frame[r].tool \in Queriers

EInv == IInv /\ \A r \in Requests : ~llm => Exported(r) /\ Following(r)

\* No plan that is made without an LLM begins with an export or has two.
LEMMA PlansPaired ==
    ASSUME NEW c, c \in KeywordPlans \/ (~llm /\ c \in FirstPlans), NEW queried
    PROVE  Paired(c, queried)
<1>1. ASSUME NEW t \in Queriers \cup {"explain_glossary"} PROVE Paired(<<t>>, queried)
    <2>1. DOMAIN <<t>> = {1} /\ <<t>>[1] = t
        OBVIOUS
    <2> QED BY <1>1, <2>1 DEF Paired, Queriers
<1>2. Paired(<<"query_metric", "export_report">>, queried)
    <2> DEFINE s == <<"query_metric", "export_report">>
    <2>1. DOMAIN s = {1, 2} /\ s[1] = "query_metric" /\ s[2] = "export_report"
        OBVIOUS
    <2>2. s[2 - 1] \in Queriers
        BY <2>1 DEF Queriers
    <2> HIDE DEF s
    <2> QED BY <2>1, <2>2 DEF Paired
<1>3. ASSUME NEW n \in Nat PROVE Paired([i \in 1..n |-> "query_metric"], queried)
    BY DEF Paired
<1>4. Paired(<<>>, queried)
    BY DEF Paired
<1>5. CASE c \in KeywordPlans
    <2>1. c \in Single(Queriers) \/ c = <<"query_metric", "export_report">>
        BY <1>5 DEF KeywordPlans
    <2>2. CASE c \in Single(Queriers)
        <3>1. PICK t \in Queriers : c = <<t>>
            BY <2>2 DEF Single
        <3> QED BY <1>1, <3>1
    <2> QED BY <1>2, <2>1, <2>2
<1>6. CASE c \notin KeywordPlans
    <2>1. c \in Comparisons \cup Single({"explain_glossary"}) \cup {<<>>}
        BY <1>6 DEF FirstPlans
    <2>2. CASE c \in Comparisons
        <3>1. PICK n \in 2..MaxEntities : c = [i \in 1..n |-> "query_metric"]
            BY <2>2 DEF Comparisons
        <3>2. n \in Nat
            BY EntitiesAssumption
        <3> QED BY <1>3, <3>1, <3>2
    <2>3. CASE c \in Single({"explain_glossary"})
        <3>1. c = <<"explain_glossary">>
            BY <2>3 DEF Single
        <3> QED BY <1>1, <3>1
    <2> QED BY <1>4, <2>1, <2>2, <2>3
<1> QED BY <1>5, <1>6

\* The first call of a plan, and what is left of the plan after it.
LEMMA PairedTail ==
    ASSUME NEW s \in Seq(Tools), s # <<>>, NEW queried, Paired(s, queried)
    PROVE  /\ Head(s) # "export_prior"
           /\ Head(s) = "export_report" => queried
           /\ Paired(Tail(s), Head(s) \in Queriers)
<1> DEFINE t == Tail(s)
           h == Head(s)
<1>1. /\ Len(s) \in Nat \ {0} /\ DOMAIN s = 1..Len(s) /\ h = s[1]
      /\ DOMAIN t = 1..(Len(s) - 1)
      /\ \A i \in 1..(Len(s) - 1) : t[i] = s[i + 1]
    <2>1. Len(s) \in Nat /\ Len(s) # 0 /\ DOMAIN s = 1..Len(s) /\ h = s[1]
        BY LenProperties, EmptySeq
    <2>2. t \in Seq(Tools) /\ Len(t) = Len(s) - 1 /\ \A i \in 1..Len(t) : t[i] = s[i + 1]
        BY HeadTailProperties
    <2> QED BY <2>1, <2>2, LenProperties
<1> HIDE DEF t, h
<1>2. /\ \A j \in DOMAIN s : s[j] # "export_prior"
      /\ \A j \in DOMAIN s : s[j] = "export_report" =>
             IF j = 1 THEN queried ELSE s[j - 1] \in Queriers
    BY Zenon DEF Paired
<1>3. h # "export_prior" /\ (h = "export_report" => queried)
    <2>1. 1 \in DOMAIN s
        BY <1>1
    <2> QED BY <1>1, <1>2, <2>1, Zenon
<1>4. ASSUME NEW i \in DOMAIN t
      PROVE  /\ t[i] # "export_prior"
             /\ t[i] = "export_report" => IF i = 1 THEN h \in Queriers ELSE t[i - 1] \in Queriers
    <2>1. PICK j \in DOMAIN s : j # 1 /\ j - 1 = i /\ s[j] = t[i]
        <3>1. i + 1 \in DOMAIN s /\ i + 1 # 1 /\ i + 1 - 1 = i /\ s[i + 1] = t[i]
            BY <1>1
        <3> QED BY <3>1
    <2>2. t[i] # "export_prior" /\ (t[i] = "export_report" => s[i] \in Queriers)
        <3>1. s[j] # "export_prior" /\ (s[j] = "export_report" => s[j - 1] \in Queriers)
            BY <1>2, <2>1, Zenon
        <3> QED BY <2>1, <3>1
    <2>3. i = 1 => s[i] = h
        BY <1>1
    <2>4. i # 1 => t[i - 1] = s[i]
        BY <1>1
    <2> QED BY <2>2, <2>3, <2>4
<1>5. Paired(t, h \in Queriers)
    BY <1>4 DEF Paired
<1> QED BY <1>3, <1>5 DEF t, h

\* A call that ends is recorded after those before it.
LEMMA FinishRecords ==
    ASSUME TypeOK, NEW r \in Requests, NEW o \in Outcomes, NEW n \in 0..1, Finish(r, o, n)
    PROVE  /\ Steps(r) \in Nat /\ Steps(r)' = Steps(r) + 1
           /\ \A i \in 1..Steps(r) : outputs'[r][i] = outputs[r][i]
           /\ outputs'[r][Steps(r) + 1].outcome = o
           /\ outputs'[r][Steps(r) + 1].tool = frame[r].tool
           /\ outputs'[r] # <<>>
           /\ frame'[r].at = AfterCall(r, o) /\ frame'[r].calls = frame[r].calls
<1>1. /\ frame \in [Requests -> Frames] /\ frame[r] \in Frames
      /\ outputs \in [Requests -> Seq(Outputs)] /\ outputs[r] \in Seq(Outputs)
    BY DEF TypeOK
<1> DEFINE x == [tool |-> frame[r].tool, outcome |-> o]
<1>2. outputs'[r] = Append(outputs[r], x) /\ x \in Outputs
    BY <1>1 DEF Finish, Frames, Outputs
<1>3. x.outcome = o /\ x.tool = frame[r].tool
    OBVIOUS
<1> HIDE DEF x
<1>4. /\ Len(Append(outputs[r], x)) = Len(outputs[r]) + 1 /\ Append(outputs[r], x) # <<>>
      /\ Append(outputs[r], x)[Len(outputs[r]) + 1] = x
      /\ \A i \in 1..Len(outputs[r]) : Append(outputs[r], x)[i] = outputs[r][i]
    BY <1>1, <1>2, AppendProperties
<1>5. frame'[r].at = AfterCall(r, o) /\ frame'[r].calls = frame[r].calls
    BY <1>1 DEF Finish, Frames
<1>6. Len(outputs[r]) \in Nat
    BY <1>1
<1> QED BY <1>2, <1>3, <1>4, <1>5, <1>6 DEF Steps

\* A call ends without an LLM: an export only with the file of the rows before
\* it or not at all, a query with its rows or not at all.
LEMMA FinishExports ==
    ASSUME TypeOK, NEW r \in Requests, ~llm, Exported(r), Following(r), Executing(r),
           NEW o \in Outcomes, NEW n \in 0..1, Finish(r, o, n), llm' = llm,
           frame[r].tool = "export_report" => o \in {"file"} \cup Failures,
           frame[r].tool \in Queriers => o \in {"rows"} \cup Failures
    PROVE  Exported(r)' /\ Following(r)'
<1>1. /\ Steps(r) \in Nat /\ Steps(r)' = Steps(r) + 1
      /\ \A i \in 1..Steps(r) : outputs'[r][i] = outputs[r][i]
      /\ outputs'[r][Steps(r) + 1].outcome = o
      /\ outputs'[r][Steps(r) + 1].tool = frame[r].tool
      /\ outputs'[r] # <<>>
      /\ frame'[r].at = AfterCall(r, o) /\ frame'[r].calls = frame[r].calls
    BY FinishRecords
<1>2. /\ frame[r].as = "planned"
      /\ frame[r].tool = "export_report" => RowsLast(r)
      /\ Paired(frame[r].calls, frame[r].tool \in Queriers)
    BY DEF Following
<1>3. Exported(r)'
    <2>1. ASSUME NEW i \in 1..(Steps(r) + 1),
                 outputs'[r][i].tool = "export_report", outputs'[r][i].outcome \notin Failures
          PROVE  /\ outputs'[r][i].outcome = "file"
                 /\ i > 1 /\ outputs'[r][i - 1].outcome = "rows"
        <3>1. CASE i \in 1..Steps(r)
            <4>1. i > 1 => i - 1 \in 1..Steps(r)
                BY <1>1, <3>1
            <4>2. outputs[r][i].tool = "export_report" /\ outputs[r][i].outcome \notin Failures
                BY <1>1, <2>1, <3>1
            <4>3. /\ outputs[r][i].outcome = "file"
                  /\ i > 1 /\ outputs[r][i - 1].outcome = "rows"
                BY <3>1, <4>2 DEF Exported, Succeeded
            <4> QED BY <1>1, <3>1, <4>1, <4>3
        <3>2. CASE i = Steps(r) + 1
            <4>1. frame[r].tool = "export_report" /\ o = "file"
                BY <1>1, <2>1, <3>2
            <4>2. outputs[r] # <<>> /\ outputs[r][Steps(r)].outcome = "rows"
                BY <1>2, <4>1 DEF RowsLast
            <4>3. Steps(r) # 0
                BY <4>2, EmptySeq DEF Steps, TypeOK
            <4>4. i - 1 = Steps(r) /\ Steps(r) \in 1..Steps(r) /\ i > 1
                BY <1>1, <3>2, <4>3
            <4> QED BY <1>1, <3>2, <4>1, <4>2, <4>4
        <3> QED BY <1>1, <3>1, <3>2
    <2> QED BY <1>1, <2>1 DEF Exported, Succeeded
<1>4. /\ frame'[r].at \in {"call", "correct", "reflect", "synthesize"}
      /\ frame'[r].at = "call" => o \notin Failures
    <2>1. Steps(r) + 1 \in Nat
        BY <1>1
    <2> QED BY <1>1, <1>2, <2>1, EndOfCall, EndOfSchedule
<1>5. o \notin Failures => (frame[r].tool \in Queriers => RowsLast(r)')
    BY <1>1 DEF RowsLast
<1>6. o \notin Failures => Paired(frame[r].calls, RowsLast(r)')
    BY <1>2, <1>5 DEF Paired
<1>7. Paired(frame'[r].calls, RowsLast(r)') <=> Paired(frame[r].calls, RowsLast(r)')
    BY <1>1, Zenon
<1> QED BY <1>3, <1>4, <1>6, <1>7 DEF Following, Executing

\* A step that executes no call leaves the outputs, and what they say, alone.
LEMMA SameExports ==
    ASSUME NEW r \in Requests, Exported(r), outputs'[r] = outputs[r]
    PROVE  Exported(r)' /\ (RowsLast(r)' <=> RowsLast(r)) /\ Steps(r)' = Steps(r)
BY DEF Exported, RowsLast, Steps, Succeeded

\* Without an LLM every step of a run keeps what is said of its exports.
LEMMA StepExports ==
    ASSUME IInv, NEW r \in Requests, Step(r), ~llm, Exported(r), Following(r)
    PROVE  Exported(r)' /\ Following(r)'
<1>a. TypeOK /\ RunInv(r) /\ Steps(r) \in Nat
    BY DEF IInv, TypeOK, Steps
<1>b. /\ frame \in [Requests -> Frames] /\ frame[r] \in Frames
      /\ frame[r].calls \in Seq(Tools)
    BY <1>a DEF TypeOK, Frames
<1>c. llm' = llm
    BY DEF Step, StoreHistory, StoreLastDsl, PlanInherited, Plan, Call, RunTool, RunStatement,
           Rewrite, Correct, Replan, Reflect, Synthesize
<1>1. CASE /\ outputs' = outputs
           /\ frame'[r].at \in {"stored", "plan", "done", "synthesize", "reflect"}
    BY <1>1, SameExports DEF Following, Executing
<1>2. CASE StoreHistory(r) \/ StoreLastDsl(r) \/ Synthesize(r)
    <2>1. outputs' = outputs /\ frame'[r].at \in {"stored", "plan", "done"}
        BY <1>a, <1>2, GoFields DEF StoreHistory, StoreLastDsl, Synthesize
    <2> QED BY <1>1, <2>1
<1>3. CASE PlanInherited(r) \/ Plan(r)
    <2>1. outputs' = outputs
        BY <1>3 DEF PlanInherited, Plan
    <2>2. \/ frame'[r].at = "done"
          \/ /\ frame'[r].at = "call"
             /\ frame'[r].calls \in KeywordPlans \/ (~llm /\ frame'[r].calls \in FirstPlans)
        <3>1. CASE PlanInherited(r)
            <4>1. PICK c \in KeywordPlans :
                      frame' = [frame EXCEPT ![r].at = "call", ![r].calls = c]
                BY <3>1 DEF PlanInherited
            <4> QED BY <1>b, <4>1 DEF Frames
        <3>2. ASSUME NEW c \in FirstPlans,
                     frame' = [frame EXCEPT ![r].at = "call", ![r].calls = c, ![r].plannedOn = shared]
              PROVE  frame'[r].at = "call" /\ frame'[r].calls \in FirstPlans
            BY <1>b, <3>2 DEF Frames
        <3>3. ASSUME frame' = [frame EXCEPT ![r].at = "done", ![r].plannedOn = shared]
              PROVE  frame'[r].at = "done"
            BY <1>b, <3>3 DEF Frames
        <3> QED BY <1>3, <3>1, <3>2, <3>3 DEF Plan
    <2>3. CASE frame'[r].at = "done"
        BY <1>1, <2>1, <2>3
    <2>4. CASE frame'[r].at = "call"
        <3>1. Paired(frame'[r].calls, RowsLast(r)')
            BY <2>2, <2>4, PlansPaired
        <3>2. Exported(r)'
            BY <2>1, SameExports
        <3> QED BY <2>4, <3>1, <3>2 DEF Following, Executing
    <2> QED BY <2>2, <2>3, <2>4
<1>4. CASE Call(r)
    <2>1. outputs' = outputs /\ frame[r].at = "call" /\ Paired(frame[r].calls, RowsLast(r))
        BY <1>4 DEF Call, Following
    <2>2. CASE frame[r].calls = <<>> \/ Steps(r) >= MaxSteps
        <3>1. frame'[r].at = AfterBatch(r) /\ AfterBatch(r) = AfterSchedule(r, Steps(r))
            BY <1>a, <1>4, <2>2, GoFields DEF Call, AfterBatch
        <3>2. frame'[r].at \in {"reflect", "synthesize"}
            BY <1>a, <3>1, EndOfSchedule
        <3> QED BY <1>1, <2>1, <3>2
    <2>3. CASE ~(frame[r].calls = <<>> \/ Steps(r) >= MaxSteps)
        <3> DEFINE h == Head(frame[r].calls)
                   t == Tail(frame[r].calls)
        <3>1. Start(r, h, "planned", t) /\ frame[r].calls # <<>>
            BY <1>4, <2>3 DEF Call
        <3>2. /\ h # "export_prior" /\ (h = "export_report" => RowsLast(r))
              /\ Paired(t, h \in Queriers)
            BY <1>b, <2>1, <3>1, PairedTail
        <3>3. /\ frame'[r].at = "tool" /\ frame'[r].tool = h /\ frame'[r].calls = t
              /\ frame'[r].as = "planned"
            BY <1>a, <3>1, StartFields
        <3> HIDE DEF h, t
        <3>4. Paired(frame'[r].calls, frame'[r].tool \in Queriers)
            BY <3>2, <3>3, Zenon
        <3>5. Exported(r)' /\ (RowsLast(r)' <=> RowsLast(r))
            BY <2>1, SameExports
        <3> QED BY <3>2, <3>3, <3>4, <3>5 DEF Following, Executing
    <2> QED BY <2>2, <2>3
<1>5. CASE RunTool(r)
    <2>1. /\ frame[r].at = "tool" /\ Executing(r)
          /\ frame[r].tool # "export_prior"
          /\ frame[r].tool = "export_report" => RowsLast(r)
          /\ Paired(frame[r].calls, frame[r].tool \in Queriers)
          /\ frame[r].as = "planned"
        BY <1>5 DEF RunTool, Executing, Following
    <2>2. CASE frame[r].tool = "export_report"
        <3>1. LastSucceeded(r) /\ FromPrior(r) = "file"
            BY <2>1, <2>2 DEF RowsLast, LastSucceeded, Succeeded, Failures, FromPrior
        <3>2. PICK o \in {"file", "failed"} : Finish(r, o, 0)
            BY <1>5, <2>2, <3>1 DEF RunTool
        <3>3. o \in Outcomes /\ o \in {"file"} \cup Failures /\ frame[r].tool \notin Queriers
            BY <2>2 DEF Outcomes, Failures, Queriers
        <3> QED BY <1>a, <1>c, <2>1, <3>2, <3>3, FinishExports
    <2>3. CASE frame[r].tool # "export_report"
        <3>1. \/ frame[r].tool \in Queriers /\ Go(r, "statement") /\ UNCHANGED outputs
              \/ Finish(r, "denied", 0) \/ Finish(r, "failed", 0)
              \/ frame[r].tool = "explain_glossary" /\ Finish(r, "documents", 0)
            BY <1>5, <2>1, <2>3 DEF RunTool
        <3>2. CASE frame[r].tool \in Queriers /\ Go(r, "statement") /\ UNCHANGED outputs
            <4>1. /\ frame'[r].at = "statement" /\ frame'[r].tool = frame[r].tool
                  /\ frame'[r].calls = frame[r].calls /\ frame'[r].as = frame[r].as
                BY <1>a, <3>2, GoFields
            <4>2. Exported(r)' /\ (RowsLast(r)' <=> RowsLast(r))
                BY <3>2, SameExports
            <4>3. Paired(frame'[r].calls, frame'[r].tool \in Queriers)
                BY <2>1, <4>1, Zenon
            <4> QED BY <2>1, <3>2, <4>1, <4>2, <4>3 DEF Following, Executing
        <3>3. CASE Finish(r, "denied", 0) \/ Finish(r, "failed", 0)
            BY <1>a, <1>c, <2>1, <3>3, FinishExports DEF Outcomes, Failures
        <3>4. CASE frame[r].tool = "explain_glossary" /\ Finish(r, "documents", 0)
            <4>1. "documents" \in Outcomes /\ frame[r].tool \notin Queriers
                BY <3>4 DEF Outcomes, Queriers
            <4> QED BY <1>a, <1>c, <2>1, <2>3, <3>4, <4>1, FinishExports
        <3> QED BY <3>1, <3>2, <3>3, <3>4
    <2> QED BY <2>2, <2>3
<1>6. CASE RunStatement(r)
    <2>1. /\ frame[r].at = "statement" /\ Executing(r) /\ frame[r].tool \in Queriers
          /\ Paired(frame[r].calls, frame[r].tool \in Queriers)
          /\ frame[r].as = "planned"
        BY <1>6 DEF RunStatement, Executing, Following
    <2>2. \/ Finish(r, "rows", 1) \/ Finish(r, "failed", 1)
          \/ frame' = [frame EXCEPT ![r].at = "rewrite", ![r].attempts = @ + 1] /\ UNCHANGED outputs
        BY <1>6, <2>1 DEF RunStatement
    <2>3. CASE Finish(r, "rows", 1) \/ Finish(r, "failed", 1)
        <3>1. frame[r].tool # "export_report" /\ "rows" \in Outcomes /\ "failed" \in Outcomes
              /\ "failed" \in Failures
            BY <2>1 DEF Queriers, Outcomes, Failures
        <3> QED BY <1>a, <1>c, <2>1, <2>3, <3>1, FinishExports
    <2>4. CASE frame' = [frame EXCEPT ![r].at = "rewrite", ![r].attempts = @ + 1] /\ UNCHANGED outputs
        <3>1. /\ frame'[r].at = "rewrite" /\ frame'[r].tool = frame[r].tool
              /\ frame'[r].calls = frame[r].calls /\ frame'[r].as = frame[r].as
            BY <1>b, <2>4 DEF Frames
        <3>2. Exported(r)'
            BY <2>4, SameExports
        <3>3. Paired(frame'[r].calls, frame'[r].tool \in Queriers)
            BY <2>1, <3>1, Zenon
        <3>4. frame'[r].tool \in Queriers /\ frame'[r].tool \notin {"export_prior", "export_report"}
            BY <2>1, <3>1 DEF Queriers
        <3> QED BY <2>1, <3>1, <3>2, <3>3, <3>4 DEF Following, Executing
    <2> QED BY <2>2, <2>3, <2>4
<1>7. CASE Rewrite(r)
    <2>1. /\ Executing(r) /\ frame[r].tool # "export_report" /\ Finish(r, "failed", 0)
          /\ "failed" \in Outcomes /\ "failed" \in Failures
        BY <1>7 DEF Rewrite, Executing, Following, Queriers, Outcomes, Failures
    <2> QED BY <1>a, <1>c, <2>1, FinishExports
<1>8. CASE Correct(r)
    <2>1. outputs' = outputs /\ Go(r, AfterSchedule(r, Steps(r)))
        BY <1>8 DEF Correct
    <2>2. frame'[r].at \in {"reflect", "synthesize"}
        BY <1>a, <2>1, GoFields, EndOfSchedule
    <2> QED BY <1>1, <2>1, <2>2
<1>9. CASE Replan(r)
    BY <1>9 DEF Replan, Following
<1>10. CASE Reflect(r)
    <2>1. outputs' = outputs /\ Go(r, "synthesize")
        BY <1>10 DEF Reflect
    <2> QED BY <1>1, <1>a, <2>1, GoFields
<1> QED BY <1>2, <1>3, <1>4, <1>5, <1>6, <1>7, <1>8, <1>9, <1>10 DEF Step

\* The inductive invariant of the exports.
THEOREM ExportInvariance == Spec => []EInv
<1>1. Init => EInv
    <2>1. Init => IInv
        BY Initially
    <2>2. ASSUME Init, NEW r \in Requests PROVE Exported(r) /\ Following(r)
        BY <2>2 DEF Init, Exported, Following, Executing, Steps
    <2> QED BY <2>1, <2>2 DEF EInv
<1>2. EInv /\ [Next]_vars => EInv'
    <2> SUFFICES ASSUME EInv, [Next]_vars PROVE EInv'
        OBVIOUS
    <2>1. IInv'
        BY InvarianceStep DEF EInv
    <2>2. ASSUME NEW r \in Requests, Step(r), ~llm', NEW q \in Requests
          PROVE  Exported(q)' /\ Following(q)'
        <3>1. IInv /\ ~llm /\ Exported(q) /\ Following(q)
            <4>1. llm' = llm
                BY <2>2 DEF Step, StoreHistory, StoreLastDsl, PlanInherited, Plan, Call, RunTool,
                       RunStatement, Rewrite, Correct, Replan, Reflect, Synthesize
            <4> QED BY <2>2, <4>1 DEF EInv
        <3>2. CASE q = r
            BY <2>2, <3>1, <3>2, StepExports
        <3>3. CASE q # r
            <4>1. frame'[q] = frame[q] /\ outputs'[q] = outputs[q]
                BY <2>2, <3>1, <3>3, Locality DEF IInv
            <4>2. Exported(q)' /\ (RowsLast(q)' <=> RowsLast(q))
                BY <3>1, <4>1, SameExports
            <4> QED BY <3>1, <4>1, <4>2 DEF Following, Executing, Paired
        <3> QED BY <3>2, <3>3
    <2>3. CASE UNCHANGED vars
        BY <2>1, <2>3 DEF EInv, vars, Exported, Following, Executing, RowsLast, Steps, Succeeded
    <2> QED BY <2>1, <2>2, <2>3 DEF EInv, Next
<1> QED BY <1>1, <1>2, PTL DEF Spec

\* As long as no LLM chooses the calls, an export that succeeds is a file of the
\* rows of the query just before it.
THEOREM ExportTheorem == Spec => []ExportFollowsQuery
<1>1. EInv => ExportFollowsQuery
    BY DEF EInv, Exported, ExportFollowsQuery
<1> QED BY <1>1, ExportInvariance, PTL
=============================================================================
