---------------------- MODULE AdminMutationQueueProofs ----------------------
(***************************************************************************)
(* Proofs about AdminMutationQueue, for every set of requests: what a      *)
(* client is told is true, a mutation runs at most once and never after a  *)
(* refusal, and every step is a step of AdminMutation or a stutter.        *)
(***************************************************************************)
EXTENDS AdminMutationQueue, SequenceTheorems, TLAPS

-----------------------------------------------------------------------------
(* The inductive invariant *)

\* The loop handles the head of a non-empty batch.
HandlesHead == loop \in {"execute", "report", "notify", "wake"} => batch # <<>>

\* A request is running exactly while the loop runs it: the state is what
\* makes the waiter's timeout and the loop agree on who owns the request.
RunningIsCurrent ==
  \A r \in Requests :
    state[r] = "Running" <=> loop \in {"execute", "report"} /\ r = Head(batch)

\* The executor was called once for what is completed or about to be
\* reported, and for nothing else.
RunsExactlyOnce ==
  \A r \in Requests :
    /\ runs[r] \in {0, 1}
    /\ runs[r] = 1 <=> \/ state[r] = "Completed"
                       \/ state[r] = "Running" /\ loop = "report"
    /\ runs[r] = 1 <=> outcome[r] \in Results

\* What a terminal request holds.
ResponseStored ==
  \A r \in Requests :
    /\ state[r] = "Completed" => response[r] = outcome[r]
    /\ state[r] = "Cancelled" => response[r] \in Refusals

\* A worker answers from a terminal request, or because the queue is closed.
AnswerSource ==
  \A r \in Requests :
    /\ worker[r] # "answered" => answer[r] = "none"
    /\ worker[r] = "answered" =>
         \/ state[r] \in Terminal /\ answer[r] = response[r]
         \/ state[r] = "Absent" /\ answer[r] = "down"
    /\ worker[r] = "idle" => state[r] = "Absent"
    /\ worker[r] \in {"checking", "asleep"} => state[r] # "Absent"

\* The queue accepts requests until cancelAll.
AcceptingUntilClosed ==
  mAccepting <=> loop \notin {"cancel", "wake", "join", "stopped"}

IInv ==
  /\ TypeOK
  /\ HandlesHead
  /\ RunningIsCurrent
  /\ RunsExactlyOnce
  /\ ResponseStored
  /\ AnswerSource
  /\ AcceptingUntilClosed


-----------------------------------------------------------------------------
(* The invariant holds initially and is preserved by every action *)

USE DEF States, Terminal, Results, Refusals, Responses, Workers,
        Starting, Looping, Stopping, Loops

LEMMA InitIInv == Init => IInv
<1> SUFFICES ASSUME Init PROVE IInv
  OBVIOUS
<1>1. <<>> \in Seq(Requests)
  OBVIOUS
<1>2. TypeOK
  BY <1>1 DEF Init, TypeOK
<1>3. HandlesHead /\ RunningIsCurrent /\ RunsExactlyOnce
  BY DEF Init, HandlesHead, RunningIsCurrent, RunsExactlyOnce
<1>4. ResponseStored /\ AnswerSource /\ AcceptingUntilClosed
  BY DEF Init, ResponseStored, AnswerSource, AcceptingUntilClosed
<1> QED
  BY <1>2, <1>3, <1>4 DEF IInv

\* The actions of a worker.
LEMMA WorkerPreserves ==
  ASSUME IInv, NEW r \in Requests,
         Enqueue(r) \/ RejectClosed(r) \/ WorkerStep(r)
  PROVE  IInv'
<1> USE DEF IInv
<1>1. CASE Enqueue(r)
  <2>1. Append(mPending, r) \in Seq(Requests)
    BY DEF TypeOK
  <2>2. mPending' \in Seq(Requests)
    BY <1>1, <2>1 DEF Enqueue
  <2>3. /\ worker[r] = "idle"
        /\ state' = [state EXCEPT ![r] = "Queued"]
        /\ worker' = [worker EXCEPT ![r] = "checking"]
        /\ UNCHANGED <<mAccepting, batch, response, expired, answer, mRunning,
                       loop, outcome, runs, stops>>
    BY <1>1 DEF Enqueue, historyVars
  <2>4. TypeOK'
    BY <2>2, <2>3 DEF TypeOK
  <2>5. HandlesHead' /\ RunningIsCurrent' /\ RunsExactlyOnce'
    BY <2>3 DEF TypeOK, HandlesHead, RunningIsCurrent, RunsExactlyOnce,
                AnswerSource
  <2>6. ResponseStored' /\ AnswerSource' /\ AcceptingUntilClosed'
    BY <2>3 DEF TypeOK, ResponseStored, AnswerSource, AcceptingUntilClosed
  <2> QED
    BY <2>4, <2>5, <2>6
<1>2. CASE RejectClosed(r)
  <2>1. TypeOK' /\ HandlesHead' /\ RunningIsCurrent' /\ RunsExactlyOnce'
    BY <1>2 DEF RejectClosed, Reply, queueVars, requestVars, historyVars,
                TypeOK, HandlesHead, RunningIsCurrent, RunsExactlyOnce
  <2>2. ResponseStored' /\ AnswerSource' /\ AcceptingUntilClosed'
    BY <1>2 DEF RejectClosed, Reply, queueVars, requestVars, historyVars,
                TypeOK, ResponseStored, AnswerSource, AcceptingUntilClosed
  <2> QED
    BY <2>1, <2>2
<1>3. CASE CheckTerminal(r)
  <2>1. /\ TypeOK'
        /\ HandlesHead' /\ RunningIsCurrent' /\ RunsExactlyOnce'
    <3>1. UNCHANGED <<mPending, mAccepting, batch, state, response, expired,
                      mRunning, loop, outcome, runs, stops>>
      BY <1>3 DEF CheckTerminal, queueVars, requestVars, historyVars
    <3>2. /\ worker' \in [Requests -> Workers]
          /\ answer' \in [Requests -> Responses]
      BY <1>3 DEF CheckTerminal, Reply, TypeOK
    <3> QED
      BY <3>1, <3>2 DEF TypeOK, HandlesHead, RunningIsCurrent, RunsExactlyOnce
  <2>2. ResponseStored' /\ AnswerSource' /\ AcceptingUntilClosed'
    BY <1>3 DEF CheckTerminal, Reply, queueVars, requestVars, historyVars,
                TypeOK, ResponseStored, AnswerSource, AcceptingUntilClosed
  <2> QED
    BY <2>1, <2>2
<1>4. CASE TimeOutQueued(r)
  <2>1. TypeOK' /\ HandlesHead' /\ RunningIsCurrent' /\ RunsExactlyOnce'
    BY <1>4 DEF TimeOutQueued, Reply, queueVars, historyVars,
                TypeOK, HandlesHead, RunningIsCurrent, RunsExactlyOnce
  <2>2. ResponseStored' /\ AnswerSource' /\ AcceptingUntilClosed'
    BY <1>4 DEF TimeOutQueued, Reply, queueVars, historyVars,
                TypeOK, ResponseStored, AnswerSource, AcceptingUntilClosed
  <2> QED
    BY <2>1, <2>2
<1>5. CASE TimeOutRunning(r)
  BY <1>5 DEF TimeOutRunning, queueVars, requestVars, historyVars,
              TypeOK, HandlesHead, RunningIsCurrent, RunsExactlyOnce,
              ResponseStored, AnswerSource, AcceptingUntilClosed
<1>6. CASE TimeOutLate(r)
  <2>1. TypeOK' /\ HandlesHead' /\ RunningIsCurrent' /\ RunsExactlyOnce'
    BY <1>6 DEF TimeOutLate, Reply, queueVars, requestVars, historyVars,
                TypeOK, HandlesHead, RunningIsCurrent, RunsExactlyOnce
  <2>2. ResponseStored' /\ AnswerSource' /\ AcceptingUntilClosed'
    BY <1>6 DEF TimeOutLate, Reply, queueVars, requestVars, historyVars,
                TypeOK, ResponseStored, AnswerSource, AcceptingUntilClosed
  <2> QED
    BY <2>1, <2>2
<1> QED
  BY <1>1, <1>2, <1>3, <1>4, <1>5, <1>6 DEF WorkerStep, TimeOut

\* The actions of the loop that leave the requests alone.
LEMMA LoopControlPreserves ==
  ASSUME IInv,
         \/ RequestStop \/ StartListening \/ StartLoop \/ TestRunning
         \/ DrainTake \/ CancelTake \/ Join
  PROVE  IInv'
<1> USE DEF IInv, queueVars, requestVars, workerVars, historyVars
<1>1. TypeOK'
  <2>1. <<>> \in Seq(Requests)
    OBVIOUS
  <2> QED
    BY <2>1 DEF RequestStop, StartListening, StartLoop, TestRunning, DrainTake,
                CancelTake, Join, TypeOK
<1>2. HandlesHead' /\ RunningIsCurrent' /\ RunsExactlyOnce'
  BY DEF RequestStop, StartListening, StartLoop, TestRunning, DrainTake,
         CancelTake, Join, TypeOK, HandlesHead, RunningIsCurrent,
         RunsExactlyOnce
<1>3. ResponseStored' /\ AnswerSource' /\ AcceptingUntilClosed'
  BY DEF RequestStop, StartListening, StartLoop, TestRunning, DrainTake,
         CancelTake, Join, TypeOK, ResponseStored, AnswerSource,
         AcceptingUntilClosed
<1> QED
  BY <1>1, <1>2, <1>3

\* The actions of the loop on the request at the head of its batch.
LEMMA LoopWorkPreserves ==
  ASSUME IInv,
         \/ DrainNext \/ Report \/ DrainNotify \/ CancelNext \/ CancelNotify
         \/ \E result \in Results : Execute(result)
  PROVE  IInv'
<1> USE DEF IInv, queueVars, requestVars, workerVars, historyVars
<1>1. ASSUME batch # <<>>
      PROVE  Head(batch) \in Requests /\ Tail(batch) \in Seq(Requests)
  BY <1>1 DEF TypeOK
<1>2. CASE DrainNext
  <2>1. TypeOK'
    BY <1>1, <1>2 DEF DrainNext, TypeOK
  <2>2. HandlesHead' /\ RunningIsCurrent' /\ RunsExactlyOnce'
    BY <1>1, <1>2 DEF DrainNext, TypeOK, HandlesHead, RunningIsCurrent,
                      RunsExactlyOnce
  <2>3. ResponseStored' /\ AnswerSource' /\ AcceptingUntilClosed'
    BY <1>1, <1>2 DEF DrainNext, TypeOK, ResponseStored, AnswerSource,
                      AcceptingUntilClosed
  <2> QED
    BY <2>1, <2>2, <2>3
<1>3. CASE Report
  <2>1. TypeOK'
    BY <1>1, <1>3 DEF Report, TypeOK
  <2>2. HandlesHead' /\ RunningIsCurrent' /\ RunsExactlyOnce'
    BY <1>1, <1>3 DEF Report, TypeOK, HandlesHead, RunningIsCurrent,
                      RunsExactlyOnce
  <2>3. ResponseStored' /\ AnswerSource' /\ AcceptingUntilClosed'
    BY <1>1, <1>3 DEF Report, TypeOK, HandlesHead, RunningIsCurrent,
                      ResponseStored, AnswerSource, AcceptingUntilClosed
  <2> QED
    BY <2>1, <2>2, <2>3
<1>4. CASE DrainNotify \/ CancelNotify
  <2>1. TypeOK'
    BY <1>1, <1>4 DEF DrainNotify, CancelNotify, NotifyAll, TypeOK, HandlesHead
  <2>2. HandlesHead' /\ RunningIsCurrent' /\ RunsExactlyOnce'
    BY <1>1, <1>4 DEF DrainNotify, CancelNotify, NotifyAll, TypeOK,
                      HandlesHead, RunningIsCurrent, RunsExactlyOnce
  <2>3. ResponseStored' /\ AnswerSource' /\ AcceptingUntilClosed'
    BY <1>1, <1>4 DEF DrainNotify, CancelNotify, NotifyAll, TypeOK,
                      HandlesHead, ResponseStored, AnswerSource,
                      AcceptingUntilClosed
  <2> QED
    BY <2>1, <2>2, <2>3
<1>5. CASE CancelNext
  <2>1. TypeOK'
    BY <1>1, <1>5 DEF CancelNext, TypeOK
  <2>2. HandlesHead' /\ RunningIsCurrent' /\ RunsExactlyOnce'
    BY <1>1, <1>5 DEF CancelNext, TypeOK, HandlesHead, RunningIsCurrent,
                      RunsExactlyOnce
  <2>3. ResponseStored' /\ AnswerSource' /\ AcceptingUntilClosed'
    BY <1>1, <1>5 DEF CancelNext, TypeOK, ResponseStored, AnswerSource,
                      AcceptingUntilClosed
  <2> QED
    BY <2>1, <2>2, <2>3
<1>6. ASSUME NEW result \in Results, Execute(result)
      PROVE  IInv'
  <2>1. TypeOK'
    BY <1>1, <1>6 DEF Execute, TypeOK, HandlesHead
  <2>2. HandlesHead' /\ RunningIsCurrent' /\ RunsExactlyOnce'
    BY <1>1, <1>6 DEF Execute, TypeOK, HandlesHead, RunningIsCurrent,
                      RunsExactlyOnce
  <2>3. ResponseStored' /\ AnswerSource' /\ AcceptingUntilClosed'
    BY <1>1, <1>6 DEF Execute, TypeOK, HandlesHead, RunningIsCurrent,
                      ResponseStored, AnswerSource, AcceptingUntilClosed
  <2> QED
    BY <2>1, <2>2, <2>3
<1> QED
  BY <1>2, <1>3, <1>4, <1>5, <1>6

LEMMA NextPreserves == IInv /\ [Next]_vars => IInv'
<1> SUFFICES ASSUME IInv, [Next]_vars PROVE IInv'
  OBVIOUS
<1>1. CASE \E r \in Requests : Enqueue(r) \/ RejectClosed(r) \/ WorkerStep(r)
  BY <1>1, WorkerPreserves
<1>2. CASE RequestStop
  BY <1>2, LoopControlPreserves
<1>3. CASE LoopStep
  BY <1>3, LoopControlPreserves, LoopWorkPreserves DEF LoopStep
<1>4. CASE UNCHANGED vars
  BY <1>4 DEF vars, IInv, TypeOK, HandlesHead, RunningIsCurrent,
              RunsExactlyOnce, ResponseStored, AnswerSource,
              AcceptingUntilClosed
<1>5. CASE Terminated
  BY <1>4, <1>5 DEF Terminated
<1> QED
  BY <1>1, <1>2, <1>3, <1>4, <1>5 DEF Next

\* Every reachable state of the queue satisfies the inductive invariant, its
\* type invariant included.
THEOREM Invariance == Spec => []IInv
<1> QED
  BY InitIInv, NextPreserves, PTL DEF Spec

\* The type invariant of the queue holds for every set of requests.
THEOREM TypeCorrect == Spec => []TypeOK
<1>1. IInv => TypeOK
  BY DEF IInv
<1> QED
  BY <1>1, Invariance, PTL

-----------------------------------------------------------------------------
(* Safety *)

\* The HTTP client of a destructive operation is told the truth: a refusal
\* (503, 504) only if the executor was never called for it, a result only if
\* it was called exactly once, and then that call's result.
THEOREM AnswersAreTruthful == Spec => []AnswersTruthful
<1>1. IInv => AnswersTruthful
  BY DEF IInv, TypeOK, AnswersTruthful, RunsExactlyOnce, ResponseStored,
         AnswerSource
<1> QED
  BY <1>1, Invariance, PTL

\* Only the request the loop is executing has its run counted.
LEMMA OnlyExecuteRuns ==
  ASSUME [Next]_vars, runs' # runs
  PROVE  \E result \in Results : Execute(result)
<1> USE DEF historyVars
<1>1. ASSUME NEW r \in Requests,
             Enqueue(r) \/ RejectClosed(r) \/ WorkerStep(r)
      PROVE  runs' = runs
  BY <1>1 DEF Enqueue, RejectClosed, WorkerStep, CheckTerminal, TimeOut,
              TimeOutQueued, TimeOutRunning, TimeOutLate
<1>2. RequestStop => runs' = runs
  BY DEF RequestStop
<1>3. LoopStep => runs' = runs \/ \E result \in Results : Execute(result)
  BY DEF LoopStep, StartListening, StartLoop, TestRunning, DrainTake,
         DrainNext, Report, DrainNotify, CancelTake, CancelNext,
         CancelNotify, Join
<1>4. Terminated \/ UNCHANGED vars => runs' = runs
  BY DEF Terminated, vars
<1> QED
  BY <1>1, <1>2, <1>3, <1>4 DEF Next

\* A cancelled, completed or answered destructive operation never runs later.
THEOREM CancelledNeverRuns == Spec => NeverRunsAgain
<1>1. IInv /\ [Next]_vars => [RunsOnlyFresh]_vars
  <2> SUFFICES ASSUME IInv, [Next]_vars, NEW r \in Requests,
                      runs'[r] # runs[r]
               PROVE  /\ runs[r] = 0 /\ state[r] = "Running"
                      /\ answer[r] = "none"
                      /\ mAccepting
    BY DEF RunsOnlyFresh
  <2>1. PICK result \in Results : Execute(result)
    BY OnlyExecuteRuns
  <2>2. loop = "execute" /\ r = Head(batch)
    BY <2>1 DEF Execute, IInv, TypeOK
  <2>3. state[r] = "Running" /\ runs[r] = 0
    BY <2>2 DEF IInv, RunningIsCurrent, RunsExactlyOnce
  <2>4. answer[r] = "none"
    BY <2>3 DEF IInv, TypeOK, AnswerSource
  <2>5. mAccepting
    BY <2>2 DEF IInv, AcceptingUntilClosed
  <2> QED
    BY <2>3, <2>4, <2>5
<1> QED
  BY <1>1, Invariance, PTL DEF Spec, NeverRunsAgain

-----------------------------------------------------------------------------
(* Refinement *)



LEMMA InitRefines == Init => Promise!Init
  BY DEF Init, Promise!Init, Fate, Told, FateOf, ToldOf, Refused

\* What a step leaves alone about request r.
Untouched(r) == state'[r] = state[r] /\ answer'[r] = answer[r] /\ runs'[r] = runs[r]

\* The client's view changes at no other request than the one a step is about.
LEMMA ViewExcept ==
  ASSUME NEW r \in Requests, \A s \in Requests \ {r} : Untouched(s)
  PROVE  /\ Fate' = [Fate EXCEPT ![r] = FateOf(r)']
         /\ Told' = [Told EXCEPT ![r] = ToldOf(r)']
<1>1. \A s \in Requests \ {r} :
        FateOf(s)' = FateOf(s) /\ ToldOf(s)' = ToldOf(s)
  BY DEF Untouched, FateOf, ToldOf, Refused
<1>2. /\ Fate = [s \in Requests |-> FateOf(s)]
      /\ Told = [s \in Requests |-> ToldOf(s)]
      /\ Fate' = [s \in Requests |-> FateOf(s)']
      /\ Told' = [s \in Requests |-> ToldOf(s)']
  BY DEF Fate, Told
<1> QED
  BY <1>1, <1>2

\* A step that changes neither runs nor answers nor makes or cancels a request
\* is invisible to the client.
LEMMA Stutters ==
  ASSUME runs' = runs, answer' = answer,
         \A r \in Requests :
           \/ state'[r] = state[r]
           \/ state[r] \notin {"Absent", "Cancelled"}
                /\ state'[r] \notin {"Absent", "Cancelled"}
  PROVE  UNCHANGED <<Fate, Told>>
<1>1. \A r \in Requests : FateOf(r)' = FateOf(r) /\ ToldOf(r)' = ToldOf(r)
  BY DEF FateOf, ToldOf, Refused
<1> QED
  BY <1>1 DEF Fate, Told

\* The steps of AdminMutation, in terms of the view of one request.
LEMMA AbstractSteps ==
  ASSUME NEW r \in Requests, \A s \in Requests \ {r} : Untouched(s),
         \/ FateOf(r) = "unmade" /\ FateOf(r)' = "open" /\ ToldOf(r)' = ToldOf(r)
         \/ FateOf(r) = "open" /\ FateOf(r)' = "performed"
              /\ ToldOf(r)' = ToldOf(r)
         \/ FateOf(r) \in {"unmade", "open"} /\ FateOf(r)' = "abandoned"
              /\ ToldOf(r)' \in {ToldOf(r), "refusal"}
         \/ FateOf(r)' = FateOf(r) /\ ToldOf(r) = "nothing"
              /\ \/ FateOf(r) = "performed" /\ ToldOf(r)' = "result"
                 \/ FateOf(r) = "abandoned" /\ ToldOf(r)' = "refusal"
  PROVE  Promise!Next
<1>1. /\ Fate' = [Fate EXCEPT ![r] = FateOf(r)']
      /\ Told' = [Told EXCEPT ![r] = ToldOf(r)']
  BY ViewExcept
<1>2. Fate[r] = FateOf(r) /\ Told[r] = ToldOf(r)
  BY DEF Fate, Told
<1>3. FateOf(r)' = FateOf(r) => Fate' = Fate
  BY <1>1, <1>2 DEF Fate
<1>4. ToldOf(r)' = ToldOf(r) => Told' = Told
  BY <1>1, <1>2 DEF Told
<1> QED
  BY <1>1, <1>2, <1>3, <1>4
     DEF Promise!Next, Promise!Open, Promise!Perform, Promise!Abandon,
         Promise!Tell

LEMMA WorkerRefines ==
  ASSUME IInv, NEW r \in Requests,
         Enqueue(r) \/ RejectClosed(r) \/ WorkerStep(r)
  PROVE  Promise!Next \/ UNCHANGED <<Fate, Told>>
<1> USE DEF IInv
<1>1. \A s \in Requests \ {r} : Untouched(s)
  BY DEF Enqueue, RejectClosed, WorkerStep, CheckTerminal, TimeOut,
         TimeOutQueued, TimeOutRunning, TimeOutLate, Reply, Untouched, TypeOK,
         historyVars, requestVars
<1>2. CASE Enqueue(r)
  <2>1. /\ worker[r] = "idle" /\ UNCHANGED <<answer, runs>>
        /\ state'[r] = "Queued"
    BY <1>2 DEF Enqueue, historyVars, TypeOK
  <2>2. FateOf(r) = "unmade" /\ FateOf(r)' = "open" /\ ToldOf(r)' = ToldOf(r)
    BY <2>1 DEF TypeOK, RunsExactlyOnce, AnswerSource, FateOf, ToldOf, Refused
  <2> QED
    BY <1>1, <2>2, AbstractSteps
<1>3. CASE RejectClosed(r)
  <2>1. /\ FateOf(r) = "unmade" /\ FateOf(r)' = "abandoned"
        /\ ToldOf(r)' = "refusal"
    BY <1>3 DEF RejectClosed, Reply, TypeOK, RunsExactlyOnce, AnswerSource,
                FateOf, ToldOf, Refused, historyVars, requestVars
  <2> QED
    BY <1>1, <2>1, AbstractSteps
<1>4. CASE TimeOutQueued(r)
  <2>1. /\ FateOf(r) = "open" /\ FateOf(r)' = "abandoned"
        /\ ToldOf(r)' = "refusal"
    BY <1>4 DEF TimeOutQueued, Reply, TypeOK, RunsExactlyOnce, AnswerSource,
                FateOf, ToldOf, Refused, historyVars
  <2> QED
    BY <1>1, <2>1, AbstractSteps
<1>5. CASE TimeOutRunning(r)
  BY <1>5, Stutters DEF TimeOutRunning, historyVars, requestVars
<1>6. CASE CheckTerminal(r) \/ TimeOutLate(r)
  <2>1. UNCHANGED <<state, response, outcome, runs>> /\ worker[r] # "answered"
    BY <1>6 DEF CheckTerminal, TimeOutLate, historyVars, requestVars
  <2>2. CASE state[r] \notin Terminal
    BY <1>6, <2>1, <2>2, Stutters DEF CheckTerminal, TimeOutLate
  <2>3. ASSUME state[r] \in Terminal
        PROVE  answer'[r] = response[r] /\ answer[r] = "none"
    BY <1>6, <2>1, <2>3 DEF CheckTerminal, TimeOutLate, Reply, TypeOK,
                            AnswerSource
  <2>4. CASE state[r] = "Completed"
    <3>1. FateOf(r) = "performed" /\ FateOf(r)' = "performed"
      BY <2>1, <2>4 DEF RunsExactlyOnce, FateOf
    <3>2. ToldOf(r) = "nothing" /\ ToldOf(r)' = "result"
      BY <2>3, <2>4 DEF RunsExactlyOnce, ResponseStored, ToldOf
    <3> QED
      BY <1>1, <3>1, <3>2, AbstractSteps
  <2>5. CASE state[r] = "Cancelled"
    <3>1. FateOf(r) = "abandoned" /\ FateOf(r)' = "abandoned"
      BY <2>1, <2>5 DEF RunsExactlyOnce, FateOf, Refused
    <3>2. ToldOf(r) = "nothing" /\ ToldOf(r)' = "refusal"
      BY <2>3, <2>5 DEF ResponseStored, ToldOf
    <3> QED
      BY <1>1, <3>1, <3>2, AbstractSteps
  <2> QED
    BY <2>2, <2>4, <2>5
<1> QED
  BY <1>2, <1>3, <1>4, <1>5, <1>6 DEF WorkerStep, TimeOut

LEMMA LoopRefines ==
  ASSUME IInv, LoopStep
  PROVE  Promise!Next \/ UNCHANGED <<Fate, Told>>
<1> USE DEF IInv, historyVars, requestVars, workerVars
<1>1. ASSUME batch # <<>>
      PROVE  Head(batch) \in Requests
  BY <1>1 DEF TypeOK
<1>2. ASSUME NEW result \in Results, Execute(result)
      PROVE  Promise!Next
  <2>1. PICK r \in Requests : r = Head(batch)
    BY <1>1, <1>2 DEF Execute, HandlesHead
  <2>2. /\ loop = "execute"
        /\ runs' = [runs EXCEPT ![r] = runs[r] + 1]
        /\ UNCHANGED <<state, answer>>
    BY <1>2, <2>1 DEF Execute
  <2>3. state[r] = "Running" /\ runs[r] = 0 /\ answer[r] = "none"
    BY <2>1, <2>2 DEF RunningIsCurrent, RunsExactlyOnce, AnswerSource, TypeOK
  <2>4. runs'[r] = 1 /\ \A s \in Requests \ {r} : runs'[s] = runs[s]
    BY <2>2, <2>3 DEF TypeOK
  <2>5. FateOf(r) = "open" /\ FateOf(r)' = "performed"
    BY <2>3, <2>4 DEF FateOf, Refused
  <2>6. ToldOf(r)' = ToldOf(r) /\ \A s \in Requests \ {r} : Untouched(s)
    BY <2>2, <2>4 DEF ToldOf, Untouched
  <2> QED
    BY <2>5, <2>6, AbstractSteps
<1>3. CASE CancelNext
  <2>1. CASE batch # <<>> /\ state[Head(batch)] = "Queued"
    <3>1. PICK r \in Requests : r = Head(batch)
      BY <1>1, <2>1
    <3>2. /\ state[r] = "Queued"
          /\ state' = [state EXCEPT ![r] = "Cancelled"]
          /\ UNCHANGED <<answer, runs>>
      BY <1>3, <2>1, <3>1 DEF CancelNext
    <3>3. /\ FateOf(r) = "open" /\ FateOf(r)' = "abandoned"
          /\ ToldOf(r)' = ToldOf(r)
          /\ \A s \in Requests \ {r} : Untouched(s)
      BY <3>2 DEF FateOf, ToldOf, Refused, RunsExactlyOnce, AnswerSource,
                  TypeOK, Untouched
    <3> QED
      BY <3>3, AbstractSteps
  <2>2. CASE ~(batch # <<>> /\ state[Head(batch)] = "Queued")
    BY <1>3, <2>2, Stutters DEF CancelNext
  <2> QED
    BY <2>1, <2>2
<1>4. CASE DrainNext \/ Report
  <2>1. \A r \in Requests :
          \/ state'[r] = state[r]
          \/ state[r] \notin {"Absent", "Cancelled"}
               /\ state'[r] \notin {"Absent", "Cancelled"}
    BY <1>1, <1>4 DEF DrainNext, Report, TypeOK, HandlesHead, RunningIsCurrent
  <2> QED
    BY <1>4, <2>1, Stutters DEF DrainNext, Report
<1>5. CASE \/ StartListening \/ StartLoop \/ TestRunning \/ DrainTake
           \/ DrainNotify \/ CancelTake \/ CancelNotify \/ Join
  BY <1>5, Stutters DEF StartListening, StartLoop, TestRunning, DrainTake,
                        DrainNotify, CancelTake, CancelNotify, Join
<1> QED
  BY <1>2, <1>3, <1>4, <1>5 DEF LoopStep

\* The queue, with its threads, timeouts and shutdown, implements the promise
\* made to the clients: at most one run, and a truthful answer after it.
THEOREM RefinesPromise == Spec => Promise!SafetySpec
<1>1. IInv /\ [Next]_vars => [Promise!Next]_(Promise!vars)
  <2> SUFFICES ASSUME IInv, [Next]_vars
               PROVE  Promise!Next \/ UNCHANGED <<Fate, Told>>
    BY DEF Promise!vars
  <2>1. CASE \E r \in Requests : Enqueue(r) \/ RejectClosed(r) \/ WorkerStep(r)
    BY <2>1, WorkerRefines
  <2>2. CASE RequestStop \/ Terminated \/ UNCHANGED vars
    BY <2>2, Stutters DEF RequestStop, Terminated, vars, requestVars, workerVars
  <2>3. CASE LoopStep
    BY <2>3, LoopRefines
  <2> QED
    BY <2>1, <2>2, <2>3 DEF Next
<1> QED
  BY <1>1, InitRefines, Invariance, PTL DEF Spec, Promise!SafetySpec
=============================================================================
