------------------------- MODULE AdminMutationQueue -------------------------
(***************************************************************************)
(* The hand-over of destructive admin operations (cell resets) from the    *)
(* worker threads of the admin HTTP server to the game loop, together with *)
(* the life of that loop: start-up, iterations, shutdown.                  *)
(*                                                                         *)
(*   apps/openmw-server/AdminMutationQueue.hpp   the queue                 *)
(*   apps/openmw-server/Server.cpp               run, shutdown, the HTTP   *)
(*                                               handlers, the drain       *)
(*                                                                         *)
(* One HTTP worker serves one request, so a worker is named by its         *)
(* request.  Every step is one critical section, or one unlocked segment,  *)
(* of the code: the queue's mutex mMutex protects mPending and mAccepting, *)
(* the mutex of a request protects its state and response, and             *)
(* notifications are sent after unlocking.                                 *)
(***************************************************************************)
EXTENDS Naturals, Sequences

CONSTANT Requests            \* the reset requests that may reach the server

VARIABLES
  mPending,                  \* requests queued and not yet taken by the loop
  mAccepting,                \* FALSE from cancelAll on
  state,                     \* state[r]: AdminMutationQueue::State, or Absent
  response,                  \* response[r]: the response stored in r
  worker,                    \* worker[r]: where the HTTP worker of r is
  expired,                   \* expired[r]: its wait_for has timed out
  answer,                    \* answer[r]: what the HTTP client was told
  mRunning,                  \* the loop's continuation flag
  loop,                      \* where the game-loop thread is
  batch,                     \* the local vector `pending` of drain/cancelAll
  outcome,                   \* outcome[r]: what the executor returned for r
  runs,                      \* history: calls of the executor made for r
  stops                      \* history: phases in which requestStop was called

queueVars   == <<mPending, mAccepting, batch>>
historyVars == <<outcome, runs, stops>>
requestVars == <<state, response>>
workerVars  == <<worker, expired, answer>>
vars == <<mPending, mAccepting, state, response, worker, expired, answer,
          mRunning, loop, batch, outcome, runs, stops>>

States    == {"Absent", "Queued", "Running", "Completed", "Cancelled"}
Terminal  == {"Completed", "Cancelled"}

\* Responses by HTTP status: 200, 500, 503 (shutting down), 504 (timed out).
Results   == {"ok", "failed"}
Refusals  == {"down", "timeout"}
Responses == {"none"} \cup Results \cup Refusals

Workers   == {"idle", "checking", "asleep", "answered"}

\* init: before the listener is bound; boot: listening, mRunning not yet set.
Starting  == {"init", "boot"}
Looping   == {"top", "take", "drain", "execute", "report", "notify"}
Stopping  == {"close", "cancel", "wake", "join", "stopped"}
Loops     == Starting \cup Looping \cup Stopping

\* The listener accepts connections from startAdminHttpServer until
\* stopAdminHttpServer.
Listening == loop \notin {"init", "join", "stopped"}

TypeOK ==
  /\ mPending \in Seq(Requests)
  /\ mAccepting \in BOOLEAN
  /\ state \in [Requests -> States]
  /\ response \in [Requests -> Responses]
  /\ worker \in [Requests -> Workers]
  /\ expired \in [Requests -> BOOLEAN]
  /\ answer \in [Requests -> Responses]
  /\ mRunning \in BOOLEAN
  /\ loop \in Loops
  /\ batch \in Seq(Requests)
  /\ outcome \in [Requests -> {"none"} \cup Results]
  /\ runs \in [Requests -> Nat]
  /\ stops \in SUBSET {"starting", "looping", "stopping"}

Init ==
  /\ mPending = <<>>
  /\ mAccepting = TRUE
  /\ state = [r \in Requests |-> "Absent"]
  /\ response = [r \in Requests |-> "none"]
  /\ worker = [r \in Requests |-> "idle"]
  /\ expired = [r \in Requests |-> FALSE]
  /\ answer = [r \in Requests |-> "none"]
  /\ mRunning = FALSE
  /\ loop = "init"
  /\ batch = <<>>
  /\ outcome = [r \in Requests |-> "none"]
  /\ runs = [r \in Requests |-> 0]
  /\ stops = {}

-----------------------------------------------------------------------------
(* The HTTP worker of a request *)

\* The worker returns a response to its client.
Reply(r, resp) ==
  /\ worker' = [worker EXCEPT ![r] = "answered"]
  /\ answer' = [answer EXCEPT ![r] = resp]

\* Mutant of Enqueue: the slot is queued before the request is made.
EnqueueNull(r) ==
  /\ Listening /\ worker[r] = "idle" /\ mAccepting
  /\ mPending' = Append(mPending, "null")
  /\ state' = [state EXCEPT ![r] = "Queued"]
  /\ worker' = [worker EXCEPT ![r] = "checking"]
  /\ UNCHANGED <<mAccepting, batch, response, expired, answer, mRunning,
                 loop, historyVars>>

\* handleAdminHttpRequest + enqueue, the queue still accepting.
Enqueue(r) ==
  /\ Listening /\ worker[r] = "idle" /\ mAccepting
  /\ mPending' = Append(mPending, r)
  /\ state' = [state EXCEPT ![r] = "Queued"]
  /\ worker' = [worker EXCEPT ![r] = "checking"]
  /\ UNCHANGED <<mAccepting, batch, response, expired, answer, mRunning,
                 loop, historyVars>>

\* enqueue after cancelAll: no request is made, the handler answers 503.
RejectClosed(r) ==
  /\ Listening /\ worker[r] = "idle" /\ ~mAccepting
  /\ Reply(r, "down")
  /\ UNCHANGED <<queueVars, requestVars, expired, mRunning, loop, historyVars>>

\* The predicate of wait_for / wait is evaluated, request->mutex held.
CheckTerminal(r) ==
  /\ worker[r] = "checking"
  /\ IF state[r] \in Terminal
       THEN Reply(r, response[r])
       ELSE /\ worker' = [worker EXCEPT ![r] = "asleep"]
            /\ UNCHANGED answer
  /\ UNCHANGED <<queueVars, requestVars, expired, mRunning, loop, historyVars>>

\* Mutant of TimeOutQueued: the timeout does not look at the state.
TimeOutBlind(r) ==
  /\ worker[r] = "asleep" /\ ~expired[r] /\ state[r] \in {"Queued", "Running"}
  /\ expired' = [expired EXCEPT ![r] = TRUE]
  /\ state' = [state EXCEPT ![r] = "Cancelled"]
  /\ response' = [response EXCEPT ![r] = "timeout"]
  /\ Reply(r, "timeout")
  /\ UNCHANGED <<queueVars, mRunning, loop, historyVars>>

\* wait_for gives up: a queued request is cancelled by its own waiter.
TimeOutQueued(r) ==
  /\ worker[r] = "asleep" /\ ~expired[r] /\ state[r] = "Queued"
  /\ expired' = [expired EXCEPT ![r] = TRUE]
  /\ state' = [state EXCEPT ![r] = "Cancelled"]
  /\ response' = [response EXCEPT ![r] = "timeout"]
  /\ Reply(r, "timeout")
  /\ UNCHANGED <<queueVars, mRunning, loop, historyVars>>

\* Mutant of TimeOutRunning: a running request is reported as timed out.
TimeOutReported(r) ==
  /\ worker[r] = "asleep" /\ ~expired[r] /\ state[r] = "Running"
  /\ expired' = [expired EXCEPT ![r] = TRUE]
  /\ Reply(r, "timeout")
  /\ UNCHANGED <<queueVars, requestVars, mRunning, loop, historyVars>>

\* wait_for gives up on a running request: wait for its real result.
TimeOutRunning(r) ==
  /\ worker[r] = "asleep" /\ ~expired[r] /\ state[r] = "Running"
  /\ expired' = [expired EXCEPT ![r] = TRUE]
  /\ UNCHANGED <<queueVars, requestVars, worker, answer, mRunning, loop,
                 historyVars>>

\* wait_for gives up but its final predicate check finds an answer.
TimeOutLate(r) ==
  /\ worker[r] = "asleep" /\ ~expired[r] /\ state[r] \in Terminal
  /\ expired' = [expired EXCEPT ![r] = TRUE]
  /\ Reply(r, response[r])
  /\ UNCHANGED <<queueVars, requestVars, mRunning, loop, historyVars>>

TimeOut(r) == TimeOutQueued(r) \/ TimeOutRunning(r) \/ TimeOutLate(r)

\* requestStop, from a signal handler or the HTTP action "shutdown".
RequestStop ==
  /\ loop # "stopped"
  /\ mRunning' = FALSE
  /\ stops' = stops \cup {CASE loop \in Starting -> "starting"
                            [] loop \in Looping  -> "looping"
                            [] OTHER             -> "stopping"}
  /\ UNCHANGED <<queueVars, requestVars, workerVars, loop, outcome, runs>>

-----------------------------------------------------------------------------
(* The game-loop thread *)

\* run(): startAdminHttpServer returns with the listener accepting.
StartListening ==
  /\ loop = "init"
  /\ loop' = "boot"
  /\ UNCHANGED <<queueVars, requestVars, workerVars, mRunning, historyVars>>

\* run(): mRunning = true, whatever happened before.
StartLoop ==
  /\ loop = "boot"
  /\ mRunning' = TRUE
  /\ loop' = "top"
  /\ UNCHANGED <<queueVars, requestVars, workerVars, historyVars>>

\* while (mRunning)
TestRunning ==
  /\ loop = "top"
  /\ loop' = IF mRunning THEN "take" ELSE "close"
  /\ UNCHANGED <<queueVars, requestVars, workerVars, mRunning, historyVars>>

\* drain(): pending.swap(mPending)
DrainTake ==
  /\ loop = "take"
  /\ batch' = mPending
  /\ mPending' = <<>>
  /\ loop' = "drain"
  /\ UNCHANGED <<mAccepting, requestVars, workerVars, mRunning, historyVars>>

\* Mutant of DrainNext: every request of the batch is run.
DrainNextUnchecked ==
  /\ loop = "drain"
  /\ IF batch = <<>>
       THEN loop' = "top" /\ UNCHANGED state
       ELSE /\ state' = [state EXCEPT ![Head(batch)] = "Running"]
            /\ loop' = "execute"
  /\ UNCHANGED <<queueVars, response, workerVars, mRunning, historyVars>>

\* drain(): claim the next request, or skip it when it is no longer queued.
\* The claimed request stays at the head of the batch until it is reported.
DrainNext ==
  /\ loop = "drain"
  /\ IF batch = <<>>
       THEN /\ loop' = "top"
            /\ UNCHANGED <<batch, state>>
       ELSE IF state[Head(batch)] # "Queued"
       THEN /\ batch' = Tail(batch)
            /\ UNCHANGED <<loop, state>>
       ELSE /\ state' = [state EXCEPT ![Head(batch)] = "Running"]
            /\ loop' = "execute"
            /\ UNCHANGED batch
  /\ UNCHANGED <<mPending, mAccepting, response, workerVars, mRunning,
                 historyVars>>

\* The executor runs without any lock; an exception becomes a 500 response.
Execute(result) ==
  /\ loop = "execute"
  /\ runs' = [runs EXCEPT ![Head(batch)] = @ + 1]
  /\ outcome' = [outcome EXCEPT ![Head(batch)] = result]
  /\ loop' = "report"
  /\ UNCHANGED <<queueVars, requestVars, workerVars, mRunning, stops>>

Report ==
  /\ loop = "report"
  /\ state' = [state EXCEPT ![Head(batch)] = "Completed"]
  /\ response' = [response EXCEPT ![Head(batch)] = outcome[Head(batch)]]
  /\ loop' = "notify"
  /\ UNCHANGED <<queueVars, workerVars, mRunning, historyVars>>

\* condition.notify_all: the worker of r, if it sleeps, will look again.
NotifyAll(r) ==
  worker' = [worker EXCEPT ![r] = IF @ = "asleep" THEN "checking" ELSE @]

\* Mutant of DrainNotify: the notification is lost.
DrainSilently ==
  /\ loop = "notify"
  /\ batch' = Tail(batch)
  /\ loop' = "drain"
  /\ UNCHANGED <<mPending, mAccepting, requestVars, workerVars, mRunning,
                 historyVars>>

DrainNotify ==
  /\ loop = "notify"
  /\ NotifyAll(Head(batch))
  /\ batch' = Tail(batch)
  /\ loop' = "drain"
  /\ UNCHANGED <<mPending, mAccepting, requestVars, expired, answer, mRunning,
                 historyVars>>

\* cancelAll(): stop accepting and take what is pending.
CancelTake ==
  /\ loop = "close"
  /\ mAccepting' = FALSE
  /\ batch' = mPending
  /\ mPending' = <<>>
  /\ loop' = "cancel"
  /\ UNCHANGED <<requestVars, workerVars, mRunning, historyVars>>

\* Mutant of CancelNext: cancelAll overwrites what is already settled.
CancelNext ==
  /\ loop = "cancel"
  /\ IF batch = <<>>
       THEN /\ loop' = "join"
            /\ UNCHANGED <<batch, requestVars>>
       ELSE IF state[Head(batch)] # "Queued"
       THEN /\ batch' = Tail(batch)
            /\ UNCHANGED <<loop, requestVars>>
       ELSE /\ state' = [state EXCEPT ![Head(batch)] = "Cancelled"]
            /\ response' = [response EXCEPT ![Head(batch)] = "down"]
            /\ loop' = "wake"
            /\ UNCHANGED batch
  /\ UNCHANGED <<mPending, mAccepting, workerVars, mRunning, historyVars>>

CancelNotify ==
  /\ loop = "wake"
  /\ NotifyAll(Head(batch))
  /\ batch' = Tail(batch)
  /\ loop' = "cancel"
  /\ UNCHANGED <<mPending, mAccepting, requestVars, expired, answer, mRunning,
                 historyVars>>

\* stopAdminHttpServer(): no new connection is served, and the listener
\* thread is joined once every worker has returned.
Join ==
  /\ loop = "join"
  /\ \A r \in Requests : worker[r] \in {"idle", "answered"}
  /\ loop' = "stopped"
  /\ UNCHANGED <<queueVars, requestVars, workerVars, mRunning, historyVars>>

-----------------------------------------------------------------------------
WorkerStep(r) == CheckTerminal(r) \/ TimeOut(r)

LoopStep ==
  \/ StartListening \/ StartLoop \/ TestRunning
  \/ DrainTake \/ DrainNext \/ Report \/ DrainNotify
  \/ \E result \in Results : Execute(result)
  \/ CancelTake \/ CancelNext \/ CancelNotify \/ Join

\* After shutdown nothing happens any more.
Terminated == loop = "stopped" /\ UNCHANGED vars

Next ==
  \/ \E r \in Requests : Enqueue(r) \/ RejectClosed(r) \/ WorkerStep(r)
  \/ RequestStop
  \/ LoopStep
  \/ Terminated

\* Threads that can run do run, and clocks advance.  Nobody is obliged to send
\* a request or to ask the server to stop.
Fairness ==
  /\ WF_vars(LoopStep)
  /\ \A r \in Requests : WF_vars(CheckTerminal(r)) /\ WF_vars(TimeOut(r))

Spec == Init /\ [][Next]_vars /\ Fairness

-----------------------------------------------------------------------------
(* Properties *)

\* A client is told 504 or 503 only when its mutation did not run, and a
\* result only when it ran exactly once: what wait() returns is the truth
\* about a destructive operation, whichever of drain, timeout and cancelAll
\* reaches the request first.
AnswersTruthful ==
  \A r \in Requests : worker[r] = "answered" =>
    /\ answer[r] \in Refusals <=> runs[r] = 0
    /\ answer[r] \in Results  <=> runs[r] = 1
    /\ runs[r] = 1 => answer[r] = outcome[r]

\* The comment in shutdown(): a queued mutation that was cancelled never runs
\* later.  No step calls the executor for a request that is cancelled, that
\* already ran, or whose client has been answered.
RunsOnlyFresh ==
  \A r \in Requests :
    runs'[r] # runs[r] =>
      runs[r] = 0 /\ state[r] = "Running" /\ answer[r] = "none" /\ mAccepting

NeverRunsAgain == [][RunsOnlyFresh]_vars

\* Once the loop runs, requestStop ends the server: the join of the HTTP
\* threads does not wait for a worker that waits for the loop.  (A stop between
\* the start of the listener and the start of the loop is overwritten by run.)
StopInLoopHonoured == "looping" \in stops ~> loop = "stopped"
-----------------------------------------------------------------------------
(* Refinement: the queue implements AdminMutation *)

\* The client of r has been refused; its request will not run.
Refused(r) == state[r] = "Cancelled" \/ answer[r] = "down"

FateOf(r) ==
  IF runs[r] # 0 THEN "performed"
  ELSE IF Refused(r) THEN "abandoned"
  ELSE IF state[r] = "Absent" THEN "unmade"
  ELSE "open"

ToldOf(r) ==
  IF answer[r] \in Results THEN "result"
  ELSE IF answer[r] \in Refusals THEN "refusal"
  ELSE "nothing"

Fate == [r \in Requests |-> FateOf(r)]
Told == [r \in Requests |-> ToldOf(r)]

Promise == INSTANCE AdminMutation WITH fate <- Fate, told <- Told

\* Whatever the interleaving of workers, timeouts, drain and shutdown, the
\* queue behaves as AdminMutation says, its liveness included: what is settled
\* is final, and every accepted request is settled and answered (no lost wake-up,
\* no request forgotten in a swapped-out vector, no worker left behind).
ImplementsPromise == Promise!Spec
=============================================================================
