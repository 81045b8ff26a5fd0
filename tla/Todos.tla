-------------------------------- MODULE Todos --------------------------------
(***************************************************************************)
(* Creating a todo: the pipeline of CreateTodoOrchestrator as              *)
(* BaseOrchestrator runs it in the API process, the row in PostgreSQL, the *)
(* notification job in Redis, and the worker process that takes it.        *)
(*                                                                         *)
(* A stage that times out is abandoned, not stopped: its database or queue *)
(* operation goes on and writes to the same context object.  The pipeline  *)
(* has a timer of its own, and a pipeline whose timer fired goes on too;   *)
(* only the first settlement reaches the client.  Timers may fire at any   *)
(* moment after they are set: how late a busy event loop runs them is not  *)
(* bounded by the code.                                                    *)
(*                                                                         *)
(* BullMQ and ioredis are external: a job has a state and a count of       *)
(* failed attempts; an unacknowledged command is sent again when the       *)
(* connection returns; a job of a dead worker is handed out again.         *)
(***************************************************************************)
EXTENDS Naturals, Sequences, FiniteSets

CONSTANTS
  Request,      \* POST /todos requests; a todo is named by the request that stored it
  Worker,       \* worker processes
  NoWorker,
  Attempts,     \* DEFAULT_JOB_OPTIONS.attempts
  Concurrency,  \* jobs one worker runs at a time
  MaxJobs,      \* bound: jobs ever added to the queue
  MaxFaults     \* bound: connection losses and worker deaths

ASSUME TodosAssumption ==
  /\ NoWorker \notin Worker
  /\ Attempts \in Nat \ {0}
  /\ Concurrency \in Nat \ {0}
  /\ MaxJobs \in Nat
  /\ MaxFaults \in Nat

VARIABLES
  api,       \* the API process: accepting requests, draining them, or gone
  redis,     \* whether the API's and the workers' connections to Redis work
  worker,    \* each worker process
  task,      \* each request: pipeline stage, answer, and what became of its operations
  rows,      \* the todos table
  jobs,      \* the notifications queue, in the order jobs were added
  dead,      \* jobs the worker logged as dead-lettered
  late,      \* history: requests of which a timer fired
  faults     \* connection losses and worker deaths so far

apiSide == <<task, rows, late>>
queueSide == <<redis, worker, jobs, dead, faults>>
todoVars == <<api, apiSide, queueSide>>

-----------------------------------------------------------------------------
(* The pipeline *)

(* insert and add follow the two operations that leave the process: "sent" *)
(* (on its way), "stored"/"queued" (done at the server, the answer not yet *)
(* here), then the outcome the API has seen, or "lost" with the process.   *)
(* "cut": the process ended before it answered.                            *)
Tasks ==
  [stage : {"unsent", "create-todo", "notify-creation", "over"},
   answer : {"none", "created", "refused", "cut"},
   insert : {"none", "sent", "stored", "done", "failed", "lost"},
   add : {"none", "sent", "queued", "done", "failed", "lost"},
   known : BOOLEAN]

FreshTask ==
  [stage |-> "unsent", answer |-> "none", insert |-> "none", add |-> "none", known |-> FALSE]

Open(q) == task[q].stage # "unsent" /\ task[q].answer = "none"

(* A promise settles once. *)
Told(t, answer) == IF t.answer = "none" THEN answer ELSE t.answer

BuiltAnyway(t) ==   \* mutant: buildResult does not look for the todo
  [t EXCEPT !.stage = "over", !.answer = Told(t, "created")]

(* The pipeline ends: buildResult throws without a todo, and the route     *)
(* turns an unsuccessful result into a 400.                                *)
Built(t) ==
  [t EXCEPT !.stage = "over", !.answer = Told(t, IF t.known THEN "created" ELSE "refused")]

(* notifyCreation returns at once when there is no todo. *)
Notifying(t) ==
  IF t.known THEN [t EXCEPT !.stage = "notify-creation", !.add = "sent"] ELSE Built(t)

(* createTodo returns at once when validate-input found errors. *)
Creating(t, valid) ==
  IF valid THEN [t EXCEPT !.stage = "create-todo", !.insert = "sent"] ELSE Built(t)

Critical == {"validate-input", "create-todo"}

Swallowing(t) == [t EXCEPT !.stage = "over"]   \* mutant: the rejection is not passed on

(* A stage rejects: a critical one ends the pipeline with an error, after  *)
(* any other the pipeline goes on.                                         *)
StageFails(t) ==
  IF t.stage \in Critical
  THEN [t EXCEPT !.stage = "over", !.answer = Told(t, "refused")]
  ELSE Built(t)

Becomes(q, t) == task' = [task EXCEPT ![q] = t]

Post(q) ==
  /\ api = "up"
  /\ task[q].stage = "unsent"
  /\ \E valid \in BOOLEAN : Becomes(q, Creating(task[q], valid))
  /\ UNCHANGED <<api, rows, late, queueSide>>

(* The database commits, whether or not anybody still waits for it. *)
Insert(q) ==
  /\ task[q].insert = "sent"
  /\ Becomes(q, [task[q] EXCEPT !.insert = "stored"])
  /\ rows' = rows \union {q}
  /\ UNCHANGED <<api, late, queueSide>>

InsertReturns(q) ==
  /\ api # "down"
  /\ task[q].insert = "stored"
  /\ LET t == [task[q] EXCEPT !.insert = "done", !.known = TRUE]
     IN Becomes(q, IF t.stage = "create-todo" THEN Notifying(t) ELSE t)
  /\ UNCHANGED <<api, rows, late, queueSide>>

(* createTodo catches the error, the stage succeeds without a todo.  The   *)
(* row may have been stored when only the answer is lost.                  *)
InsertFails(q) ==
  /\ api # "down"
  /\ task[q].insert \in {"sent", "stored"}
  /\ LET t == [task[q] EXCEPT !.insert = "failed"]
     IN Becomes(q, IF t.stage = "create-todo" THEN Notifying(t) ELSE t)
  /\ UNCHANGED <<api, rows, late, queueSide>>

NewJob(q) == [todo |-> q, state |-> "waiting", made |-> 0, by |-> NoWorker, runs |-> 0]

Enqueue(q) ==
  /\ task[q].add = "sent"
  /\ redis = "up"
  /\ Len(jobs) < MaxJobs
  /\ Becomes(q, [task[q] EXCEPT !.add = "queued"])
  /\ jobs' = Append(jobs, NewJob(q))
  /\ UNCHANGED <<api, rows, late, redis, worker, dead, faults>>

AddReturns(q) ==
  /\ api # "down"
  /\ redis = "up"
  /\ task[q].add = "queued"
  /\ LET t == [task[q] EXCEPT !.add = "done"]
     IN Becomes(q, IF t.stage = "notify-creation" THEN Built(t) ELSE t)
  /\ UNCHANGED <<api, rows, late, queueSide>>

AddFails(q) ==
  /\ api # "down"
  /\ task[q].add \in {"sent", "queued"}
  /\ LET t == [task[q] EXCEPT !.add = "failed"]
     IN Becomes(q, IF t.stage = "notify-creation" THEN StageFails(t) ELSE t)
  /\ UNCHANGED <<api, rows, late, queueSide>>

Awaiting(q) == task[q].stage \in {"create-todo", "notify-creation"}

(* runWithTimeout rejects; the operation is left running. *)
StageTimesOut(q) ==
  /\ api # "down"
  /\ Awaiting(q)
  /\ Becomes(q, StageFails(task[q]))
  /\ late' = late \union {q}
  /\ UNCHANGED <<api, rows, queueSide>>

(* runPipelineWithTimeout rejects; the stages go on. *)
PipelineTimesOut(q) ==
  /\ api # "down"
  /\ Awaiting(q)
  /\ Open(q)
  /\ Becomes(q, [task[q] EXCEPT !.answer = Told(task[q], "refused")])
  /\ late' = late \union {q}
  /\ UNCHANGED <<api, rows, queueSide>>

(* The process ends.  What it was waiting for is forgotten; operations in  *)
(* flight reached their server, or did not.                                *)
Forgotten(t, arrived) ==
  LET Gone(op) == IF op = "sent" /\ ~arrived THEN "lost" ELSE op
  IN IF t.stage = "unsent" THEN t
     ELSE [t EXCEPT !.stage = "over", !.answer = Told(t, "cut"),
                    !.insert = Gone(t.insert), !.add = Gone(t.add)]

ApiStops ==
  /\ api # "down"
  /\ api' = "down"
  /\ \E arrived \in SUBSET Request :
       task' = [q \in Request |-> Forgotten(task[q], q \in arrived /\ redis = "up")]
  /\ UNCHANGED <<rows, late>>

-----------------------------------------------------------------------------
(* The queue and its workers *)

Jobs ==
  [todo : Request, state : {"waiting", "active", "handled", "delayed", "completed", "failed"},
   made : 0..Attempts, by : Worker \union {NoWorker}, runs : Nat]

Unfinished(w) == {i \in DOMAIN jobs : jobs[i].by = w}

Alive(w) == worker[w] \in {"running", "closing"}

JobBecomes(i, job) ==
  /\ jobs' = [jobs EXCEPT ![i] = job]
  /\ UNCHANGED <<api, apiSide, redis, worker, faults>>

Take(w, i) ==
  /\ redis = "up"
  /\ worker[w] = "running"
  /\ jobs[i].state = "waiting"
  /\ Cardinality(Unfinished(w)) < Concurrency
  /\ JobBecomes(i, [jobs[i] EXCEPT !.state = "active", !.by = w])
  /\ UNCHANGED dead

Running(i) == jobs[i].state = "active" /\ jobs[i].by # NoWorker

(* The function returns; BullMQ has not recorded that yet. *)
Process(i) ==
  /\ Running(i)
  /\ JobBecomes(i, [jobs[i] EXCEPT !.state = "handled", !.runs = @ + 1])
  /\ UNCHANGED dead

Complete(i) ==
  /\ redis = "up"
  /\ jobs[i].state = "handled" /\ jobs[i].by # NoWorker
  /\ JobBecomes(i, [jobs[i] EXCEPT !.state = "completed", !.by = NoWorker])
  /\ UNCHANGED dead

ExhaustedLate(made) == made > Attempts   \* mutant: one attempt too many is waited for

(* The test of the 'failed' listener. *)
Exhausted(made) == made >= Attempts

RetriedOnceMore(made) == made <= Attempts   \* mutant: attempts counts the retries

Retried(made) == made < Attempts

(* The function throws: retried after the backoff, or kept as failed.  The *)
(* listener runs once Redis has recorded it.                               *)
AttemptFails(i) ==
  /\ redis = "up"
  /\ Running(i)
  /\ LET made == jobs[i].made + 1
     IN JobBecomes(i,
          IF Retried(made)
          THEN [jobs[i] EXCEPT !.made = made, !.state = "delayed", !.by = NoWorker]
          ELSE [jobs[i] EXCEPT !.made = made, !.state = "failed"])
  /\ UNCHANGED dead

Listen(i) ==
  /\ jobs[i].state = "failed" /\ jobs[i].by # NoWorker
  /\ JobBecomes(i, [jobs[i] EXCEPT !.by = NoWorker])
  /\ dead' = IF Exhausted(jobs[i].made) THEN dead \union {i} ELSE dead

BackoffEnds(i) ==
  /\ redis = "up"
  /\ jobs[i].state = "delayed"
  /\ JobBecomes(i, [jobs[i] EXCEPT !.state = "waiting"])
  /\ UNCHANGED dead

(* A running worker finds a job whose worker is gone. *)
Stalled(i) ==
  /\ redis = "up"
  /\ jobs[i].state \in {"active", "handled"} /\ jobs[i].by = NoWorker
  /\ \E w \in Worker : worker[w] = "running"
  /\ JobBecomes(i, [jobs[i] EXCEPT !.state = "waiting"])
  /\ UNCHANGED dead

(* SIGTERM: worker.close() takes no more jobs and waits for those taken. *)
WorkerSignalled(w) ==
  /\ worker[w] = "running"
  /\ worker' = [worker EXCEPT ![w] = "closing"]
  /\ UNCHANGED <<api, apiSide, redis, jobs, dead, faults>>

WorkerGone(w) ==
  /\ worker' = [worker EXCEPT ![w] = "gone"]
  /\ jobs' = [i \in DOMAIN jobs |->
                IF jobs[i].by = w THEN [jobs[i] EXCEPT !.by = NoWorker] ELSE jobs[i]]
  /\ UNCHANGED <<api, apiSide, redis, dead>>

AtOnce(w) == TRUE   \* mutant: close() does not wait

WhenEmpty(w) ==   \* mutant: it waits for the jobs nobody has taken as well
  \A i \in DOMAIN jobs : jobs[i].state \in {"completed", "failed"}

MayClose(w) == Unfinished(w) = {}

WorkerCloses(w) ==
  /\ worker[w] = "closing"
  /\ MayClose(w)
  /\ WorkerGone(w)
  /\ UNCHANGED faults

(* A crash, or the ten seconds of a shutdown are over. *)
WorkerDies(w) ==
  /\ Alive(w)
  /\ faults < MaxFaults
  /\ faults' = faults + 1
  /\ WorkerGone(w)

(* The deployment starts it again. *)
WorkerStarts(w) ==
  /\ worker[w] = "gone"
  /\ worker' = [worker EXCEPT ![w] = "running"]
  /\ UNCHANGED <<api, apiSide, redis, jobs, dead, faults>>

(* Commands without an answer are sent again on the next connection. *)
RedisDrops ==
  /\ redis = "up"
  /\ faults < MaxFaults
  /\ redis' = "down"
  /\ faults' = faults + 1
  /\ task' = [q \in Request |->
       IF api # "down" /\ task[q].add = "queued" THEN [task[q] EXCEPT !.add = "sent"] ELSE task[q]]
  /\ UNCHANGED <<api, rows, late, worker, jobs, dead>>

RedisReturns ==
  /\ redis = "down"
  /\ redis' = "up"
  /\ UNCHANGED <<api, apiSide, worker, jobs, dead, faults>>

-----------------------------------------------------------------------------
TodosInit ==
  /\ api = "down"
  /\ redis = "up"
  /\ worker = [w \in Worker |-> "running"]
  /\ task = [q \in Request |-> FreshTask]
  /\ rows = {}
  /\ jobs = <<>>
  /\ dead = {}
  /\ late = {}
  /\ faults = 0

Pipeline(q) ==
  \/ Post(q) \/ Insert(q) \/ InsertReturns(q) \/ InsertFails(q)
  \/ Enqueue(q) \/ AddReturns(q) \/ AddFails(q)
  \/ StageTimesOut(q) \/ PipelineTimesOut(q)

Delivery(i) ==
  \/ \E w \in Worker : Take(w, i)
  \/ Process(i) \/ Complete(i) \/ AttemptFails(i) \/ Listen(i)
  \/ BackoffEnds(i) \/ Stalled(i)

TodosNext ==
  \/ \E q \in Request : Pipeline(q)
  \/ \E i \in DOMAIN jobs : Delivery(i)
  \/ \E w \in Worker : WorkerSignalled(w) \/ WorkerCloses(w) \/ WorkerDies(w) \/ WorkerStarts(w)
  \/ RedisDrops \/ RedisReturns

(* Timers are set before the operation is started and never cancelled      *)
(* while it is awaited.  A connected worker asks for jobs as soon as it    *)
(* runs (strongly fair: rollouts may restart it again and again), runs and *)
(* reports them; the deployment restarts it; ioredis reconnects for ever.  *)
TodosFairness ==
  /\ \A q \in Request : WF_todoVars(StageTimesOut(q))
  /\ \A i \in 1..MaxJobs :
       /\ SF_todoVars(i \in DOMAIN jobs /\ \E w \in Worker : Take(w, i))
       /\ WF_todoVars(i \in DOMAIN jobs /\ (Process(i) \/ AttemptFails(i)))
       /\ WF_todoVars(i \in DOMAIN jobs /\ Listen(i))
       /\ WF_todoVars(i \in DOMAIN jobs /\ Complete(i))
       /\ WF_todoVars(i \in DOMAIN jobs /\ BackoffEnds(i))
       /\ SF_todoVars(i \in DOMAIN jobs /\ Stalled(i))
  /\ \A w \in Worker : WF_todoVars(WorkerCloses(w)) /\ WF_todoVars(WorkerStarts(w))
  /\ WF_todoVars(RedisReturns)

-----------------------------------------------------------------------------
(* Properties *)

TodosTypeOK ==
  /\ api \in {"up", "draining", "down"}
  /\ redis \in {"up", "down"}
  /\ worker \in [Worker -> {"running", "closing", "gone"}]
  /\ task \in [Request -> Tasks]
  /\ rows \subseteq Request
  /\ jobs \in Seq(Jobs)
  /\ dead \subseteq DOMAIN jobs
  /\ late \subseteq Request
  /\ faults \in 0..MaxFaults

(* README.md:197 "critical vs non-critical stages": a queue that is slow,  *)
(* down or failing never turns a created todo into an error.  If the       *)
(* pipeline had the row in hand, only a timer makes it answer 400.         *)
QueueNeverRefuses ==
  \A q \in Request : (task[q].known /\ task[q].answer = "refused") => q \in late

(* A 201 without a timer firing or a rejected enqueue means the job is in  *)
(* the queue: nobody is told "created" while the notification was skipped. *)
CreatedIsQueued ==
  \A q \in Request :
    (task[q].answer = "created" /\ q \notin late /\ task[q].add # "failed")
      => \E i \in DOMAIN jobs : jobs[i].todo = q

(* requirements.md:91 "Failed jobs (after all retries) are moved to a      *)
(* dead-letter queue and logged at error": what stays in the failed set is *)
(* what was logged, however workers come and go between the attempts; only *)
(* a worker that dies before its listener runs leaves one out.             *)
DeadLettersReported ==
  LET Failed == {i \in DOMAIN jobs : jobs[i].state = "failed"}
  IN /\ dead \subseteq Failed
     /\ faults = 0 => \A i \in Failed : i \in dead \/ jobs[i].by # NoWorker

(* What the API answers, what the queue holds and what the worker logs     *)
(* agree: no stage, timer or attempt ends without a trace of what it did.  *)
OutcomesHonest == QueueNeverRefuses /\ CreatedIsQueued /\ DeadLettersReported

(* A notification runs twice only after a lost connection or a dead        *)
(* worker: orderly shutdowns, retries and late stages never repeat one.    *)
Runs(q) ==
  LET S == {i \in DOMAIN jobs : jobs[i].todo = q}
  IN IF \A i \in S : jobs[i].runs = 0 THEN 0
     ELSE IF Cardinality({i \in S : jobs[i].runs > 0}) = 1 /\ \A i \in S : jobs[i].runs <= 1
          THEN 1 ELSE 2

RepeatedOnlyAfterFault == \A q \in Request : Runs(q) > 1 => faults > 0

(* Every notification in the queue is delivered or dead-lettered.          *)
JobsFinish ==
  \A i \in 1..MaxJobs :
    i \in DOMAIN jobs ~> i \in DOMAIN jobs /\ jobs[i].state \in {"completed", "failed"}

(* Whatever the database and the queue do, every accepted request is       *)
(* answered, or its process ends.                                          *)
RequestsAnswered == \A q \in Request : Open(q) ~> task[q].answer # "none"

Promise == INSTANCE TodoPromise WITH
  stored <- rows,
  told <- [q \in Request |-> IF task[q].answer = "cut" THEN "none" ELSE task[q].answer],
  notified <- {q \in Request : \E i \in DOMAIN jobs : jobs[i].todo = q /\ jobs[i].runs > 0}

(* The pipeline, the queue and the worker keep the promise of TodoPromise. *)
KeepsPromise == Promise!PromiseSpec
=============================================================================
