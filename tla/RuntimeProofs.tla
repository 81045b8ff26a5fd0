---------------------------- MODULE RuntimeProofs ----------------------------
(***************************************************************************)
(* Theorems about Todos and Runtime, for any requests, workers, attempts,  *)
(* bounds and deadline.                                                    *)
(***************************************************************************)
EXTENDS Runtime, FiniteSetTheorems, SequenceTheorems, TLAPS

USE TodosAssumption, RuntimeAssumption DEF TodosAssumption, RuntimeAssumption

JobOf(q) == \E i \in DOMAIN jobs : jobs[i].todo = q

(* What a request's record says of the table, the timers and the queue. *)
TaskIs(t, q) ==
  /\ t.stage = "unsent" => t.answer = "none" /\ t.insert = "none" /\ t.add = "none" /\ ~t.known
  /\ t.stage = "create-todo" => t.add = "none" /\ ~t.known /\ t.answer # "created"
  /\ t.stage = "notify-creation" => t.known /\ t.answer # "created"
  /\ t.insert \in {"stored", "done"} => q \in rows
  /\ t.known => t.insert = "done"
  /\ t.add # "none" => t.known
  /\ t.answer = "created" => t.known /\ (q \in late \/ t.add \in {"done", "failed"})
  /\ t.answer = "refused" => q \in late \/ (~t.known /\ t.insert \notin {"sent", "stored"})
  /\ t.add \in {"queued", "done"} => JobOf(q)
  /\ JobOf(q) => t.add # "none" /\ (faults = 0 => t.add # "sent")

TasksKept == \A q \in Request : TaskIs(task[q], q)

(* What a job's record says of its attempts, and, while nothing has        *)
(* failed, of its runs and of its worker.                                  *)
JobIs(job, i) ==
  /\ job.state \in {"waiting", "active", "handled", "delayed"} => job.made < Attempts
  /\ job.state = "failed" => job.made >= Attempts
  /\ i \in dead => job.state = "failed"
  /\ faults = 0 =>
       /\ job.runs = IF job.state \in {"handled", "completed"} THEN 1 ELSE 0
       /\ job.state \in {"active", "handled"} => job.by # NoWorker
       /\ (job.state = "failed" /\ job.by = NoWorker) => i \in dead

JobsKept == \A i \in DOMAIN jobs : JobIs(jobs[i], i)

OneJobEach == faults = 0 => \A i, j \in DOMAIN jobs : jobs[i].todo = jobs[j].todo => i = j

(* Only a serving process opens a request, and hooks wait for those open. *)
AnsweredBeforeClosing ==
  /\ api = "up" <=> phase = "serving"
  /\ phase \notin {"serving", "draining"} => AllAnswered

Kept == TodosTypeOK /\ TasksKept /\ JobsKept /\ OneJobEach

Inv == RuntimeTypeOK /\ TasksKept /\ JobsKept /\ OneJobEach /\ AnsweredBeforeClosing

-----------------------------------------------------------------------------
(* The stages, as functions of a request's record *)

(* The end of the pipeline answers "created" only with the todo in hand,   *)
(* and leaves an answer already given as it is.                            *)
LEMMA BuiltFields ==
  ASSUME NEW t \in Tasks
  PROVE  /\ Built(t) \in Tasks
         /\ Built(t).stage = "over"
         /\ Built(t).answer =
              IF t.answer = "none" THEN (IF t.known THEN "created" ELSE "refused") ELSE t.answer
         /\ Built(t).insert = t.insert /\ Built(t).add = t.add /\ Built(t).known = t.known
  <1>1. \A a \in {"created", "refused"} : Told(t, a) \in {"none", "created", "refused", "cut"}
    BY DEF Told, Tasks
  <1>2. QED BY <1>1 DEF Built, Told, Tasks

(* The notification is sent only with the todo in hand.                    *)
LEMMA NotifyingFields ==
  ASSUME NEW t \in Tasks
  PROVE  /\ Notifying(t) \in Tasks
         /\ t.known =>
              /\ Notifying(t).stage = "notify-creation" /\ Notifying(t).add = "sent"
              /\ Notifying(t).answer = t.answer /\ Notifying(t).insert = t.insert
              /\ Notifying(t).known = t.known
         /\ ~t.known => Notifying(t) = Built(t)
  <1>1. CASE t.known
    BY <1>1 DEF Notifying, Tasks
  <1>2. CASE ~t.known
    BY <1>2, BuiltFields DEF Notifying
  <1>3. QED BY <1>1, <1>2

(* A failed stage refuses the request if it is critical and ends the       *)
(* pipeline otherwise.                                                     *)
LEMMA StageFailsFields ==
  ASSUME NEW t \in Tasks
  PROVE  /\ StageFails(t) \in Tasks
         /\ StageFails(t).stage = "over"
         /\ StageFails(t).answer =
              IF t.answer # "none" THEN t.answer
              ELSE IF t.stage \in Critical \/ ~t.known THEN "refused" ELSE "created"
         /\ StageFails(t).insert = t.insert /\ StageFails(t).add = t.add
         /\ StageFails(t).known = t.known
  <1>1. CASE t.stage \in Critical
    <2>1. Told(t, "refused") \in {"none", "created", "refused", "cut"}
      BY DEF Told, Tasks
    <2>2. QED BY <1>1, <2>1 DEF StageFails, Told, Tasks
  <1>2. CASE t.stage \notin Critical
    BY <1>2, BuiltFields DEF StageFails
  <1>3. QED BY <1>1, <1>2

-----------------------------------------------------------------------------
(* The steps of the pipelines *)

(* A step of one request: its record stays true to the table, the timers   *)
(* and the queue; an answer is given once, and only a process that is up   *)
(* opens a request.                                                        *)
TaskStep(q) ==
  \E u \in Tasks :
    /\ Becomes(q, u)
    /\ TaskIs(u, q)'
    /\ u.answer = task[q].answer \/ (task[q].answer = "none" /\ UNCHANGED rows)
    /\ u.answer # "cut" \/ task[q].answer = "cut"
    /\ (u.stage = "unsent" <=> task[q].stage = "unsent") \/ api = "up"

(* What the type invariant says of one request and one job. *)
LEMMA TodosTypes ==
  ASSUME TodosTypeOK
  PROVE  /\ task \in [Request -> Tasks] /\ \A q \in Request : task[q] \in Tasks
         /\ jobs \in Seq(Jobs) /\ DOMAIN jobs = 1..Len(jobs) /\ Len(jobs) \in Nat
         /\ \A i \in DOMAIN jobs : jobs[i] \in Jobs
  BY LenProperties, ElementOfSeq DEF TodosTypeOK

(* The queue still holds a job of every todo it held one of. *)
LEMMA SameJobs ==
  ASSUME UNCHANGED <<jobs, faults>>
  PROVE  \A q : JobOf(q)' <=> JobOf(q)
  BY DEF JobOf

(* A request begins, and a valid one sends its insert. *)
LEMMA PostStep ==
  ASSUME Inv, NEW q \in Request, Post(q)
  PROVE  TaskStep(q)
  <1>1. task[q] \in Tasks /\ TaskIs(task[q], q)
    BY TodosTypes DEF Inv, RuntimeTypeOK, TasksKept
  <1>2. PICK valid \in BOOLEAN : Becomes(q, Creating(task[q], valid))
    BY DEF Post
  <1>3. /\ api = "up" /\ task[q].stage = "unsent" /\ UNCHANGED <<rows, late, jobs, faults>>
    BY DEF Post, queueSide
  <1>4. PICK u \in Tasks :
          /\ u = Creating(task[q], valid) /\ u.add = task[q].add /\ u.known = task[q].known
          /\ \/ u.stage = "create-todo" /\ u.insert = "sent" /\ u.answer = task[q].answer
             \/ u.stage = "over" /\ u.insert = task[q].insert /\ u.answer = "refused"
    <2>1. CASE valid
      <3> DEFINE u == [task[q] EXCEPT !.stage = "create-todo", !.insert = "sent"]
      <3>1. /\ u \in Tasks /\ u.add = task[q].add /\ u.known = task[q].known
            /\ u.stage = "create-todo" /\ u.insert = "sent" /\ u.answer = task[q].answer
        BY <1>1 DEF Tasks
      <3>2. u = Creating(task[q], valid)
        BY <2>1 DEF Creating
      <3> HIDE DEF u
      <3>3. QED BY <3>1, <3>2
    <2>2. CASE ~valid
      BY <1>1, <1>3, <2>2, BuiltFields DEF Creating, TaskIs
    <2>3. QED BY <2>1, <2>2
  <1>5. JobOf(q)' <=> JobOf(q)
    BY <1>3, SameJobs
  <1>6. TaskIs(u, q)'
    BY <1>1, <1>3, <1>4, <1>5 DEF TaskIs
  <1>7. QED BY <1>1, <1>2, <1>3, <1>4, <1>6 DEF TaskStep, TaskIs

(* The insert reaches the database. *)
LEMMA InsertStep ==
  ASSUME Inv, NEW q \in Request, Insert(q)
  PROVE  TaskStep(q)
  <1> DEFINE u == [task[q] EXCEPT !.insert = "stored"]
  <1>1. task[q] \in Tasks /\ TaskIs(task[q], q)
    BY TodosTypes DEF Inv, RuntimeTypeOK, TasksKept
  <1>2. /\ Becomes(q, u) /\ task[q].insert = "sent" /\ rows' = rows \union {q}
        /\ UNCHANGED <<late, jobs, faults>>
    BY DEF Insert, queueSide
  <1>3. /\ u \in Tasks /\ u.insert = "stored" /\ u.stage = task[q].stage
        /\ u.answer = task[q].answer /\ u.add = task[q].add /\ u.known = task[q].known
    BY <1>1 DEF Tasks
  <1>4. PICK v \in Tasks : v = u
    BY <1>3
  <1> HIDE DEF u
  <1>5. JobOf(q)' <=> JobOf(q)
    BY <1>2, SameJobs
  <1>6. TaskIs(v, q)'
    BY <1>1, <1>2, <1>3, <1>4, <1>5 DEF TaskIs
  <1>7. QED BY <1>1, <1>2, <1>3, <1>4, <1>6 DEF TaskStep

(* Its answer makes the todo known, unless the stage is over. *)
LEMMA InsertReturnsStep ==
  ASSUME Inv, NEW q \in Request, InsertReturns(q)
  PROVE  TaskStep(q)
  <1> DEFINE t == [task[q] EXCEPT !.insert = "done", !.known = TRUE]
             u == IF t.stage = "create-todo" THEN Notifying(t) ELSE t
  <1>1. task[q] \in Tasks /\ TaskIs(task[q], q)
    BY TodosTypes DEF Inv, RuntimeTypeOK, TasksKept
  <1>2. /\ Becomes(q, u) /\ task[q].insert = "stored" /\ UNCHANGED <<rows, late, jobs, faults>>
    BY DEF InsertReturns, queueSide
  <1>3. /\ t \in Tasks /\ t.insert = "done" /\ t.known = TRUE /\ t.stage = task[q].stage
        /\ t.answer = task[q].answer /\ t.add = task[q].add
    BY <1>1 DEF Tasks
  <1> HIDE DEF t
  <1>4. /\ u \in Tasks /\ u.insert = "done" /\ u.known = TRUE /\ u.answer = task[q].answer
        /\ \/ task[q].stage = "create-todo" /\ u.stage = "notify-creation" /\ u.add = "sent"
           \/ task[q].stage # "create-todo" /\ u.stage = task[q].stage /\ u.add = task[q].add
    BY <1>3, NotifyingFields
  <1>5. PICK v \in Tasks : v = u
    BY <1>4
  <1> HIDE DEF u
  <1>6. JobOf(q)' <=> JobOf(q)
    BY <1>2, SameJobs
  <1>7. TaskIs(v, q)'
    BY <1>1, <1>2, <1>4, <1>5, <1>6 DEF TaskIs
  <1>8. QED BY <1>1, <1>2, <1>4, <1>5, <1>7 DEF TaskStep

(* Its failure leaves the request without a todo it knows. *)
LEMMA InsertFailsStep ==
  ASSUME Inv, NEW q \in Request, InsertFails(q)
  PROVE  TaskStep(q)
  <1> DEFINE t == [task[q] EXCEPT !.insert = "failed"]
             u == IF t.stage = "create-todo" THEN Notifying(t) ELSE t
  <1>1. task[q] \in Tasks /\ TaskIs(task[q], q)
    BY TodosTypes DEF Inv, RuntimeTypeOK, TasksKept
  <1>2. /\ Becomes(q, u) /\ task[q].insert \in {"sent", "stored"}
        /\ UNCHANGED <<rows, late, jobs, faults>>
    BY DEF InsertFails, queueSide
  <1>3. /\ t \in Tasks /\ t.insert = "failed" /\ t.known = task[q].known /\ t.stage = task[q].stage
        /\ t.answer = task[q].answer /\ t.add = task[q].add
    BY <1>1 DEF Tasks
  <1>4. ~task[q].known
    BY <1>1, <1>2 DEF TaskIs
  <1> HIDE DEF t
  <1>5. /\ u \in Tasks /\ u.insert = "failed" /\ ~u.known /\ u.add = task[q].add
        /\ \/ /\ task[q].stage = "create-todo" /\ u.stage = "over"
              /\ u.answer = IF task[q].answer = "none" THEN "refused" ELSE task[q].answer
           \/ /\ task[q].stage # "create-todo" /\ u.stage = task[q].stage
              /\ u.answer = task[q].answer
    BY <1>3, <1>4, NotifyingFields, BuiltFields
  <1>6. PICK v \in Tasks : v = u
    BY <1>5
  <1> HIDE DEF u
  <1>7. JobOf(q)' <=> JobOf(q)
    BY <1>2, SameJobs
  <1>8. TaskIs(v, q)'
    BY <1>1, <1>2, <1>4, <1>5, <1>6, <1>7 DEF TaskIs
  <1>9. QED BY <1>1, <1>2, <1>5, <1>6, <1>8 DEF TaskStep

(* Appending a job of q: the others' jobs are the same. *)
LEMMA Appended ==
  ASSUME TodosTypeOK, NEW q \in Request, jobs' = Append(jobs, NewJob(q))
  PROVE  /\ NewJob(q) \in Jobs
         /\ NewJob(q).todo = q /\ NewJob(q).state = "waiting" /\ NewJob(q).made = 0
         /\ NewJob(q).by = NoWorker /\ NewJob(q).runs = 0
         /\ jobs' \in Seq(Jobs) /\ DOMAIN jobs' = 1..(Len(jobs) + 1)
         /\ \A i \in DOMAIN jobs : i \in DOMAIN jobs' /\ jobs'[i] = jobs[i]
         /\ jobs'[Len(jobs) + 1] = NewJob(q)
         /\ JobOf(q)' /\ \A r \in Request \ {q} : JobOf(r)' <=> JobOf(r)
  <1>1. /\ jobs \in Seq(Jobs) /\ DOMAIN jobs = 1..Len(jobs) /\ Len(jobs) \in Nat
    BY TodosTypes
  <1>2. /\ NewJob(q) \in Jobs
        /\ NewJob(q).todo = q /\ NewJob(q).state = "waiting" /\ NewJob(q).made = 0
        /\ NewJob(q).by = NoWorker /\ NewJob(q).runs = 0
    <2>1. 0 \in 0..Attempts
      OBVIOUS
    <2>2. QED BY <2>1 DEF NewJob, Jobs
  <1> HIDE DEF NewJob
  <1>3. /\ jobs' \in Seq(Jobs) /\ Len(jobs') = Len(jobs) + 1
        /\ \A i \in 1..Len(jobs) : jobs'[i] = jobs[i]
        /\ jobs'[Len(jobs) + 1] = NewJob(q)
    BY <1>1, <1>2
  <1>4. DOMAIN jobs' = 1..(Len(jobs) + 1)
    BY <1>3, LenProperties
  <1>5. \A i \in DOMAIN jobs : i \in DOMAIN jobs' /\ jobs'[i] = jobs[i]
    BY <1>1, <1>3, <1>4
  <1>6. Len(jobs) + 1 \in DOMAIN jobs'
    BY <1>1, <1>4
  <1>7. \A i \in DOMAIN jobs' : i \in DOMAIN jobs \/ i = Len(jobs) + 1
    BY <1>1, <1>4
  <1>8. JobOf(q)' /\ \A r \in Request \ {q} : JobOf(r)' <=> JobOf(r)
    BY <1>2, <1>3, <1>5, <1>6, <1>7 DEF JobOf
  <1>9. QED BY <1>2, <1>3, <1>4, <1>5, <1>8

(* The command reaches the queue, and adds one job. *)
LEMMA EnqueueStep ==
  ASSUME Inv, NEW q \in Request, Enqueue(q)
  PROVE  TaskStep(q)
  <1> DEFINE u == [task[q] EXCEPT !.add = "queued"]
  <1>1. TodosTypeOK /\ task[q] \in Tasks /\ TaskIs(task[q], q)
    BY TodosTypes DEF Inv, RuntimeTypeOK, TasksKept
  <1>2. /\ Becomes(q, u) /\ task[q].add = "sent" /\ jobs' = Append(jobs, NewJob(q))
        /\ UNCHANGED <<rows, late, faults>>
    BY DEF Enqueue
  <1>3. /\ u \in Tasks /\ u.add = "queued" /\ u.stage = task[q].stage
        /\ u.answer = task[q].answer /\ u.insert = task[q].insert /\ u.known = task[q].known
    BY <1>1 DEF Tasks
  <1>4. PICK v \in Tasks : v = u
    BY <1>3
  <1> HIDE DEF u
  <1>5. JobOf(q)'
    BY <1>1, <1>2, Appended
  <1>6. TaskIs(v, q)'
    BY <1>1, <1>2, <1>3, <1>4, <1>5 DEF TaskIs
  <1>7. QED BY <1>1, <1>2, <1>3, <1>4, <1>6 DEF TaskStep

(* The enqueue comes back; while the stage waits for it, it ends the       *)
(* pipeline.                                                               *)
LEMMA AddEndsStep ==
  ASSUME Inv, NEW q \in Request, AddReturns(q) \/ AddFails(q)
  PROVE  TaskStep(q)
  <1>1. task[q] \in Tasks /\ TaskIs(task[q], q)
    BY TodosTypes DEF Inv, RuntimeTypeOK, TasksKept
  <1>2. PICK u \in Tasks :
          /\ Becomes(q, u) /\ u.insert = task[q].insert /\ u.known = task[q].known
          /\ \/ u.add = "done" /\ task[q].add = "queued"
             \/ u.add = "failed" /\ task[q].add # "none"
          /\ \/ /\ task[q].stage = "notify-creation" /\ u.stage = "over"
                /\ u.answer = IF task[q].answer = "none" THEN "created" ELSE task[q].answer
             \/ /\ task[q].stage # "notify-creation" /\ u.stage = task[q].stage
                /\ u.answer = task[q].answer
    <2>1. CASE AddReturns(q)
      <3> DEFINE t == [task[q] EXCEPT !.add = "done"]
                 u == IF t.stage = "notify-creation" THEN Built(t) ELSE t
      <3>1. Becomes(q, u) /\ task[q].add = "queued"
        BY <2>1 DEF AddReturns
      <3>2. /\ t \in Tasks /\ t.add = "done" /\ t.stage = task[q].stage
            /\ t.answer = task[q].answer /\ t.insert = task[q].insert /\ t.known = task[q].known
        BY <1>1 DEF Tasks
      <3>3. t.stage = "notify-creation" => t.known
        BY <1>1, <3>2 DEF TaskIs
      <3> HIDE DEF t
      <3>4. /\ u \in Tasks /\ u.insert = task[q].insert /\ u.known = task[q].known /\ u.add = "done"
            /\ \/ /\ task[q].stage = "notify-creation" /\ u.stage = "over"
                  /\ u.answer = IF task[q].answer = "none" THEN "created" ELSE task[q].answer
               \/ /\ task[q].stage # "notify-creation" /\ u.stage = task[q].stage
                  /\ u.answer = task[q].answer
        BY <3>2, <3>3, BuiltFields
      <3> HIDE DEF u
      <3>5. QED BY <3>1, <3>4
    <2>2. CASE AddFails(q)
      <3> DEFINE t == [task[q] EXCEPT !.add = "failed"]
                 u == IF t.stage = "notify-creation" THEN StageFails(t) ELSE t
      <3>1. Becomes(q, u) /\ task[q].add # "none"
        BY <2>2 DEF AddFails
      <3>2. /\ t \in Tasks /\ t.add = "failed" /\ t.stage = task[q].stage
            /\ t.answer = task[q].answer /\ t.insert = task[q].insert /\ t.known = task[q].known
        BY <1>1 DEF Tasks
      <3>3. t.stage = "notify-creation" => t.known /\ t.stage \notin Critical
        BY <1>1, <3>2 DEF TaskIs, Critical
      <3> HIDE DEF t
      <3>4. /\ u \in Tasks /\ u.insert = task[q].insert /\ u.known = task[q].known /\ u.add = "failed"
            /\ \/ /\ task[q].stage = "notify-creation" /\ u.stage = "over"
                  /\ u.answer = IF task[q].answer = "none" THEN "created" ELSE task[q].answer
               \/ /\ task[q].stage # "notify-creation" /\ u.stage = task[q].stage
                  /\ u.answer = task[q].answer
        BY <3>2, <3>3, StageFailsFields
      <3> HIDE DEF u
      <3>5. QED BY <3>1, <3>4
    <2>3. QED BY <2>1, <2>2
  <1>3. UNCHANGED <<rows, late, jobs, faults>>
    BY DEF AddReturns, AddFails, queueSide
  <1>4. JobOf(q)' <=> JobOf(q)
    BY <1>3, SameJobs
  <1>5. TaskIs(u, q)'
    BY <1>1, <1>2, <1>3, <1>4 DEF TaskIs
  <1>6. QED BY <1>1, <1>2, <1>3, <1>5 DEF TaskStep

(* A timer fires: whatever is answered then, the request is late. *)
LEMMA TimeOutStep ==
  ASSUME Inv, NEW q \in Request, StageTimesOut(q) \/ PipelineTimesOut(q)
  PROVE  TaskStep(q)
  <1>1. task[q] \in Tasks /\ TaskIs(task[q], q)
    BY TodosTypes DEF Inv, RuntimeTypeOK, TasksKept
  <1>2. /\ task[q].stage \in {"create-todo", "notify-creation"} /\ late' = late \union {q}
        /\ UNCHANGED <<rows, jobs, faults>>
    BY DEF StageTimesOut, PipelineTimesOut, Awaiting, queueSide
  <1>3. PICK u \in Tasks :
          /\ Becomes(q, u)
          /\ u.insert = task[q].insert /\ u.add = task[q].add /\ u.known = task[q].known
          /\ u.stage \in {task[q].stage, "over"}
          /\ \/ u.answer = task[q].answer
             \/ task[q].answer = "none" /\ u.answer = "refused"
             \/ task[q].answer = "none" /\ u.answer = "created" /\ u.known /\ u.stage = "over"
    <2>1. CASE StageTimesOut(q)
      <3>1. Becomes(q, StageFails(task[q]))
        BY <2>1 DEF StageTimesOut
      <3>2. QED BY <1>1, <3>1, StageFailsFields
    <2>2. CASE PipelineTimesOut(q)
      <3> DEFINE u == [task[q] EXCEPT !.answer = Told(task[q], "refused")]
      <3>1. Becomes(q, u) /\ task[q].answer = "none"
        BY <2>2 DEF PipelineTimesOut, Open
      <3>2. Told(task[q], "refused") = "refused"
        BY <3>1 DEF Told
      <3>3. /\ u \in Tasks /\ u.insert = task[q].insert /\ u.add = task[q].add
            /\ u.known = task[q].known /\ u.stage = task[q].stage /\ u.answer = "refused"
        BY <1>1, <3>2 DEF Tasks
      <3> HIDE DEF u
      <3>4. QED BY <3>1, <3>3
    <2>3. QED BY <2>1, <2>2
  <1>4. JobOf(q)' <=> JobOf(q)
    BY <1>2, SameJobs
  <1>5. TaskIs(u, q)'
    BY <1>1, <1>2, <1>3, <1>4 DEF TaskIs
  <1>6. QED BY <1>1, <1>2, <1>3, <1>5 DEF TaskStep

(* So every step of a pipeline moves its own task as it should, *)
LEMMA PipelineStep ==
  ASSUME Inv, NEW q \in Request, Pipeline(q)
  PROVE  TaskStep(q)
  BY PostStep, InsertStep, InsertReturnsStep, InsertFailsStep, EnqueueStep, AddEndsStep, TimeOutStep
     DEF Pipeline

(* What a step of one request leaves alone of the others. *)
LEMMA OthersKept ==
  ASSUME TodosTypeOK, NEW q \in Request, Pipeline(q), NEW r \in Request \ {q}
  PROVE  /\ (r \in rows' <=> r \in rows) /\ (r \in late' <=> r \in late)
         /\ (JobOf(r)' <=> JobOf(r)) /\ faults' = faults
  <1>1. CASE Enqueue(q)
    <2>1. jobs' = Append(jobs, NewJob(q)) /\ UNCHANGED <<rows, late, faults>>
      BY <1>1 DEF Enqueue
    <2>2. JobOf(r)' <=> JobOf(r)
      BY <2>1, Appended
    <2>3. QED BY <2>1, <2>2
  <1>2. CASE ~Enqueue(q)
    <2>1. UNCHANGED <<jobs, faults>> /\ rows' \in {rows, rows \union {q}} /\ late' \in {late, late \union {q}}
      BY <1>2 DEF Pipeline, Post, Insert, InsertReturns, InsertFails, AddReturns, AddFails,
                  StageTimesOut, PipelineTimesOut, queueSide
    <2>2. JobOf(r)' <=> JobOf(r)
      BY <2>1, SameJobs
    <2>3. QED BY <2>1, <2>2
  <1>3. QED BY <1>1, <1>2

(* and keeps what is known of every task. *)
LEMMA PipelineTasks ==
  ASSUME Inv, NEW q \in Request, Pipeline(q)
  PROVE  TasksKept' /\ task' \in [Request -> Tasks]
  <1>1. TodosTypeOK /\ task \in [Request -> Tasks] /\ TasksKept
    BY TodosTypes DEF Inv, RuntimeTypeOK
  <1>2. PICK u \in Tasks : task' = [task EXCEPT ![q] = u] /\ TaskIs(u, q)'
    BY PipelineStep DEF TaskStep, Becomes
  <1>3. ASSUME NEW r \in Request
        PROVE  TaskIs(task[r], r)'
    <2>1. CASE r = q
      <3>1. task'[r] = u
        BY <1>1, <1>2, <2>1
      <3>2. QED BY <1>2, <2>1, <3>1 DEF TaskIs
    <2>2. CASE r # q
      <3>1. task'[r] = task[r] /\ TaskIs(task[r], r)
        BY <1>1, <1>2, <2>2 DEF TasksKept
      <3>2. /\ (r \in rows' <=> r \in rows) /\ (r \in late' <=> r \in late)
            /\ (JobOf(r)' <=> JobOf(r)) /\ faults' = faults
        BY <1>1, <2>2, OthersKept
      <3>3. QED BY <3>1, <3>2 DEF TaskIs
    <2>3. QED BY <2>1, <2>2
  <1>4. QED BY <1>1, <1>2, <1>3 DEF TasksKept

(* The process ends: what it was waiting for is over. *)
LEMMA ForgottenTasks ==
  ASSUME Inv, ApiStops, UNCHANGED jobs, faults' = 0 => faults = 0
  PROVE  /\ TasksKept' /\ task' \in [Request -> Tasks] /\ AllAnswered'
         /\ \A q \in Request : task'[q].answer \in {task[q].answer, "cut"}
                              /\ (task[q].answer # "none" => task'[q].answer = task[q].answer)
  <1>1. PICK arrived \in SUBSET Request :
          task' = [q \in Request |-> Forgotten(task[q], q \in arrived /\ redis = "up")]
    BY DEF ApiStops
  <1>2. UNCHANGED <<rows, late, jobs>>
    BY DEF ApiStops
  <1>3. ASSUME NEW q \in Request
        PROVE  /\ TaskIs(task[q], q)' /\ task'[q] \in Tasks
               /\ task'[q].answer \in {task[q].answer, "cut"}
               /\ task[q].answer # "none" => task'[q].answer = task[q].answer
               /\ task'[q].stage = "unsent" \/ task'[q].answer # "none"
    <2> DEFINE t == task[q]
               b == q \in arrived /\ redis = "up"
    <2>1. t \in Tasks /\ TaskIs(t, q)
      BY TodosTypes DEF Inv, RuntimeTypeOK, TasksKept
    <2>2. task'[q] = Forgotten(t, b)
      BY <1>1
    <2>3. JobOf(q)' <=> JobOf(q)
      BY <1>2 DEF JobOf
    <2> HIDE DEF b
    <2>4. CASE t.stage = "unsent"
      <3>1. task'[q] = t
        BY <2>2, <2>4 DEF Forgotten
      <3>2. TaskIs(task[q], q)'
        BY <1>2, <2>1, <2>3, <3>1 DEF TaskIs
      <3>3. QED BY <2>1, <2>4, <3>1, <3>2
    <2>5. CASE t.stage # "unsent"
      <3>1. PICK n, a :
              /\ n = t.insert \/ (t.insert = "sent" /\ n = "lost")
              /\ a = t.add \/ (t.add = "sent" /\ a = "lost")
              /\ task'[q] = [t EXCEPT !.stage = "over", !.answer = Told(t, "cut"), !.insert = n, !.add = a]
        BY <2>2, <2>5 DEF Forgotten
      <3>2. Told(t, "cut") = IF t.answer = "none" THEN "cut" ELSE t.answer
        BY DEF Told
      <3> DEFINE u == task'[q]
      <3>3. /\ u \in Tasks /\ u.stage = "over" /\ u.answer = Told(t, "cut")
            /\ u.insert = n /\ u.add = a /\ u.known = t.known
        BY <2>1, <3>1, <3>2 DEF Tasks
      <3>4. PICK v \in Tasks : v = task'[q]
        BY <3>3
      <3>5. TaskIs(v, q)'
        BY <1>2, <2>1, <2>3, <3>1, <3>2, <3>3, <3>4 DEF TaskIs
      <3>6. TaskIs(task[q], q)'
        BY <3>4, <3>5 DEF TaskIs
      <3>7. QED BY <2>1, <3>2, <3>3, <3>6 DEF Tasks
    <2>6. QED BY <2>4, <2>5
  <1>4. AllAnswered'
    BY <1>3 DEF AllAnswered, Open
  <1>5. task' \in [Request -> Tasks]
    BY <1>1, <1>3
  <1>6. QED BY <1>3, <1>4, <1>5 DEF TasksKept

(* A lost connection: commands are sent again. *)
LEMMA DroppedTasks ==
  ASSUME Inv, RedisDrops
  PROVE  TasksKept' /\ task' \in [Request -> Tasks]
         /\ \A q \in Request : task'[q].answer = task[q].answer /\ task'[q].stage = task[q].stage
  <1>1. /\ UNCHANGED <<api, rows, late, jobs>> /\ faults' = faults + 1 /\ faults \in Nat
        /\ task' = [q \in Request |->
             IF api # "down" /\ task[q].add = "queued" THEN [task[q] EXCEPT !.add = "sent"] ELSE task[q]]
    BY DEF RedisDrops, Inv, RuntimeTypeOK, TodosTypeOK
  <1>2. ASSUME NEW q \in Request
        PROVE  /\ TaskIs(task[q], q)' /\ task'[q] \in Tasks
               /\ task'[q].answer = task[q].answer /\ task'[q].stage = task[q].stage
    <2>1. task[q] \in Tasks /\ TaskIs(task[q], q)
      BY TodosTypes DEF Inv, RuntimeTypeOK, TasksKept
    <2>2. JobOf(q)' <=> JobOf(q)
      BY <1>1 DEF JobOf
    <2>3. PICK u \in Tasks :
            /\ u = task'[q] /\ u.stage = task[q].stage /\ u.answer = task[q].answer
            /\ u.insert = task[q].insert /\ u.known = task[q].known
            /\ u.add = task[q].add \/ (u.add = "sent" /\ task[q].add = "queued")
      <3> DEFINE u == [task[q] EXCEPT !.add = "sent"]
      <3>1. /\ u \in Tasks /\ u.stage = task[q].stage /\ u.answer = task[q].answer
            /\ u.insert = task[q].insert /\ u.known = task[q].known /\ u.add = "sent"
        BY <2>1 DEF Tasks
      <3> HIDE DEF u
      <3>2. task'[q] = task[q] \/ (task'[q] = u /\ task[q].add = "queued")
        BY <1>1 DEF u
      <3>3. QED BY <2>1, <3>1, <3>2
    <2>4. faults' # 0
      BY <1>1
    <2>5. TaskIs(u, q)'
      BY <1>1, <2>1, <2>2, <2>3, <2>4 DEF TaskIs
    <2>6. TaskIs(task[q], q)'
      BY <2>3, <2>5 DEF TaskIs
    <2>7. QED BY <2>3, <2>6
  <1>3. task' \in [Request -> Tasks]
    BY <1>1, <1>2
  <1>4. QED BY <1>2, <1>3 DEF TasksKept

(* Steps of the queue and of the shutdown do not touch the requests. *)
LEMMA UntouchedTasks ==
  ASSUME TasksKept, UNCHANGED <<task, rows, late>>, faults' = 0 => faults = 0,
         DOMAIN jobs' = DOMAIN jobs, \A i \in DOMAIN jobs : jobs'[i].todo = jobs[i].todo
  PROVE  TasksKept'
  <1>1. \A q \in Request : JobOf(q)' <=> JobOf(q)
    BY DEF JobOf
  <1>2. QED BY <1>1 DEF TasksKept, TaskIs

-----------------------------------------------------------------------------
(* The steps of the queue *)

(* A step of one job: it stays about the same todo, its record stays true  *)
(* to its attempts and its worker, and it runs once more or not.           *)
JobStep(i) ==
  \E job \in Jobs :
    /\ JobBecomes(i, job)
    /\ JobIs(job, i)'
    /\ job.todo = jobs[i].todo
    /\ job.runs \in {jobs[i].runs, jobs[i].runs + 1}
    /\ dead' \ {i} = dead \ {i} /\ dead' \subseteq dead \union {i}

(* A worker takes a waiting job, *)
LEMMA TakeStep ==
  ASSUME Inv, NEW i \in DOMAIN jobs, NEW w \in Worker, Take(w, i)
  PROVE  JobStep(i)
  <1> DEFINE u == [jobs[i] EXCEPT !.state = "active", !.by = w]
  <1>1. jobs[i] \in Jobs /\ JobIs(jobs[i], i)
    BY TodosTypes DEF Inv, RuntimeTypeOK, JobsKept
  <1>2. jobs[i].state = "waiting" /\ JobBecomes(i, u) /\ dead' = dead
    BY DEF Take
  <1>3. /\ u \in Jobs /\ u.state = "active" /\ u.by = w
        /\ u.todo = jobs[i].todo /\ u.made = jobs[i].made /\ u.runs = jobs[i].runs
    BY <1>1 DEF Jobs
  <1>4. PICK job \in Jobs : job = u
    BY <1>3
  <1> HIDE DEF u
  <1>5. JobIs(job, i)'
    BY <1>1, <1>2, <1>3, <1>4 DEF JobIs, JobBecomes
  <1>6. QED BY <1>2, <1>3, <1>4, <1>5 DEF JobStep

(* runs it, *)
LEMMA ProcessStep ==
  ASSUME Inv, NEW i \in DOMAIN jobs, Process(i)
  PROVE  JobStep(i)
  <1> DEFINE u == [jobs[i] EXCEPT !.state = "handled", !.runs = @ + 1]
  <1>1. jobs[i] \in Jobs /\ JobIs(jobs[i], i)
    BY TodosTypes DEF Inv, RuntimeTypeOK, JobsKept
  <1>2. jobs[i].state = "active" /\ JobBecomes(i, u) /\ dead' = dead
    BY DEF Process, Running
  <1>3. /\ u \in Jobs /\ u.state = "handled" /\ u.by = jobs[i].by
        /\ u.todo = jobs[i].todo /\ u.made = jobs[i].made /\ u.runs = jobs[i].runs + 1
    <2>1. jobs[i].runs + 1 \in Nat
      BY <1>1 DEF Jobs
    <2>2. QED BY <1>1, <2>1 DEF Jobs
  <1>4. PICK job \in Jobs : job = u
    BY <1>3
  <1> HIDE DEF u
  <1>5. JobIs(job, i)'
    BY <1>1, <1>2, <1>3, <1>4 DEF JobIs, JobBecomes
  <1>6. QED BY <1>2, <1>3, <1>4, <1>5 DEF JobStep

(* reports it done; *)
LEMMA CompleteStep ==
  ASSUME Inv, NEW i \in DOMAIN jobs, Complete(i)
  PROVE  JobStep(i)
  <1> DEFINE u == [jobs[i] EXCEPT !.state = "completed", !.by = NoWorker]
  <1>1. jobs[i] \in Jobs /\ JobIs(jobs[i], i)
    BY TodosTypes DEF Inv, RuntimeTypeOK, JobsKept
  <1>2. jobs[i].state = "handled" /\ JobBecomes(i, u) /\ dead' = dead
    BY DEF Complete
  <1>3. /\ u \in Jobs /\ u.state = "completed" /\ u.by = NoWorker
        /\ u.todo = jobs[i].todo /\ u.made = jobs[i].made /\ u.runs = jobs[i].runs
    BY <1>1 DEF Jobs
  <1>4. PICK job \in Jobs : job = u
    BY <1>3
  <1> HIDE DEF u
  <1>5. JobIs(job, i)'
    BY <1>1, <1>2, <1>3, <1>4 DEF JobIs, JobBecomes
  <1>6. QED BY <1>2, <1>3, <1>4, <1>5 DEF JobStep

(* A job fails for good exactly when its attempts are used up, which is    *)
(* what the listener tests.                                                *)
LEMMA AttemptFailsStep ==
  ASSUME Inv, NEW i \in DOMAIN jobs, AttemptFails(i)
  PROVE  JobStep(i)
  <1> DEFINE made == jobs[i].made + 1
             u == [jobs[i] EXCEPT !.made = made, !.state = "delayed", !.by = NoWorker]
             v == [jobs[i] EXCEPT !.made = made, !.state = "failed"]
  <1>1. jobs[i] \in Jobs /\ JobIs(jobs[i], i)
    BY TodosTypes DEF Inv, RuntimeTypeOK, JobsKept
  <1>2. /\ jobs[i].state = "active" /\ jobs[i].by # NoWorker /\ dead' = dead
        /\ JobBecomes(i, IF made < Attempts THEN u ELSE v)
    BY DEF AttemptFails, Running, Retried
  <1>3. made \in 0..Attempts /\ jobs[i].made < Attempts
    BY <1>1, <1>2 DEF JobIs, Jobs
  <1>4. /\ u \in Jobs /\ u.state = "delayed" /\ u.by = NoWorker
        /\ u.todo = jobs[i].todo /\ u.made = made /\ u.runs = jobs[i].runs
    BY <1>1, <1>3 DEF Jobs
  <1>5. /\ v \in Jobs /\ v.state = "failed" /\ v.by = jobs[i].by
        /\ v.todo = jobs[i].todo /\ v.made = made /\ v.runs = jobs[i].runs
    BY <1>1, <1>3 DEF Jobs
  <1> HIDE DEF u, v
  <1>6. PICK job \in Jobs :
          /\ JobBecomes(i, job) /\ job.todo = jobs[i].todo /\ job.runs = jobs[i].runs
          /\ job.made = made
          /\ \/ job.state = "delayed" /\ made < Attempts
             \/ job.state = "failed" /\ made >= Attempts /\ job.by = jobs[i].by
    <2>1. CASE made < Attempts
      BY <1>2, <1>4, <2>1
    <2>2. CASE ~(made < Attempts)
      BY <1>2, <1>3, <1>5, <2>2
    <2>3. QED BY <2>1, <2>2
  <1>7. JobIs(job, i)'
    BY <1>1, <1>2, <1>6 DEF JobIs, JobBecomes
  <1>8. QED BY <1>2, <1>6, <1>7 DEF JobStep

(* the failed listener retries it or gives it up; *)
LEMMA ListenStep ==
  ASSUME Inv, NEW i \in DOMAIN jobs, Listen(i)
  PROVE  JobStep(i)
  <1> DEFINE u == [jobs[i] EXCEPT !.by = NoWorker]
  <1>1. jobs[i] \in Jobs /\ JobIs(jobs[i], i)
    BY TodosTypes DEF Inv, RuntimeTypeOK, JobsKept
  <1>2. /\ jobs[i].state = "failed" /\ JobBecomes(i, u)
        /\ dead' = IF Exhausted(jobs[i].made) THEN dead \union {i} ELSE dead
    BY DEF Listen
  <1>3. /\ u \in Jobs /\ u.state = "failed" /\ u.by = NoWorker
        /\ u.todo = jobs[i].todo /\ u.made = jobs[i].made /\ u.runs = jobs[i].runs
    BY <1>1, <1>2 DEF Jobs
  <1>4. PICK job \in Jobs : job = u
    BY <1>3
  <1> HIDE DEF u
  <1>5. dead' = dead \union {i}
    BY <1>1, <1>2 DEF JobIs, Exhausted
  <1>6. JobIs(job, i)'
    BY <1>1, <1>2, <1>3, <1>4, <1>5 DEF JobIs, JobBecomes
  <1>7. QED BY <1>2, <1>3, <1>4, <1>5, <1>6 DEF JobStep

(* backoff and the stalled check make it wait again. *)
LEMMA WaitsAgainStep ==
  ASSUME Inv, NEW i \in DOMAIN jobs, BackoffEnds(i) \/ Stalled(i)
  PROVE  JobStep(i)
  <1> DEFINE u == [jobs[i] EXCEPT !.state = "waiting"]
  <1>1. jobs[i] \in Jobs /\ JobIs(jobs[i], i)
    BY TodosTypes DEF Inv, RuntimeTypeOK, JobsKept
  <1>2. /\ \/ jobs[i].state = "delayed"
           \/ jobs[i].state \in {"active", "handled"} /\ jobs[i].by = NoWorker
        /\ JobBecomes(i, u) /\ dead' = dead
    BY DEF BackoffEnds, Stalled
  <1>3. /\ u \in Jobs /\ u.state = "waiting" /\ u.by = jobs[i].by
        /\ u.todo = jobs[i].todo /\ u.made = jobs[i].made /\ u.runs = jobs[i].runs
    BY <1>1 DEF Jobs
  <1>4. PICK job \in Jobs : job = u
    BY <1>3
  <1> HIDE DEF u
  <1>5. JobIs(job, i)'
    BY <1>1, <1>2, <1>3, <1>4 DEF JobIs, JobBecomes
  <1>6. QED BY <1>2, <1>3, <1>4, <1>5 DEF JobStep

(* So every step of a delivery moves its own job as it should. *)
LEMMA DeliveryStep ==
  ASSUME Inv, NEW i \in DOMAIN jobs, Delivery(i)
  PROVE  JobStep(i)
  BY TakeStep, ProcessStep, CompleteStep, AttemptFailsStep, ListenStep, WaitsAgainStep DEF Delivery

(* The queue after a step of one job. *)
LEMMA DeliveryJobs ==
  ASSUME Inv, NEW i \in DOMAIN jobs, Delivery(i)
  PROVE  /\ jobs' \in Seq(Jobs) /\ DOMAIN jobs' = DOMAIN jobs
         /\ dead' \subseteq DOMAIN jobs'
         /\ \A j \in DOMAIN jobs : jobs'[j].todo = jobs[j].todo
         /\ \A j \in DOMAIN jobs \ {i} : jobs'[j].runs = jobs[j].runs
         /\ jobs'[i].runs \in {jobs[i].runs, jobs[i].runs + 1}
         /\ JobsKept' /\ OneJobEach'
         /\ UNCHANGED <<api, task, rows, late, redis, worker, faults>>
  <1>1. TodosTypeOK /\ JobsKept /\ OneJobEach /\ dead \subseteq DOMAIN jobs
    BY DEF Inv, RuntimeTypeOK, TodosTypeOK
  <1>2. jobs \in Seq(Jobs) /\ DOMAIN jobs = 1..Len(jobs) /\ Len(jobs) \in Nat
    BY <1>1, TodosTypes
  <1>3. PICK job \in Jobs :
          /\ jobs' = [jobs EXCEPT ![i] = job]
          /\ UNCHANGED <<api, task, rows, late, redis, worker, faults>>
          /\ JobIs(job, i)' /\ job.todo = jobs[i].todo
          /\ job.runs \in {jobs[i].runs, jobs[i].runs + 1}
          /\ dead' \ {i} = dead \ {i} /\ dead' \subseteq dead \union {i}
    BY DeliveryStep DEF JobStep, JobBecomes, apiSide
  <1>4. /\ jobs' \in Seq(Jobs) /\ Len(jobs') = Len(jobs)
        /\ \A j \in 1..Len(jobs) : jobs'[j] = IF j = i THEN job ELSE jobs[j]
    BY <1>2, <1>3, ExceptSeq
  <1>5. DOMAIN jobs' = DOMAIN jobs
    BY <1>2, <1>4, LenProperties
  <1>6. \A j \in DOMAIN jobs : jobs'[j] = IF j = i THEN job ELSE jobs[j]
    BY <1>2, <1>4
  <1>7. ASSUME NEW j \in DOMAIN jobs'
        PROVE  JobIs(jobs[j], j)'
    <2>1. CASE j = i
      BY <1>3, <1>5, <1>6, <2>1 DEF JobIs
    <2>2. CASE j # i
      <3>1. jobs'[j] = jobs[j] /\ JobIs(jobs[j], j) /\ (j \in dead' <=> j \in dead)
        BY <1>1, <1>3, <1>5, <1>6, <2>2 DEF JobsKept
      <3>2. QED BY <1>3, <3>1 DEF JobIs
    <2>3. QED BY <2>1, <2>2
  <1>8. JobsKept'
    BY <1>7 DEF JobsKept
  <1>9. OneJobEach'
    BY <1>1, <1>3, <1>5, <1>6 DEF OneJobEach
  <1>10. QED BY <1>1, <1>3, <1>4, <1>5, <1>6, <1>8, <1>9

(* A job is added only for a request that has none, unless a lost          *)
(* connection made the API send its command twice.                         *)
LEMMA EnqueueJobs ==
  ASSUME Inv, NEW q \in Request, Enqueue(q)
  PROVE  JobsKept' /\ OneJobEach' /\ dead' \subseteq DOMAIN jobs'
  <1>1. TodosTypeOK /\ JobsKept /\ OneJobEach /\ dead \subseteq DOMAIN jobs /\ TaskIs(task[q], q)
    BY DEF Inv, RuntimeTypeOK, TodosTypeOK, TasksKept
  <1>2. /\ jobs' = Append(jobs, NewJob(q)) /\ UNCHANGED <<dead, faults>> /\ task[q].add = "sent"
    BY DEF Enqueue
  <1>3. DOMAIN jobs = 1..Len(jobs) /\ Len(jobs) \in Nat
    BY <1>1, TodosTypes
  <1> DEFINE n == Len(jobs) + 1
  <1>4. /\ NewJob(q).todo = q /\ NewJob(q).state = "waiting" /\ NewJob(q).made = 0
        /\ NewJob(q).by = NoWorker /\ NewJob(q).runs = 0
        /\ DOMAIN jobs' = 1..n
        /\ \A i \in DOMAIN jobs : i \in DOMAIN jobs' /\ jobs'[i] = jobs[i]
        /\ jobs'[n] = NewJob(q)
    BY <1>1, <1>2, Appended
  <1>5. n \notin DOMAIN jobs /\ \A i \in DOMAIN jobs' : i \in DOMAIN jobs \/ i = n
    BY <1>3, <1>4
  <1> HIDE DEF n
  <1>6. JobsKept'
    <2>1. ASSUME NEW i \in DOMAIN jobs'
          PROVE  JobIs(jobs[i], i)'
      <3>1. CASE i = n
        BY <1>1, <1>2, <1>4, <1>5, <3>1 DEF JobIs
      <3>2. CASE i # n
        <4>1. jobs'[i] = jobs[i] /\ JobIs(jobs[i], i)
          BY <1>1, <1>4, <1>5, <3>2 DEF JobsKept
        <4>2. QED BY <1>2, <4>1 DEF JobIs
      <3>3. QED BY <3>1, <3>2
    <2>2. QED BY <2>1 DEF JobsKept
  <1>7. OneJobEach'
    <2>1. faults = 0 => ~JobOf(q)
      BY <1>1, <1>2 DEF TaskIs
    <2>2. QED BY <1>1, <1>2, <1>4, <1>5, <2>1 DEF OneJobEach, JobOf
  <1>8. QED BY <1>1, <1>2, <1>4, <1>6, <1>7

(* A worker ends.  It either waited for its jobs, and loses none, or this  *)
(* counts as a fault.                                                      *)
LEMMA WorkerGoneJobs ==
  ASSUME Inv, NEW w \in Worker, WorkerCloses(w) \/ WorkerDies(w)
  PROVE  /\ jobs' \in Seq(Jobs) /\ DOMAIN jobs' = DOMAIN jobs /\ dead' \subseteq DOMAIN jobs'
         /\ \A j \in DOMAIN jobs : jobs'[j].todo = jobs[j].todo /\ jobs'[j].runs = jobs[j].runs
         /\ JobsKept' /\ OneJobEach'
         /\ faults' = 0 => faults = 0
         /\ faults' \in 0..MaxFaults
         /\ worker' \in [Worker -> {"running", "closing", "gone"}]
         /\ UNCHANGED <<api, task, rows, late, redis, dead>>
  <1>1. TodosTypeOK /\ JobsKept /\ OneJobEach
    BY DEF Inv, RuntimeTypeOK
  <1>2. /\ jobs \in Seq(Jobs) /\ DOMAIN jobs = 1..Len(jobs) /\ Len(jobs) \in Nat
        /\ \A i \in DOMAIN jobs : jobs[i] \in Jobs
    BY <1>1, TodosTypes
  <1>3. /\ worker' = [worker EXCEPT ![w] = "gone"]
        /\ jobs' = [i \in DOMAIN jobs |->
                      IF jobs[i].by = w THEN [jobs[i] EXCEPT !.by = NoWorker] ELSE jobs[i]]
        /\ UNCHANGED <<api, task, rows, late, redis, dead>>
    BY DEF WorkerCloses, WorkerDies, WorkerGone, apiSide
  <1>4. DOMAIN jobs' = DOMAIN jobs
    BY <1>3
  <1>5. ASSUME NEW j \in DOMAIN jobs
        PROVE  /\ jobs'[j] \in Jobs /\ jobs'[j].todo = jobs[j].todo /\ jobs'[j].runs = jobs[j].runs
               /\ jobs'[j].state = jobs[j].state /\ jobs'[j].made = jobs[j].made
               /\ jobs[j].by # w => jobs'[j] = jobs[j]
    <2>1. /\ [jobs[j] EXCEPT !.by = NoWorker] \in Jobs
          /\ [jobs[j] EXCEPT !.by = NoWorker].todo = jobs[j].todo
          /\ [jobs[j] EXCEPT !.by = NoWorker].runs = jobs[j].runs
          /\ [jobs[j] EXCEPT !.by = NoWorker].state = jobs[j].state
          /\ [jobs[j] EXCEPT !.by = NoWorker].made = jobs[j].made
      BY <1>2 DEF Jobs
    <2>2. QED BY <1>2, <1>3, <2>1
  <1>6. jobs' \in Seq(Jobs)
    <2>1. jobs' \in [1..Len(jobs) -> Jobs]
      BY <1>2, <1>3, <1>5
    <2>2. QED BY <1>2, <2>1, SeqDef
  <1>7. /\ faults' \in 0..MaxFaults
        /\ faults' = 0 => faults = 0
        /\ faults' = 0 => \A j \in DOMAIN jobs : jobs[j].by # w
    <2>1. faults \in 0..MaxFaults
      BY <1>1 DEF TodosTypeOK
    <2>2. CASE WorkerCloses(w)
      BY <2>1, <2>2 DEF WorkerCloses, MayClose, Unfinished
    <2>3. CASE WorkerDies(w)
      BY <2>1, <2>3 DEF WorkerDies
    <2>4. QED BY <2>2, <2>3
  <1>8. JobsKept'
    <2>1. ASSUME NEW j \in DOMAIN jobs'
          PROVE  JobIs(jobs[j], j)'
      <3>1. JobIs(jobs[j], j) /\ j \in DOMAIN jobs
        BY <1>1, <1>4, <2>1 DEF JobsKept
      <3>2. faults' = 0 => jobs'[j] = jobs[j] /\ faults = 0
        BY <1>5, <1>7, <3>1
      <3>3. QED BY <1>3, <1>5, <3>1, <3>2 DEF JobIs
    <2>2. QED BY <2>1 DEF JobsKept
  <1>9. OneJobEach'
    BY <1>1, <1>4, <1>5, <1>7 DEF OneJobEach
  <1>10. dead' \subseteq DOMAIN jobs' /\ worker' \in [Worker -> {"running", "closing", "gone"}]
    BY <1>1, <1>3, <1>4 DEF TodosTypeOK
  <1>11. QED BY <1>3, <1>4, <1>5, <1>6, <1>7, <1>8, <1>9, <1>10

(* What neither adds a job nor moves one. *)
LEMMA UntouchedJobs ==
  ASSUME JobsKept, OneJobEach, UNCHANGED <<jobs, dead>>, faults' = 0 => faults = 0
  PROVE  JobsKept' /\ OneJobEach'
  BY DEF JobsKept, JobIs, OneJobEach

-----------------------------------------------------------------------------
(* The invariant *)

(* A pipeline keeps the invariant and opens requests only while the API is *)
(* up.                                                                     *)
LEMMA PipelineKept ==
  ASSUME Inv, NEW q \in Request, Pipeline(q)
  PROVE  /\ Kept' /\ UNCHANGED api
         /\ \A r \in Request : Open(r)' => Open(r) \/ api = "up"
  <1>1. TodosTypeOK /\ JobsKept /\ OneJobEach
    BY DEF Inv, RuntimeTypeOK
  <1>2. TasksKept' /\ task' \in [Request -> Tasks]
    BY PipelineTasks
  <1>3. UNCHANGED <<api, redis, worker, dead, faults>>
    BY DEF Pipeline, Post, Insert, InsertReturns, InsertFails, Enqueue, AddReturns, AddFails,
           StageTimesOut, PipelineTimesOut, queueSide
  <1>4. rows' \subseteq Request /\ late' \subseteq Request
    BY <1>1 DEF TodosTypeOK, Pipeline, Post, Insert, InsertReturns, InsertFails, Enqueue, AddReturns,
                AddFails, StageTimesOut, PipelineTimesOut
  <1>5. jobs' \in Seq(Jobs) /\ dead' \subseteq DOMAIN jobs' /\ JobsKept' /\ OneJobEach'
    <2>1. CASE Enqueue(q)
      <3>1. jobs' \in Seq(Jobs)
        BY <1>1, <2>1, Appended DEF Enqueue
      <3>2. QED BY <2>1, <3>1, EnqueueJobs
    <2>2. CASE ~Enqueue(q)
      <3>1. UNCHANGED jobs
        BY <2>2 DEF Pipeline, Post, Insert, InsertReturns, InsertFails, AddReturns, AddFails,
                    StageTimesOut, PipelineTimesOut, queueSide
      <3>2. QED BY <1>1, <1>3, <3>1, UntouchedJobs DEF TodosTypeOK
    <2>3. QED BY <2>1, <2>2
  <1>6. TodosTypeOK'
    BY <1>1, <1>2, <1>3, <1>4, <1>5 DEF TodosTypeOK
  <1>7. ASSUME NEW r \in Request, Open(r)'
        PROVE  Open(r) \/ api = "up"
    <2>1. PICK u \in Tasks :
            /\ task' = [task EXCEPT ![q] = u]
            /\ u.answer = task[q].answer \/ task[q].answer = "none"
            /\ (u.stage = "unsent" <=> task[q].stage = "unsent") \/ api = "up"
      BY PipelineStep DEF TaskStep, Becomes
    <2>2. task'[r] = IF r = q THEN u ELSE task[r]
      BY <1>1, <2>1 DEF TodosTypeOK
    <2>3. QED BY <1>7, <2>1, <2>2 DEF Open
  <1>8. QED BY <1>2, <1>3, <1>5, <1>6, <1>7 DEF Kept

(* The queue and its workers keep it and touch no request. *)
LEMMA QueueKept ==
  ASSUME Inv,
         \/ \E i \in DOMAIN jobs : Delivery(i)
         \/ \E w \in Worker : WorkerSignalled(w) \/ WorkerCloses(w) \/ WorkerDies(w) \/ WorkerStarts(w)
         \/ RedisReturns
  PROVE  Kept' /\ UNCHANGED <<api, task>>
  <1>1. TodosTypeOK /\ TasksKept /\ JobsKept /\ OneJobEach
    BY DEF Inv, RuntimeTypeOK
  <1>2. CASE \E i \in DOMAIN jobs : Delivery(i)
    <2>1. PICK i \in DOMAIN jobs : Delivery(i)
      BY <1>2
    <2>2. /\ jobs' \in Seq(Jobs) /\ DOMAIN jobs' = DOMAIN jobs /\ dead' \subseteq DOMAIN jobs'
          /\ \A j \in DOMAIN jobs : jobs'[j].todo = jobs[j].todo
          /\ JobsKept' /\ OneJobEach'
          /\ UNCHANGED <<api, task, rows, late, redis, worker, faults>>
      BY <2>1, DeliveryJobs
    <2>3. TasksKept'
      BY <1>1, <2>2, UntouchedTasks
    <2>4. TodosTypeOK'
      BY <1>1, <2>2 DEF TodosTypeOK
    <2>5. QED BY <2>2, <2>3, <2>4 DEF Kept
  <1>3. CASE \E w \in Worker : WorkerCloses(w) \/ WorkerDies(w)
    <2>1. /\ jobs' \in Seq(Jobs) /\ DOMAIN jobs' = DOMAIN jobs /\ dead' \subseteq DOMAIN jobs'
          /\ \A j \in DOMAIN jobs : jobs'[j].todo = jobs[j].todo
          /\ JobsKept' /\ OneJobEach'
          /\ faults' = 0 => faults = 0
          /\ faults' \in 0..MaxFaults
          /\ worker' \in [Worker -> {"running", "closing", "gone"}]
          /\ UNCHANGED <<api, task, rows, late, redis>>
      BY <1>3, WorkerGoneJobs
    <2>2. TasksKept'
      BY <1>1, <2>1, UntouchedTasks
    <2>3. TodosTypeOK'
      BY <1>1, <2>1 DEF TodosTypeOK
    <2>4. QED BY <2>1, <2>2, <2>3 DEF Kept
  <1>4. CASE (\E w \in Worker : WorkerSignalled(w) \/ WorkerStarts(w)) \/ RedisReturns
    <2>1. /\ UNCHANGED <<api, task, rows, late, jobs, dead, faults>>
          /\ redis' \in {"up", "down"}
          /\ worker' \in [Worker -> {"running", "closing", "gone"}]
      BY <1>1, <1>4 DEF WorkerSignalled, WorkerStarts, RedisReturns, apiSide, TodosTypeOK
    <2>2. TasksKept'
      BY <1>1, <2>1, UntouchedTasks
    <2>3. JobsKept' /\ OneJobEach'
      BY <1>1, <2>1, UntouchedJobs
    <2>4. TodosTypeOK'
      BY <1>1, <2>1 DEF TodosTypeOK
    <2>5. QED BY <2>1, <2>2, <2>3, <2>4 DEF Kept
  <1>5. QED BY <1>2, <1>3, <1>4

(* A lost connection keeps it and opens nothing. *)
LEMMA DropsKept ==
  ASSUME Inv, RedisDrops
  PROVE  /\ Kept' /\ UNCHANGED api
         /\ \A q \in Request : Open(q)' => Open(q)
  <1>1. TodosTypeOK /\ JobsKept /\ OneJobEach
    BY DEF Inv, RuntimeTypeOK
  <1>2. /\ TasksKept' /\ task' \in [Request -> Tasks]
        /\ \A q \in Request : task'[q].answer = task[q].answer /\ task'[q].stage = task[q].stage
    BY DroppedTasks
  <1>3. /\ UNCHANGED <<api, rows, late, worker, jobs, dead>> /\ redis' = "down"
        /\ faults' \in 0..MaxFaults
        /\ faults' # 0
    BY <1>1 DEF RedisDrops, TodosTypeOK
  <1>4. JobsKept' /\ OneJobEach'
    BY <1>1, <1>3, UntouchedJobs
  <1>5. TodosTypeOK'
    BY <1>1, <1>2, <1>3 DEF TodosTypeOK
  <1>6. QED BY <1>2, <1>3, <1>4, <1>5 DEF Kept, Open

(* Whatever the pipelines and the queue do, only a process that is up      *)
(* opens requests.                                                         *)
LEMMA TodosStepInv ==
  ASSUME Inv, TodosNext, UNCHANGED <<phase, timer, exit>>
  PROVE  Inv'
  <1>1. /\ Kept' /\ UNCHANGED api
        /\ \A q \in Request : Open(q)' => Open(q) \/ api = "up"
    <2>1. CASE \E q \in Request : Pipeline(q)
      BY <2>1, PipelineKept
    <2>2. CASE \/ \E i \in DOMAIN jobs : Delivery(i)
               \/ \E w \in Worker : \/ WorkerSignalled(w) \/ WorkerCloses(w)
                                    \/ WorkerDies(w) \/ WorkerStarts(w)
               \/ RedisReturns
      BY <2>2, QueueKept DEF Open
    <2>3. CASE RedisDrops
      BY <2>3, DropsKept
    <2>4. QED BY <2>1, <2>2, <2>3 DEF TodosNext
  <1>2. RuntimeTypeOK'
    BY <1>1 DEF Inv, RuntimeTypeOK, Kept
  <1>3. AnsweredBeforeClosing'
    BY <1>1 DEF Inv, AnsweredBeforeClosing, AllAnswered
  <1>4. QED BY <1>1, <1>2, <1>3 DEF Inv, Kept

(* The process's own steps that leave the pipelines alone. *)
LEMMA PhaseStepInv ==
  ASSUME Inv, Startup \/ Signal \/ CloseStep \/ Tick
  PROVE  Inv'
  <1>1. /\ TodosTypeOK /\ TasksKept /\ JobsKept /\ OneJobEach /\ AnsweredBeforeClosing
        /\ phase \in Phases /\ timer \in 0..Deadline \union {NoTimer}
        /\ exit \in {"none", "clean", "failed", "killed"}
        /\ api = "down" <=> phase \in {"loading", "exited"}
    BY DEF Inv, RuntimeTypeOK
  <1>2. UNCHANGED <<task, rows, late, redis, worker, jobs, dead, faults>>
    BY DEF Startup, Serve, StartFails, SignalWhileLoading, Signal, CloseStep, Tick, todoVars, apiSide,
           queueSide
  <1>3. TasksKept' /\ JobsKept' /\ OneJobEach'
    BY <1>1, <1>2, UntouchedTasks, UntouchedJobs
  <1>4. AllAnswered => AllAnswered'
    BY <1>2 DEF AllAnswered, Open
  <1>5. /\ phase' \in Phases /\ exit' \in {"none", "clean", "failed", "killed"}
        /\ api' \in {"up", "draining", "down"}
        /\ api' = "down" <=> phase' \in {"loading", "exited"}
        /\ AnsweredBeforeClosing'
    <2>1. CASE Startup
      BY <1>1, <1>4, <2>1 DEF Startup, Serve, StartFails, SignalWhileLoading, Loading, Exit, Phases,
                              AnsweredBeforeClosing, todoVars, TodosTypeOK
    <2>2. CASE Signal
      BY <1>1, <1>4, <2>2 DEF Signal, Phases, AnsweredBeforeClosing, TodosTypeOK
    <2>3. CASE CloseStep
      <3>1. /\ After[phase] \in Phases \ {"loading", "serving", "draining", "exited"}
            /\ phase \in Phases \ {"loading", "serving", "exited", "stopping-telemetry"}
        BY <1>1, <2>3 DEF CloseStep, Closing, After, Phases
      <3>2. AllAnswered
        BY <1>1, <2>3, <3>1 DEF CloseStep, AnsweredBeforeClosing
      <3>3. phase' = After[phase] /\ UNCHANGED <<api, exit>>
        BY <2>3 DEF CloseStep, todoVars
      <3> HIDE DEF After, Phases
      <3>4. QED BY <1>1, <1>4, <3>1, <3>2, <3>3 DEF AnsweredBeforeClosing, TodosTypeOK
    <2>4. CASE Tick
      BY <1>1, <1>4, <2>4 DEF Tick, AnsweredBeforeClosing, todoVars, TodosTypeOK
    <2>5. QED BY <2>1, <2>2, <2>3, <2>4
  <1>6. timer' \in 0..Deadline \union {NoTimer}
    <2>1. CASE Startup
      BY <1>1, <2>1 DEF Startup, Serve, StartFails, SignalWhileLoading, Exit
    <2>2. CASE Signal
      BY <1>1, <2>2 DEF Signal, Earliest
    <2>3. CASE CloseStep
      BY <1>1, <2>3 DEF CloseStep
    <2>4. CASE Tick
      BY <1>1, <2>4 DEF Tick
    <2>5. QED BY <2>1, <2>2, <2>3, <2>4
  <1>7. TodosTypeOK'
    BY <1>1, <1>2, <1>5 DEF TodosTypeOK
  <1>8. RuntimeTypeOK'
    BY <1>5, <1>6, <1>7 DEF RuntimeTypeOK
  <1>9. QED BY <1>3, <1>5, <1>8 DEF Inv

(* The process ends: nothing is open any more. *)
LEMMA EndInv ==
  ASSUME Inv, ExitCleanly \/ CloseFails \/ ForceExit \/ Crash
  PROVE  Inv'
  <1>1. TodosTypeOK /\ JobsKept /\ OneJobEach
    BY DEF Inv, RuntimeTypeOK
  <1>2. /\ ApiStops /\ phase' = "exited" /\ exit' \in {"clean", "failed"} /\ timer' = NoTimer
        /\ UNCHANGED <<redis, worker, jobs, dead>>
    BY DEF ExitCleanly, CloseFails, ForceExit, Crash, Exit, queueSide
  <1>3. faults' \in 0..MaxFaults /\ (faults' = 0 => faults = 0)
    <2>1. faults \in 0..MaxFaults
      BY <1>1 DEF TodosTypeOK
    <2>2. faults' = faults \/ (faults < MaxFaults /\ faults' = faults + 1)
      BY DEF ExitCleanly, CloseFails, ForceExit, Crash, queueSide
    <2>3. QED BY <2>1, <2>2
  <1>4. api' = "down" /\ UNCHANGED <<rows, late>>
    BY <1>2 DEF ApiStops
  <1>5. TasksKept' /\ task' \in [Request -> Tasks] /\ AllAnswered'
    BY <1>2, <1>3, ForgottenTasks
  <1>6. JobsKept' /\ OneJobEach'
    BY <1>1, <1>2, <1>3, UntouchedJobs
  <1>7. TodosTypeOK'
    BY <1>1, <1>2, <1>3, <1>4, <1>5 DEF TodosTypeOK
  <1>8. RuntimeTypeOK'
    BY <1>2, <1>4, <1>7 DEF RuntimeTypeOK, Phases
  <1>9. AnsweredBeforeClosing'
    BY <1>2, <1>4, <1>5 DEF AnsweredBeforeClosing
  <1>10. QED BY <1>5, <1>6, <1>8, <1>9 DEF Inv

(* A step that changes nothing keeps it. *)
LEMMA StutterInv ==
  ASSUME Inv, UNCHANGED runtimeVars
  PROVE  Inv'
  <1>1. UNCHANGED <<api, task, rows, late, redis, worker, jobs, dead, faults, phase, timer, exit>>
    BY DEF runtimeVars, todoVars, apiSide, queueSide
  <1>2. TasksKept' /\ JobsKept' /\ OneJobEach'
    BY <1>1, UntouchedTasks, UntouchedJobs DEF Inv
  <1>3. RuntimeTypeOK' /\ AnsweredBeforeClosing'
    BY <1>1 DEF Inv, RuntimeTypeOK, TodosTypeOK, AnsweredBeforeClosing, AllAnswered, Open
  <1>4. QED BY <1>2, <1>3 DEF Inv

(* The invariant is inductive, *)
LEMMA StepInv ==
  ASSUME Inv, [RuntimeNext]_runtimeVars
  PROVE  Inv'
  BY TodosStepInv, PhaseStepInv, EndInv, StutterInv DEF RuntimeNext, Shutdown

(* holds at the start, *)
LEMMA InitInv == RuntimeInit => Inv
  <1> SUFFICES ASSUME RuntimeInit PROVE Inv
    OBVIOUS
  <1>1. /\ api = "down" /\ redis = "up" /\ worker = [w \in Worker |-> "running"]
        /\ task = [q \in Request |-> FreshTask] /\ rows = {} /\ jobs = <<>> /\ dead = {}
        /\ late = {} /\ faults = 0 /\ phase = "loading" /\ timer = NoTimer /\ exit = "none"
    BY DEF RuntimeInit, TodosInit
  <1>2. jobs \in Seq(Jobs) /\ DOMAIN jobs = {}
    BY <1>1
  <1>3. /\ FreshTask \in Tasks /\ FreshTask.stage = "unsent" /\ FreshTask.answer = "none"
        /\ FreshTask.insert = "none" /\ FreshTask.add = "none" /\ ~FreshTask.known
    BY DEF FreshTask, Tasks
  <1>4. TodosTypeOK
    <2>1. 0 \in 0..MaxFaults
      OBVIOUS
    <2>2. QED BY <1>1, <1>2, <1>3, <2>1 DEF TodosTypeOK
  <1>5. RuntimeTypeOK
    BY <1>1, <1>4 DEF RuntimeTypeOK, Phases
  <1>6. TasksKept
    BY <1>1, <1>2, <1>3 DEF TasksKept, TaskIs, JobOf
  <1>7. JobsKept /\ OneJobEach
    BY <1>2 DEF JobsKept, OneJobEach
  <1>8. AnsweredBeforeClosing
    BY <1>1, <1>3 DEF AnsweredBeforeClosing, AllAnswered, Open
  <1>9. QED BY <1>5, <1>6, <1>7, <1>8 DEF Inv

(* and therefore throughout. *)
LEMMA Invariance == RuntimeSpec => []Inv
  <1>1. Inv /\ [RuntimeNext]_runtimeVars => Inv'
    BY StepInv
  <1>2. QED BY InitInv, <1>1, PTL DEF RuntimeSpec

-----------------------------------------------------------------------------
(* The theorems *)

(* The process, its pipelines, the table and the queue keep their types,   *)
(* and no pipeline answers unless its process is up.                       *)
THEOREM RuntimeTypes == RuntimeSpec => []RuntimeTypeOK
  BY Invariance, PTL DEF Inv

(* README.md:197, requirements.md:91: no queue, however slow or broken,    *)
(* turns a stored todo into an error, nobody is told "created" while the   *)
(* notification was skipped, and no job ends in the failed set unlogged.   *)
THEOREM Outcomes == RuntimeSpec => []OutcomesHonest
  <1>1. ASSUME Inv
        PROVE  OutcomesHonest
    <2>1. TasksKept /\ JobsKept /\ dead \subseteq DOMAIN jobs
      BY <1>1 DEF Inv, RuntimeTypeOK, TodosTypeOK
    <2>2. QueueNeverRefuses
      BY <2>1 DEF QueueNeverRefuses, TasksKept, TaskIs
    <2>3. CreatedIsQueued
      BY <2>1 DEF CreatedIsQueued, TasksKept, TaskIs, JobOf
    <2>4. DeadLettersReported
      BY <2>1 DEF DeadLettersReported, JobsKept, JobIs
    <2>5. QED BY <2>2, <2>3, <2>4 DEF OutcomesHonest
  <1>2. QED BY <1>1, Invariance, PTL

(* Without a lost connection or a dead worker no notification runs twice.  *)
THEOREM NoRepeats == RuntimeSpec => []RepeatedOnlyAfterFault
  <1>1. ASSUME Inv
        PROVE  RepeatedOnlyAfterFault
    <2>1. JobsKept /\ OneJobEach /\ faults \in 0..MaxFaults /\ \A i \in DOMAIN jobs : jobs[i] \in Jobs
      BY <1>1, TodosTypes DEF Inv, RuntimeTypeOK, TodosTypeOK
    <2>2. SUFFICES ASSUME NEW q \in Request, faults = 0 PROVE ~(Runs(q) > 1)
      BY <2>1 DEF RepeatedOnlyAfterFault
    <2> DEFINE S == {i \in DOMAIN jobs : jobs[i].todo = q}
               T == {i \in S : jobs[i].runs > 0}
    <2>3. \A i \in S : jobs[i].runs \in {0, 1}
      BY <2>1, <2>2 DEF JobsKept, JobIs
    <2>4. CASE \A i \in S : jobs[i].runs = 0
      <3>1. Runs(q) = 0
        BY <2>4 DEF Runs
      <3>2. QED BY <3>1
    <2>5. CASE ~ \A i \in S : jobs[i].runs = 0
      <3>1. PICK i \in S : jobs[i].runs = 1
        BY <2>3, <2>5
      <3>2. T = {i}
        BY <2>1, <2>2, <3>1 DEF OneJobEach
      <3>3. Cardinality(T) = 1
        BY <3>2, FS_Singleton
      <3>4. \A j \in S : jobs[j].runs <= 1
        BY <2>3
      <3>5. Runs(q) = 1
        BY <2>5, <3>3, <3>4 DEF Runs
      <3>6. QED BY <3>5
    <2>6. QED BY <2>4, <2>5
  <1>2. QED BY <1>1, Invariance, PTL

(* server.ts:47-50: no request is left without an answer by a process that *)
(* exits cleanly.                                                          *)
THEOREM CleanExit == RuntimeSpec => CleanExitAnswersAll
  <1>1. Inv /\ [RuntimeNext]_runtimeVars =>
          [phase' = "exited" /\ exit' = "clean" => \A q \in Request : ~Open(q)]_runtimeVars
    <2>1. SUFFICES ASSUME Inv, RuntimeNext, phase' = "exited", exit' = "clean"
                   PROVE  phase \in {"exited", "stopping-telemetry"}
      BY DEF Inv, AnsweredBeforeClosing, AllAnswered
    <2>2. phase \in Phases
      BY <2>1 DEF Inv, RuntimeTypeOK
    <2>3. CASE CloseStep
      BY <2>1, <2>2, <2>3 DEF CloseStep, Closing, After, Phases
    <2>4. CASE ~CloseStep
      BY <2>1, <2>4 DEF RuntimeNext, Startup, Serve, StartFails, SignalWhileLoading, Shutdown, Signal,
                        ExitCleanly, CloseFails, ForceExit, Tick, Crash, Exit
    <2>5. QED BY <2>3, <2>4
  <1>2. QED BY <1>1, Invariance, PTL DEF RuntimeSpec, CleanExitAnswersAll

-----------------------------------------------------------------------------
(* The refinement *)

(* What the promise sees of the answers and of the queue. *)
Heard == [q \in Request |-> IF task[q].answer = "cut" THEN "none" ELSE task[q].answer]

Delivered == {q \in Request : \E i \in DOMAIN jobs : jobs[i].todo = q /\ jobs[i].runs > 0}

(* A step of a request stores its row, or answers it once. *)
LEMMA PipelinePromise ==
  ASSUME Inv, NEW q \in Request, Pipeline(q)
  PROVE  Promise!Store(q) \/ (\E a \in {"created", "refused"} : Promise!Tell(q, a))
           \/ UNCHANGED <<rows, Heard, Delivered>>
  <1>1. TodosTypeOK
    BY DEF Inv, RuntimeTypeOK
  <1>2. PICK u \in Tasks :
          /\ task' = [task EXCEPT ![q] = u] /\ TaskIs(u, q)'
          /\ u.answer = task[q].answer \/ (task[q].answer = "none" /\ UNCHANGED rows)
          /\ u.answer # "cut" \/ task[q].answer = "cut"
    BY PipelineStep DEF TaskStep, Becomes
  <1>3. rows' \in {rows, rows \union {q}}
    BY DEF Pipeline, Post, Insert, InsertReturns, InsertFails, Enqueue, AddReturns, AddFails,
           StageTimesOut, PipelineTimesOut
  <1>4. Delivered' = Delivered
    <2>1. CASE Enqueue(q)
      <3>1. /\ NewJob(q).runs = 0 /\ DOMAIN jobs' = 1..(Len(jobs) + 1)
            /\ \A i \in DOMAIN jobs : i \in DOMAIN jobs' /\ jobs'[i] = jobs[i]
            /\ jobs'[Len(jobs) + 1] = NewJob(q)
        BY <1>1, <2>1, Appended DEF Enqueue
      <3>2. \A i \in DOMAIN jobs' : i \in DOMAIN jobs \/ i = Len(jobs) + 1
        BY <1>1, <3>1, TodosTypes
      <3>3. \A r \in Request :
              (\E i \in DOMAIN jobs' : jobs'[i].todo = r /\ jobs'[i].runs > 0)
                <=> \E i \in DOMAIN jobs : jobs[i].todo = r /\ jobs[i].runs > 0
        BY <3>1, <3>2
      <3>4. QED BY <3>3 DEF Delivered
    <2>2. CASE ~Enqueue(q)
      BY <2>2 DEF Pipeline, Post, Insert, InsertReturns, InsertFails, AddReturns, AddFails,
                  StageTimesOut, PipelineTimesOut, queueSide, Delivered
    <2>3. QED BY <2>1, <2>2
  <1>5. \A r \in Request : task'[r] = IF r = q THEN u ELSE task[r]
    BY <1>1, <1>2 DEF TodosTypeOK
  <1>6. CASE u.answer = task[q].answer
    <2>1. Heard' = Heard
      BY <1>5, <1>6 DEF Heard
    <2>2. CASE rows' = rows
      BY <1>4, <2>1, <2>2
    <2>3. CASE rows' # rows
      <3>1. q \notin rows /\ rows' = rows \union {q}
        BY <1>3, <2>3
      <3>2. Promise!Store(q)
        BY <1>4, <2>1, <3>1 DEF Promise!Store, Heard, Delivered
      <3>3. QED BY <3>2
    <2>4. QED BY <2>2, <2>3
  <1>7. CASE u.answer # task[q].answer
    <2>1. /\ task[q].answer = "none" /\ rows' = rows /\ u.answer \in {"created", "refused"}
      BY <1>2, <1>7 DEF Tasks
    <2>2. u.answer = "created" => q \in rows
      BY <1>2, <2>1 DEF TaskIs
    <2>3. Heard[q] = "none" /\ Heard' = [Heard EXCEPT ![q] = u.answer]
      BY <1>5, <2>1 DEF Heard
    <2>4. Promise!Tell(q, u.answer)
      BY <1>4, <2>1, <2>2, <2>3 DEF Promise!Tell, Heard, Delivered
    <2>5. QED BY <2>1, <2>4
  <1>8. QED BY <1>6, <1>7

(* A step of a job delivers the notification of a stored todo, or none. *)
LEMMA DeliveryPromise ==
  ASSUME Inv, NEW i \in DOMAIN jobs, Delivery(i)
  PROVE  (\E q \in Request : Promise!Notify(q)) \/ UNCHANGED <<rows, Heard, Delivered>>
  <1>1. /\ DOMAIN jobs' = DOMAIN jobs /\ UNCHANGED <<task, rows>>
        /\ \A j \in DOMAIN jobs : jobs'[j].todo = jobs[j].todo
        /\ \A j \in DOMAIN jobs \ {i} : jobs'[j].runs = jobs[j].runs
        /\ jobs'[i].runs \in {jobs[i].runs, jobs[i].runs + 1}
    BY DeliveryJobs
  <1>2. Heard' = Heard
    BY <1>1 DEF Heard
  <1>3. PICK q \in Request : q = jobs[i].todo /\ q \in rows /\ jobs[i].runs \in Nat
    <2>1. jobs[i] \in Jobs /\ TasksKept
      BY TodosTypes DEF Inv, RuntimeTypeOK
    <2>2. QED BY <2>1 DEF Jobs, TasksKept, TaskIs, JobOf
  <1>4. CASE jobs'[i].runs = jobs[i].runs
    <2>1. Delivered' = Delivered
      BY <1>1, <1>4 DEF Delivered
    <2>2. QED BY <1>1, <1>2, <2>1
  <1>5. CASE jobs'[i].runs = jobs[i].runs + 1
    <2>1. jobs'[i].runs > 0
      BY <1>3, <1>5
    <2>2. Delivered' = Delivered \union {q}
      <3>1. ASSUME NEW r \in Request
            PROVE  (\E j \in DOMAIN jobs' : jobs'[j].todo = r /\ jobs'[j].runs > 0)
                     <=> r = q \/ \E j \in DOMAIN jobs : jobs[j].todo = r /\ jobs[j].runs > 0
        BY <1>1, <1>3, <2>1
      <3>2. QED BY <1>3, <3>1 DEF Delivered
    <2>3. Promise!Notify(q)
      BY <1>1, <1>2, <1>3, <2>2 DEF Promise!Notify, Heard, Delivered
    <2>4. QED BY <1>3, <2>3
  <1>6. QED BY <1>1, <1>4, <1>5

(* Every other step is invisible to the client, to the table and to those  *)
(* who are notified.                                                       *)
LEMMA QuietPromise ==
  ASSUME Inv, [RuntimeNext]_runtimeVars,
         ~ \E q \in Request : Pipeline(q), ~ \E i \in DOMAIN jobs : Delivery(i)
  PROVE  UNCHANGED <<rows, Heard, Delivered>>
  <1>1. CASE \E w \in Worker : WorkerCloses(w) \/ WorkerDies(w)
    <2>1. /\ DOMAIN jobs' = DOMAIN jobs /\ UNCHANGED <<task, rows>>
          /\ \A j \in DOMAIN jobs : jobs'[j].todo = jobs[j].todo /\ jobs'[j].runs = jobs[j].runs
      BY <1>1, WorkerGoneJobs
    <2>2. QED BY <2>1 DEF Heard, Delivered
  <1>2. CASE ApiStops /\ UNCHANGED jobs /\ (faults' = 0 => faults = 0)
    <2>1. \A q \in Request : task'[q].answer \in {task[q].answer, "cut"}
                              /\ (task[q].answer # "none" => task'[q].answer = task[q].answer)
      BY <1>2, ForgottenTasks
    <2>2. Heard' = Heard
      <3>1. \A q \in Request : (IF task'[q].answer = "cut" THEN "none" ELSE task'[q].answer)
                                 = IF task[q].answer = "cut" THEN "none" ELSE task[q].answer
        BY <2>1
      <3>2. QED BY <3>1 DEF Heard
    <2>3. QED BY <1>2, <2>2 DEF ApiStops, Delivered
  <1>3. CASE RedisDrops
    <2>1. \A q \in Request : task'[q].answer = task[q].answer
      BY <1>3, DroppedTasks
    <2>2. QED BY <1>3, <2>1 DEF RedisDrops, Heard, Delivered
  <1>4. CASE UNCHANGED <<task, rows, jobs>>
    BY <1>4 DEF Heard, Delivered
  <1>5. CASE ExitCleanly \/ CloseFails \/ ForceExit \/ Crash
    <2>1. faults \in Nat
      BY DEF Inv, RuntimeTypeOK, TodosTypeOK
    <2>2. ApiStops /\ UNCHANGED jobs /\ (faults' = 0 => faults = 0)
      BY <1>5, <2>1 DEF ExitCleanly, CloseFails, ForceExit, Crash, queueSide
    <2>3. QED BY <1>2, <2>2
  <1>6. CASE Startup \/ Signal \/ CloseStep \/ Tick \/ UNCHANGED runtimeVars
    BY <1>4, <1>6 DEF Startup, Serve, StartFails, SignalWhileLoading, Signal, CloseStep, Tick, runtimeVars,
                      todoVars, apiSide, queueSide
  <1>7. CASE (\E w \in Worker : WorkerSignalled(w) \/ WorkerStarts(w)) \/ RedisReturns
    BY <1>4, <1>7 DEF WorkerSignalled, WorkerStarts, RedisReturns, apiSide
  <1>8. QED BY <1>1, <1>3, <1>5, <1>6, <1>7 DEF RuntimeNext, TodosNext, Shutdown

(* TodoPromise: rows stay, a request is answered once, "created" is only   *)
(* said of a stored row and only stored rows are notified, whatever stages *)
(* are abandoned, connections lost and processes ended.                    *)
THEOREM PromiseKept == RuntimeSpec => KeepsPromise
  <1>1. RuntimeInit => Promise!PromiseInit
    BY DEF RuntimeInit, TodosInit, Promise!PromiseInit, FreshTask
  <1>2. Inv /\ [RuntimeNext]_runtimeVars => [Promise!PromiseNext]_(Promise!promise)
    <2> SUFFICES ASSUME Inv, [RuntimeNext]_runtimeVars
                 PROVE  Promise!PromiseNext \/ UNCHANGED <<rows, Heard, Delivered>>
      BY DEF Promise!promise, Heard, Delivered
    <2>1. CASE \E q \in Request : Pipeline(q)
      BY <2>1, PipelinePromise DEF Promise!PromiseNext
    <2>2. CASE \E i \in DOMAIN jobs : Delivery(i)
      BY <2>2, DeliveryPromise DEF Promise!PromiseNext
    <2>3. QED BY <2>1, <2>2, QuietPromise
  <1>3. QED BY <1>1, <1>2, Invariance, PTL DEF RuntimeSpec, KeepsPromise, Promise!PromiseSpec

=============================================================================
