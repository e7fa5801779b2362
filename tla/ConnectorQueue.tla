--------------------------- MODULE ConnectorQueue ---------------------------
(* The jobs of an enterprise connector: an event of the chat platform stores a *)
(* message and queues a job in Redis, one worker per process takes jobs,       *)
(* generates and delivers, and moves a job on when it is done or failed.  A    *)
(* process that starts takes back whatever is being worked on, by anyone.      *)
EXTENDS Integers

CONSTANTS Messages,
          Kinds,             \* what they may ask: subset of {"image", "video", "info", "help"}
          Processes, Nobody,
          MaxAttempts,       \* failures before a job is dead: connectorQueueMaxAttempts
          MaxFaults          \* bound: crashes, database and Redis errors, lost leases

QueueAssumption == MaxAttempts \in Nat \ {0} /\ MaxFaults \in Nat

VARIABLES receiver,          \* where event() is with a message
          message,           \* connector_messages: kind, processing_status
          place,             \* the list the message's one job is in
          attempts,          \* the hash of failures
          task,              \* connector_ai_tasks: unified_status
          gen,               \* the generation task: status, worker_id, lease
          worker,            \* where Run and processJob are
          answered,          \* history: messages whose outcome the chat was told, or should have been
          concluded,         \* history: messages whose task has had an outcome
          unrecorded,        \* history: messages with a final write that failed
          lost,              \* history: messages whose move in Redis failed
          faults             \* bound

vars == <<receiver, message, place, attempts, task, gen, worker, answered, concluded,
          unrecorded, lost, faults>>
queueVars == <<place, attempts>>
outcomes == <<answered, concluded, unrecorded>>

Over == {"completed", "delivery_failed", "failed"}
NoGeneration == [status |-> "none", owner |-> Nobody, live |-> FALSE]
Popping == [at |-> "pop", on |-> Nobody]

Init ==
    /\ receiver = [m \in Messages |-> "before"]
    /\ message = [m \in Messages |-> [kind |-> "none", status |-> "none"]]
    /\ place = [m \in Messages |-> "none"] /\ attempts = [m \in Messages |-> 0]
    /\ task = [m \in Messages |-> "none"] /\ gen = [m \in Messages |-> NoGeneration]
    /\ worker = [p \in Processes |-> Popping]
    /\ answered = {} /\ concluded = {} /\ unrecorded = {} /\ lost = {} /\ faults = 0

Mark(m, status) == message' = [message EXCEPT ![m].status = status]
Move(m, list) == place' = [place EXCEPT ![m] = list]
Go(p, at) == worker' = [worker EXCEPT ![p].at = at]
On(p, m, at) == worker[p] = [at |-> at, on |-> m]
Fault == faults < MaxFaults /\ faults' = faults + 1

\* A write whose error is dropped or only logged: in a fault it is lost.
TryMark(m, status) == \/ Mark(m, status) /\ UNCHANGED faults
                      \/ Fault /\ UNCHANGED message

TryTask(m, status) == \/ task' = [task EXCEPT ![m] = status] /\ UNCHANGED faults
                      \/ Fault /\ UNCHANGED task

Conclude(m, status) ==
    /\ task' = [task EXCEPT ![m] = status]
    /\ concluded' = concluded \cup {m}

\* The outcome is told to the chat, then written to the task and to the message.
\* One fault, like the end of processJob's time, loses any of the two writes.
WriteOutcome(m, status, mark) ==
    /\ answered' = answered \cup {m}
    /\ \/ Conclude(m, status) /\ Mark(m, mark) /\ UNCHANGED <<unrecorded, faults>>
       \/ /\ Fault
          /\ Mark(m, mark) \/ UNCHANGED message
          /\ \/ Conclude(m, status) /\ UNCHANGED unrecorded
             \/ unrecorded' = unrecorded \cup {m} /\ UNCHANGED <<task, concluded>>

-----------------------------------------------------------------------------
(* event().  A redelivered event finds its message stored and changes nothing. *)

Receive(m) ==
    /\ receiver[m] = "before"
    /\ receiver' = [receiver EXCEPT ![m] = "stored"]
    /\ \E k \in Kinds : message' = [message EXCEPT ![m] = [kind |-> k, status |-> "received"]]
    /\ UNCHANGED <<queueVars, task, gen, worker, outcomes, lost, faults>>

\* A message whose job could not be queued is failed and answered with 503.
Enqueue(m) ==
    /\ receiver[m] = "stored"
    /\ \/ /\ Move(m, "pending")
          /\ receiver' = [receiver EXCEPT ![m] = "queued"]
          /\ UNCHANGED <<message, faults>>
       \/ /\ Fault
          /\ Mark(m, "failed") \/ UNCHANGED message
          /\ receiver' = [receiver EXCEPT ![m] = "over"]
          /\ UNCHANGED place
    /\ UNCHANGED <<attempts, task, gen, worker, outcomes, lost>>

\* Whatever a worker has written since.
MarkQueued(m) ==
    /\ receiver[m] = "queued"
    /\ receiver' = [receiver EXCEPT ![m] = "over"]
    /\ TryMark(m, "queued")
    /\ UNCHANGED <<queueVars, task, gen, worker, outcomes, lost>>

EventCrash(m) ==
    /\ receiver[m] \in {"stored", "queued"} /\ Fault
    /\ receiver' = [receiver EXCEPT ![m] = "over"]
    /\ UNCHANGED <<message, queueVars, task, gen, worker, outcomes, lost>>

-----------------------------------------------------------------------------
(* Run: the lists.  A job is one value, so whoever removes it from the working *)
(* list removes the one copy there is, also under another worker.             *)

\* With the answer of Redis lost, nobody works on the job that was moved.
Pop(p, m) ==
    /\ worker[p] = Popping /\ place[m] = "pending"
    /\ Move(m, "working")
    /\ \/ /\ worker' = [worker EXCEPT ![p] = [at |-> "load", on |-> m]]
          /\ UNCHANGED <<lost, faults>>
       \/ /\ Fault /\ lost' = lost \cup {m}
          /\ UNCHANGED worker
    /\ UNCHANGED <<receiver, message, attempts, task, gen, outcomes>>

\* The move script does nothing when somebody else has moved the job.
MoveWorking(m, list) == IF place[m] = "working" THEN Move(m, list) ELSE UNCHANGED place

\* The failed write is logged; the job stays in the working list.
LoseMove(m) == Fault /\ lost' = lost \cup {m} /\ UNCHANGED place

Acknowledge(p, m) ==
    /\ On(p, m, "ack")
    /\ \/ MoveWorking(m, "gone") /\ UNCHANGED <<lost, faults>>
       \/ LoseMove(m)
    /\ \E n \in {0} \cup (IF faults' = faults THEN {} ELSE {attempts[m]}) :
          attempts' = [attempts EXCEPT ![m] = n]
    /\ worker' = [worker EXCEPT ![p] = Popping]
    /\ UNCHANGED <<receiver, message, task, gen, outcomes>>

\* Mutant: a job that has failed too often is dropped.
Dropped(n) == IF n < MaxAttempts THEN "pending" ELSE "gone"

AfterFailure(n) == IF n < MaxAttempts THEN "pending" ELSE "dlq"

\* The count is shared by all workers; one beyond the limit is like the limit.
CountFailure(m) == attempts' = [attempts EXCEPT ![m] = IF @ < MaxAttempts THEN @ + 1 ELSE @]

\* The count comes before the move, by a command of its own.
RecordFailure(p, m) ==
    /\ On(p, m, "failed")
    /\ \/ /\ CountFailure(m) /\ MoveWorking(m, AfterFailure(attempts[m] + 1))
          /\ UNCHANGED <<lost, faults>>
       \/ /\ CountFailure(m) \/ UNCHANGED attempts
          /\ LoseMove(m)
    /\ worker' = [worker EXCEPT ![p] = Popping]
    /\ UNCHANGED <<receiver, message, task, gen, outcomes>>

\* A process dies or is stopped, whatever it is doing.
Crash(p) ==
    /\ worker[p].at # "down" /\ Fault
    /\ worker' = [worker EXCEPT ![p] = [at |-> "down", on |-> Nobody]]
    /\ UNCHANGED <<receiver, message, queueVars, task, gen, outcomes, lost>>


RecoverWorking ==
    place' = [m \in Messages |-> IF place[m] = "working" THEN "pending" ELSE place[m]]

\* A process is started again while the others work.
Start(p) ==
    /\ worker[p].at = "down" /\ worker' = [worker EXCEPT ![p] = Popping]
    /\ RecoverWorking
    /\ UNCHANGED <<receiver, message, attempts, task, gen, outcomes, lost, faults>>

-----------------------------------------------------------------------------
(* processJob.                                                               *)

\* Mutant: a message that somebody is processing is left to him.
HandledOrInHand(m) == message[m].status \in {"completed", "ignored", "processing"}

Handled(m) == message[m].status \in {"completed", "ignored"}

Load(p, m) ==
    /\ On(p, m, "load")
    /\ \/ Handled(m) /\ Go(p, "ack") /\ UNCHANGED <<message, faults>>
       \/ ~Handled(m) /\ Go(p, "task") /\ TryMark(m, "processing")
       \/ Fault /\ Go(p, "failed") /\ UNCHANGED message
    /\ UNCHANGED <<receiver, queueVars, task, gen, outcomes, lost>>

\* failMessage, after a worker has found out that it cannot go on: the connector
\* task, if this worker knows of one, is failed whatever others made of it.
FailMessage(p, m) ==
    /\ worker[p].on = m /\ worker[p].at \in {"fail message", "fail task"}
    /\ IF worker[p].at = "fail task" THEN WriteOutcome(m, "failed", "failed")
       ELSE TryMark(m, "failed") /\ UNCHANGED <<task, outcomes>>
    /\ Go(p, "failed")
    /\ UNCHANGED <<receiver, queueVars, gen, lost>>

\* The connector or the binding may be an error, and so may the task.
CreateTask(p, m) ==
    /\ On(p, m, "task")
    /\ \/ /\ task[m] \in Over
          /\ TryMark(m, "completed") /\ Go(p, "ack") /\ UNCHANGED task
       \/ /\ task[m] \notin Over
          /\ task' = [task EXCEPT ![m] = IF @ = "none" THEN "created" ELSE @]
          /\ Go(p, IF message[m].kind \in {"info", "help"} THEN "answer" ELSE "check")
          /\ UNCHANGED <<message, faults>>
       \/ Go(p, "fail message") /\ UNCHANGED <<message, task, faults>>
    /\ UNCHANGED <<receiver, queueVars, gen, outcomes, lost>>

\* A question is answered at once.  Help is given up with the message ignored,
\* whether or not it could be sent.  The job ends whatever became of the writes.
Answer(p, m) ==
    /\ On(p, m, "answer")
    /\ IF message[m].kind = "help"
       THEN /\ WriteOutcome(m, "completed", "ignored")
            /\ Go(p, "ack") \/ Go(p, "failed")
       ELSE \/ WriteOutcome(m, "completed", "completed") /\ Go(p, "ack")
            \/ Go(p, "fail task") /\ UNCHANGED <<message, task, outcomes, faults>>
    /\ UNCHANGED <<receiver, queueVars, gen, lost>>

\* Rights, price, quota and the first card are tried again with every attempt.
Check(p, m) ==
    /\ On(p, m, "check")
    /\ \/ TryTask(m, "processing") /\ Go(p, "execute")
       \/ Go(p, "fail task") /\ UNCHANGED <<task, faults>>
    /\ UNCHANGED <<receiver, message, queueVars, gen, outcomes, lost>>

\* The message's generation task is created once; a finished one is replayed, and
\* the claim is refused while somebody holds a live lease.
Execute(p, m) ==
    /\ On(p, m, "execute")
    /\ \/ gen[m].status = "succeeded" /\ Go(p, "upload") /\ UNCHANGED gen
       \/ /\ gen[m].status \in {"none", "failed"} \/ gen[m].live
          /\ Go(p, "fail task") /\ UNCHANGED gen
       \/ /\ gen[m].status \in {"none", "processing"} /\ ~gen[m].live
          /\ gen' = [gen EXCEPT ![m] = [status |-> "processing", owner |-> p, live |-> TRUE]]
          /\ Go(p, "generate")
    /\ UNCHANGED <<receiver, message, queueVars, task, outcomes, lost, faults>>

\* Only a run for images gives its lease up when it ends with an error.
Relinquish(p, m) ==
    gen' = IF gen[m].owner = p /\ message[m].kind = "image"
           THEN [gen EXCEPT ![m].owner = Nobody, ![m].live = FALSE] ELSE gen

\* Every claim of a video begins a generation, which is all its settlement asks for.
MaySettle(p, m) == gen[m].owner = p /\ (gen[m].live \/ message[m].kind = "video")

Settled(m, status) ==
    gen' = [gen EXCEPT ![m] = [status |-> status, owner |-> Nobody, live |-> FALSE]]

Generate(p, m) ==
    /\ On(p, m, "generate")
    /\ \/ MaySettle(p, m) /\ Settled(m, "succeeded") /\ Go(p, "upload")
       \/ MaySettle(p, m) /\ Settled(m, "failed") /\ Go(p, "fail task")
       \* The result could not be stored, or the lease is somebody else's.
       \/ Relinquish(p, m) /\ Go(p, "fail task")
       \* The outcome is not known yet: the job is to be tried again.
       \/ Relinquish(p, m) /\ Go(p, "failed")
    /\ UNCHANGED <<receiver, message, queueVars, task, outcomes, lost, faults>>

\* A result opens its task again, also one that another worker has delivered.
Upload(p, m) ==
    /\ On(p, m, "upload")
    /\ TryTask(m, "uploading") /\ Go(p, "deliver")
    /\ UNCHANGED <<receiver, message, queueVars, gen, outcomes, lost>>

\* Delivered or not, the job ends, whatever became of the writes.
Deliver(p, m) ==
    /\ On(p, m, "deliver")
    /\ \E status \in {"completed", "delivery_failed"} : WriteOutcome(m, status, "completed")
    /\ Go(p, "ack")
    /\ UNCHANGED <<receiver, queueVars, gen, lost>>

\* An administrator sends a result again; with the write lost nothing changes.
RetryDelivery(m) ==
    /\ gen[m].status = "succeeded" /\ task[m] \in {"completed", "delivery_failed"}
    /\ \E status \in {"completed", "delivery_failed"} : Conclude(m, status)
    /\ answered' = answered \cup {m}
    /\ UNCHANGED <<receiver, message, queueVars, gen, worker, unrecorded, lost, faults>>

\* An owner that died or could not renew loses its lease; the video's is not renewed.
LeaseExpires(m) ==
    /\ gen[m].live
    /\ IF \E p \in Processes : On(p, m, "generate") /\ gen[m].owner = p
       THEN Fault ELSE UNCHANGED faults
    /\ gen' = [gen EXCEPT ![m].live = FALSE]
    /\ UNCHANGED <<receiver, message, queueVars, task, worker, outcomes, lost>>

-----------------------------------------------------------------------------
Work(p) == \E m \in Messages :
    \/ Pop(p, m) \/ Load(p, m) \/ CreateTask(p, m) \/ Answer(p, m) \/ Check(p, m)
    \/ Execute(p, m) \/ Generate(p, m) \/ Upload(p, m) \/ Deliver(p, m)
    \/ FailMessage(p, m) \/ Acknowledge(p, m) \/ RecordFailure(p, m)

Next == \/ \E m \in Messages : \/ Receive(m) \/ Enqueue(m) \/ MarkQueued(m) \/ EventCrash(m)
                               \/ RetryDelivery(m) \/ LeaseExpires(m)
        \/ \E p \in Processes : Work(p) \/ Crash(p) \/ Start(p)

\* Workers run on, and a process that crashed is started again.
Fairness == \A p \in Processes : WF_vars(Work(p)) /\ WF_vars(Start(p))

Spec == Init /\ [][Next]_vars /\ Fairness

-----------------------------------------------------------------------------
(* Properties.                                                               *)

Queued(m) == place[m] # "none"

\* A job leaves the lists only after its user has been told an outcome, or should
\* have been: the answer was sent, a delivery tried or a failure decided.  Workers
\* remove jobs by value from a list they share, a process that starts takes back
\* jobs others are working on, and a redelivered job is ended on what the rows say
\* (recoverWorking, movePayloadValue, processJob).  The task's row has shown the
\* outcome, too, unless the write of it failed, which processJob ignores.
NeverForgotten ==
    \A m \in Messages : place[m] = "gone" => /\ m \in answered
                                            /\ m \in concluded \cup unrecorded


=============================================================================
