------------------------- MODULE ConnectorQueue_proofs -------------------------
(* No job leaves the lists before its user has been told an outcome, for any   *)
(* number of messages, processes, retries and faults.                         *)
EXTENDS ConnectorQueue, TLAPS

ListNames == {"none", "pending", "working", "dlq", "gone"}
Statuses == {"none", "received", "queued", "processing", "completed", "ignored", "failed"}
MessageRecord == [kind : {"none"} \cup Kinds, status : Statuses]
TaskStatuses == {"none", "created", "processing", "uploading"} \cup Over
Stations == {"pop", "load", "task", "answer", "check", "execute", "generate", "upload",
             "deliver", "fail message", "fail task", "failed", "ack", "down"}
WorkerRecord == [at : Stations, on : Messages \cup {Nobody}]

\* What the argument needs to know of the types.
Shape ==
    /\ message \in [Messages -> MessageRecord]
    /\ place \in [Messages -> ListNames]
    /\ task \in [Messages -> TaskStatuses]
    /\ worker \in [Processes -> WorkerRecord]

Ended(m) == m \in answered /\ m \in concluded \cup unrecorded

\* Whoever acknowledges has told an outcome or has read one, in the status of the
\* message or of its task, and neither is written before somebody has told it.
OutcomeInv ==
    /\ \A m \in Messages : place[m] = "gone" => Ended(m)
    /\ \A p \in Processes : worker[p].at = "ack" => Ended(worker[p].on)
    /\ \A m \in Messages : message[m].status \in {"completed", "ignored"} => Ended(m)
    /\ \A m \in Messages : task[m] \in Over => Ended(m)

QueueInv == Shape /\ OutcomeInv

LEMMA InitInv == Init => QueueInv
  BY DEF Init, QueueInv, Shape, OutcomeInv, ListNames, MessageRecord, Statuses,
         TaskStatuses, WorkerRecord, Stations, Popping, Over, Ended

-----------------------------------------------------------------------------
(* What the writes do.                                                       *)

LEMMA MarkRecord ==
  ASSUME NEW r \in MessageRecord, NEW s \in Statuses
  PROVE  [r EXCEPT !.status = s] \in MessageRecord /\ [r EXCEPT !.status = s].status = s
  BY DEF MessageRecord

LEMMA MarkEffect ==
  ASSUME Shape, NEW m \in Messages, NEW s \in Statuses, Mark(m, s)
  PROVE  /\ message' \in [Messages -> MessageRecord]
         /\ message'[m].status = s
         /\ \A n \in Messages : n # m => message'[n] = message[n]
<1>1. message[m] \in MessageRecord
  BY DEF Shape
<1>2. message' = [message EXCEPT ![m] = [message[m] EXCEPT !.status = s]]
  BY DEF Mark
<1> QED
  BY <1>1, <1>2, MarkRecord DEF Shape

LEMMA WorkerEffect ==
  ASSUME Shape, NEW p \in Processes, NEW at \in Stations, Go(p, at)
  PROVE  /\ worker' \in [Processes -> WorkerRecord]
         /\ worker'[p].at = at /\ worker'[p].on = worker[p].on
         /\ \A q \in Processes : q # p => worker'[q] = worker[q]
<1>1. worker[p] \in WorkerRecord
  BY DEF Shape
<1>2. worker' = [worker EXCEPT ![p] = [worker[p] EXCEPT !.at = at]]
  BY DEF Go
<1>3. /\ [worker[p] EXCEPT !.at = at] \in WorkerRecord
      /\ [worker[p] EXCEPT !.at = at].at = at /\ [worker[p] EXCEPT !.at = at].on = worker[p].on
  BY <1>1 DEF WorkerRecord
<1> QED
  BY <1>2, <1>3 DEF Shape

LEMMA OnEffect == ASSUME NEW p, NEW m, NEW at, On(p, m, at) PROVE worker[p].on = m
  BY DEF On

LEMMA PopEffect ==
  ASSUME Shape, NEW p \in Processes, worker' = [worker EXCEPT ![p] = Popping]
  PROVE  /\ worker' \in [Processes -> WorkerRecord]
         /\ \A q \in Processes : worker'[q].at = "ack" => q # p /\ worker'[q] = worker[q]
<1>1. Popping \in WorkerRecord /\ Popping.at # "ack"
  BY DEF Popping, WorkerRecord, Stations
<1> QED
  BY <1>1 DEF Shape

LEMMA MoveEffect ==
  ASSUME Shape, NEW m \in Messages, NEW list \in ListNames,
         Move(m, list) \/ MoveWorking(m, list) \/ LoseMove(m)
  PROVE  /\ place' \in [Messages -> ListNames]
         /\ \A n \in Messages : place'[n] = place[n] \/ (n = m /\ place'[n] = list)
  BY DEF Shape, Move, MoveWorking, LoseMove

-----------------------------------------------------------------------------
(* One lemma for each kind of step.                                          *)

LEMMA EventInv ==
  ASSUME NEW m \in Messages, QueueInv,
         Receive(m) \/ Enqueue(m) \/ MarkQueued(m) \/ EventCrash(m)
  PROVE  QueueInv'
<1> USE DEF QueueInv, OutcomeInv, Ended, outcomes
<1>1. /\ place' \in [Messages -> ListNames]
      /\ \A n \in Messages : place'[n] = "gone" => place[n] = "gone"
  <2>1. CASE Enqueue(m)
    BY <2>1, MoveEffect DEF Enqueue, Shape, ListNames
  <2>2. CASE Receive(m) \/ MarkQueued(m) \/ EventCrash(m)
    BY <2>2 DEF Receive, MarkQueued, EventCrash, queueVars, Shape
  <2> QED
    BY <2>1, <2>2
<1>2. /\ message' \in [Messages -> MessageRecord]
      /\ \A n \in Messages : message'[n].status \in {"completed", "ignored"}
                                => message'[n] = message[n]
  <2>1. CASE Receive(m)
    <3>1. PICK k \in Kinds : message' = [message EXCEPT ![m] = [kind |-> k, status |-> "received"]]
      BY <2>1 DEF Receive
    <3> QED
      BY <3>1 DEF Shape, MessageRecord, Statuses
  <2>2. CASE \E s \in {"failed", "queued"} : Mark(m, s)
    BY <2>2, MarkEffect DEF Statuses
  <2>3. CASE UNCHANGED message
    BY <2>3 DEF Shape
  <2> QED
    BY <2>1, <2>2, <2>3 DEF Enqueue, MarkQueued, TryMark, EventCrash
<1>3. UNCHANGED <<task, worker, outcomes>>
  BY DEF Receive, Enqueue, MarkQueued, EventCrash
<1> QED
  BY <1>1, <1>2, <1>3 DEF Shape

LEMMA ListInv ==
  ASSUME NEW p \in Processes, NEW m \in Messages, QueueInv,
         Pop(p, m) \/ Acknowledge(p, m) \/ RecordFailure(p, m)
  PROVE  QueueInv'
<1> USE DEF QueueInv, OutcomeInv, Ended, outcomes
<1>0. UNCHANGED <<message, task, outcomes>>
  BY DEF Pop, Acknowledge, RecordFailure
<1>1. CASE Pop(p, m)
  <2>1. /\ place' \in [Messages -> ListNames]
        /\ \A n \in Messages : place'[n] = "gone" => place[n] = "gone"
    BY <1>1, MoveEffect DEF Pop, ListNames
  <2>2. /\ worker' \in [Processes -> WorkerRecord]
        /\ \A q \in Processes : worker'[q].at = "ack" => worker'[q] = worker[q]
    <3>1. [at |-> "load", on |-> m] \in WorkerRecord
      BY DEF WorkerRecord, Stations
    <3>2. worker' = worker \/ worker' = [worker EXCEPT ![p] = [at |-> "load", on |-> m]]
      BY <1>1 DEF Pop
    <3> QED
      BY <3>1, <3>2 DEF Shape
  <2> QED
    BY <1>0, <2>1, <2>2 DEF Shape
<1>2. CASE Acknowledge(p, m)
  <2>1. Ended(m)
    BY <1>2 DEF Acknowledge, On
  <2>2. /\ place' \in [Messages -> ListNames]
        /\ \A n \in Messages : place'[n] = "gone" => n = m \/ place[n] = "gone"
    BY <1>2, MoveEffect DEF Acknowledge, ListNames
  <2>3. worker' = [worker EXCEPT ![p] = Popping]
    BY <1>2 DEF Acknowledge
  <2> QED
    BY <1>0, <2>1, <2>2, <2>3, PopEffect DEF Shape
<1>3. CASE RecordFailure(p, m)
  <2>1. AfterFailure(attempts[m] + 1) \in {"pending", "dlq"}
    BY DEF AfterFailure
  <2>2. /\ place' \in [Messages -> ListNames]
        /\ \A n \in Messages : place'[n] = "gone" => place[n] = "gone"
    BY <1>3, <2>1, MoveEffect DEF RecordFailure, ListNames
  <2>3. worker' = [worker EXCEPT ![p] = Popping]
    BY <1>3 DEF RecordFailure
  <2> QED
    BY <1>0, <2>2, <2>3, PopEffect DEF Shape
<1> QED
  BY <1>1, <1>2, <1>3

LEMMA ProcessInv ==
  ASSUME NEW p \in Processes, QueueInv, Crash(p) \/ Start(p)
  PROVE  QueueInv'
<1> USE DEF QueueInv, OutcomeInv, Ended, outcomes
<1>0. UNCHANGED <<message, task, outcomes>>
  BY DEF Crash, Start
<1>1. /\ place' \in [Messages -> ListNames]
      /\ \A n \in Messages : place'[n] = "gone" => place[n] = "gone"
  BY DEF Crash, Start, RecoverWorking, queueVars, Shape, ListNames
<1>2. /\ worker' \in [Processes -> WorkerRecord]
      /\ \A q \in Processes : worker'[q].at = "ack" => worker'[q] = worker[q]
  <2>1. CASE Crash(p)
    <3>1. [at |-> "down", on |-> Nobody] \in WorkerRecord
      BY DEF WorkerRecord, Stations
    <3> QED
      BY <2>1, <3>1 DEF Crash, Shape
  <2>2. CASE Start(p)
    BY <2>2, PopEffect DEF Start
  <2> QED
    BY <2>1, <2>2
<1> QED
  BY <1>0, <1>1, <1>2 DEF Shape

HistoryGrows == /\ answered \subseteq answered' /\ concluded \subseteq concluded'
                /\ unrecorded \subseteq unrecorded'

\* What a worker writes of its message: an outcome only with the history of it.
MarksWithOutcome(m) ==
    \/ UNCHANGED message
    \/ \E s \in Statuses : Mark(m, s) /\ (s \in {"completed", "ignored"} => Ended(m)')

TaskWithOutcome(m) ==
    \/ UNCHANGED task
    \/ \E s \in TaskStatuses : /\ task' = [task EXCEPT ![m] = s]
                               /\ s \in Over => Ended(m)'

JobStep(p, m) ==
    /\ worker[p].on = m
    /\ \E at \in Stations : Go(p, at) /\ (at = "ack" => Ended(m)')
    /\ MarksWithOutcome(m) /\ TaskWithOutcome(m)
    /\ UNCHANGED place /\ HistoryGrows

LEMMA JobStepInv ==
  ASSUME NEW p \in Processes, NEW m \in Messages, QueueInv, JobStep(p, m)
  PROVE  QueueInv'
<1> USE DEF QueueInv, OutcomeInv, Ended, outcomes
<1>0. UNCHANGED place /\ HistoryGrows
  BY DEF JobStep
<1> USE DEF HistoryGrows
<1>1. /\ message' \in [Messages -> MessageRecord]
      /\ \A n \in Messages : message'[n].status \in {"completed", "ignored"} => Ended(n)'
  <2>1. CASE UNCHANGED message
    BY <1>0, <2>1 DEF Shape
  <2>2. CASE \E s \in Statuses : Mark(m, s) /\ (s \in {"completed", "ignored"} => Ended(m)')
    BY <1>0, <2>2, MarkEffect
  <2> QED
    BY <2>1, <2>2 DEF JobStep, MarksWithOutcome
<1>2. /\ task' \in [Messages -> TaskStatuses]
      /\ \A n \in Messages : task'[n] \in Over => Ended(n)'
  BY <1>0 DEF JobStep, TaskWithOutcome, Shape
<1>3. /\ worker' \in [Processes -> WorkerRecord]
      /\ \A q \in Processes : (worker[q].at = "ack" => Ended(worker[q].on))'
  <2>1. PICK at \in Stations : Go(p, at) /\ (at = "ack" => Ended(m)')
    BY DEF JobStep
  <2>2. worker[p].on = m
    BY DEF JobStep
  <2> QED
    BY <1>0, <2>1, <2>2, WorkerEffect
<1> QED
  BY <1>0, <1>1, <1>2, <1>3 DEF Shape

LEMMA OutcomeEffect ==
  ASSUME NEW m \in Messages, NEW s \in Over, NEW k \in Statuses, WriteOutcome(m, s, k)
  PROVE  Ended(m)' /\ HistoryGrows /\ TaskWithOutcome(m) /\ MarksWithOutcome(m)
<1>1. Ended(m)' /\ HistoryGrows
  BY DEF WriteOutcome, Conclude, Ended, HistoryGrows
<1>2. Over \subseteq TaskStatuses
  BY DEF TaskStatuses
<1>3. TaskWithOutcome(m)
  BY <1>1, <1>2 DEF WriteOutcome, Conclude, TaskWithOutcome
<1>4. MarksWithOutcome(m)
  BY <1>1 DEF WriteOutcome, MarksWithOutcome
<1> QED
  BY <1>1, <1>3, <1>4

LEMMA OutcomeStays ==
  ASSUME NEW m \in Messages, UNCHANGED outcomes
  PROVE  HistoryGrows /\ Ended(m)' = Ended(m)
  BY DEF outcomes, HistoryGrows, Ended

LEMMA StatusNames ==
  /\ {"completed", "ignored", "failed", "processing"} \subseteq Statuses
  /\ {"completed", "delivery_failed", "failed"} = Over
  /\ {"created", "processing", "uploading"} \subseteq TaskStatuses
  /\ \A s \in {"created", "processing", "uploading"} : s \notin Over
  BY DEF Statuses, Over, TaskStatuses

\* A write of the message that may be lost, and the same of the task.
LEMMA TryEffect ==
  ASSUME NEW m \in Messages, UNCHANGED outcomes
  PROVE  /\ \A s \in {"failed", "processing"} : TryMark(m, s) => MarksWithOutcome(m)
         /\ TryMark(m, "completed") /\ Ended(m) => MarksWithOutcome(m)
         /\ \A s \in {"processing", "uploading"} : TryTask(m, s) => TaskWithOutcome(m)
<1>1. ASSUME NEW s \in {"failed", "processing"}, TryMark(m, s)
      PROVE  MarksWithOutcome(m)
  BY <1>1, StatusNames DEF TryMark, MarksWithOutcome
<1>2. ASSUME TryMark(m, "completed"), Ended(m) PROVE MarksWithOutcome(m)
  BY <1>2, StatusNames, OutcomeStays DEF TryMark, MarksWithOutcome
<1>3. ASSUME NEW s \in {"processing", "uploading"}, TryTask(m, s)
      PROVE  TaskWithOutcome(m)
  BY <1>3, StatusNames DEF TryTask, TaskWithOutcome
<1> QED
  BY <1>1, <1>2, <1>3

LEMMA JobInv ==
  ASSUME NEW p \in Processes, NEW m \in Messages, QueueInv,
         \/ Load(p, m) \/ FailMessage(p, m) \/ CreateTask(p, m) \/ Answer(p, m) \/ Check(p, m)
         \/ Execute(p, m) \/ Generate(p, m) \/ Upload(p, m) \/ Deliver(p, m)
  PROVE  QueueInv'
<1> SUFFICES JobStep(p, m)
  BY JobStepInv
<1>0. /\ message[m].status \in {"completed", "ignored"} => Ended(m)
      /\ task[m] \in Over => Ended(m)
      /\ task[m] \in TaskStatuses
  BY DEF QueueInv, Shape, OutcomeInv
<1> USE DEF queueVars
<1>1. CASE Load(p, m)
  <2>1. UNCHANGED <<outcomes, place, task>> /\ worker[p].on = m
    BY <1>1, OnEffect DEF Load
  <2>2. MarksWithOutcome(m)
    BY <1>1, <2>1, TryEffect DEF Load, MarksWithOutcome
  <2>3. \E at \in Stations : Go(p, at) /\ (at = "ack" => Ended(m)')
    BY <1>0, <1>1, <2>1, OutcomeStays DEF Load, Handled, Stations
  <2> QED
    BY <2>1, <2>2, <2>3, OutcomeStays DEF JobStep, TaskWithOutcome
<1>2. CASE FailMessage(p, m)
  <2>1. HistoryGrows /\ TaskWithOutcome(m) /\ MarksWithOutcome(m)
    <3>1. CASE worker[p].at = "fail task"
      BY <1>2, <3>1, OutcomeEffect, StatusNames DEF FailMessage
    <3>2. CASE worker[p].at # "fail task"
      BY <1>2, <3>2, TryEffect, OutcomeStays DEF FailMessage, TaskWithOutcome
    <3> QED
      BY <3>1, <3>2
  <2> QED
    BY <1>2, <2>1 DEF FailMessage, JobStep, Stations
<1>3. CASE CreateTask(p, m)
  <2>1. UNCHANGED <<outcomes, place>> /\ worker[p].on = m
    BY <1>3, OnEffect DEF CreateTask
  <2>2. TaskWithOutcome(m)
    BY <1>0, <1>3, StatusNames DEF CreateTask, TaskWithOutcome
  <2>3. MarksWithOutcome(m)
    BY <1>0, <1>3, <2>1, TryEffect DEF CreateTask, MarksWithOutcome
  <2>4. \E at \in Stations : Go(p, at) /\ (at = "ack" => Ended(m)')
    BY <1>0, <1>3, <2>1, OutcomeStays DEF CreateTask, Stations
  <2> QED
    BY <2>1, <2>2, <2>3, <2>4, OutcomeStays DEF JobStep
<1>4. CASE Answer(p, m)
  <2>1. /\ HistoryGrows /\ TaskWithOutcome(m) /\ MarksWithOutcome(m)
        /\ Ended(m)' \/ Go(p, "fail task")
    <3>1. CASE \E k \in {"completed", "ignored"} : WriteOutcome(m, "completed", k)
      BY <3>1, OutcomeEffect, StatusNames
    <3>2. CASE Go(p, "fail task") /\ UNCHANGED <<message, task, outcomes>>
      BY <3>2, OutcomeStays DEF TaskWithOutcome, MarksWithOutcome
    <3> QED
      BY <1>4, <3>1, <3>2 DEF Answer
  <2>2. Go(p, "ack") \/ Go(p, "failed") \/ Go(p, "fail task")
    BY <1>4 DEF Answer
  <2>3. \E at \in Stations : Go(p, at) /\ (at = "ack" => Ended(m)')
    BY <2>1, <2>2 DEF Stations
  <2> QED
    BY <1>4, <2>1, <2>3, OnEffect DEF Answer, JobStep
<1>5. CASE Check(p, m)
  <2>1. UNCHANGED <<message, outcomes, place>> /\ worker[p].on = m
    BY <1>5, OnEffect DEF Check
  <2>2. TaskWithOutcome(m)
    BY <1>5, <2>1, TryEffect DEF Check, TaskWithOutcome
  <2> QED
    BY <1>5, <2>1, <2>2, OutcomeStays DEF Check, JobStep, Stations, MarksWithOutcome
<1>6. CASE Execute(p, m)
  BY <1>6, OnEffect, OutcomeStays DEF Execute, JobStep, Stations, MarksWithOutcome, TaskWithOutcome
<1>7. CASE Generate(p, m)
  BY <1>7, OnEffect, OutcomeStays DEF Generate, JobStep, Stations, MarksWithOutcome, TaskWithOutcome
<1>8. CASE Upload(p, m)
  <2>1. UNCHANGED <<message, outcomes, place>> /\ worker[p].on = m
    BY <1>8, OnEffect DEF Upload
  <2>2. TaskWithOutcome(m)
    BY <1>8, <2>1, TryEffect DEF Upload
  <2> QED
    BY <1>8, <2>1, <2>2, OutcomeStays DEF Upload, JobStep, Stations, MarksWithOutcome
<1>9. CASE Deliver(p, m)
  <2>1. Ended(m)' /\ HistoryGrows /\ TaskWithOutcome(m) /\ MarksWithOutcome(m)
    BY <1>9, OutcomeEffect, StatusNames DEF Deliver
  <2> QED
    BY <1>9, <2>1, OnEffect DEF Deliver, JobStep, Stations
<1> QED
  BY <1>1, <1>2, <1>3, <1>4, <1>5, <1>6, <1>7, <1>8, <1>9

LEMMA OtherInv ==
  ASSUME NEW m \in Messages, QueueInv, RetryDelivery(m) \/ LeaseExpires(m)
  PROVE  QueueInv'
<1> USE DEF QueueInv, Shape, OutcomeInv, Ended, outcomes
<1>1. CASE RetryDelivery(m)
  BY <1>1 DEF RetryDelivery, Conclude, queueVars, TaskStatuses, Over
<1>2. CASE LeaseExpires(m)
  BY <1>2 DEF LeaseExpires, queueVars
<1> QED
  BY <1>1, <1>2

LEMMA NextInv == QueueInv /\ [Next]_vars => QueueInv'
<1> SUFFICES ASSUME QueueInv, [Next]_vars PROVE QueueInv'
  OBVIOUS
<1>1. CASE Next
  BY <1>1, EventInv, ListInv, ProcessInv, JobInv, OtherInv DEF Next, Work
<1>2. CASE UNCHANGED vars
  BY <1>2 DEF QueueInv, Shape, OutcomeInv, Ended, vars, queueVars
<1> QED
  BY <1>1, <1>2

\* A job is acknowledged and removed only when its user has been told an outcome,
\* which its task shows unless the write was lost, whatever jobs are taken back,
\* failed and worked on twice meanwhile (Run, processJob, recoverWorking).
THEOREM NeverForgottenTheorem == Spec => []NeverForgotten
<1>1. QueueInv => NeverForgotten
  BY DEF QueueInv, OutcomeInv, Ended, NeverForgotten
<1> QED
  BY <1>1, InitInv, NextInv, PTL DEF Spec

===============================================================================
