------------------------------ MODULE Admission ------------------------------
(* Admitting generation tasks and sharing them out: the admission inside the *)
(* transaction that creates a task, and the fair scheduler, both under one   *)
(* advisory lock per user.  What a task does once a worker has it is         *)
(* GenerationWorker's, what waits too long the watchdog's.                  *)
EXTENDS Integers, SequencesExt

CONSTANTS Users, Tasks,
          Callers,            \* requests being admitted at the same time
          Schedulers,         \* processes that run the scheduler
          Routes(_),          \* how a user's tasks are requested, see Cue
          Enterprise,         \* users that act for an enterprise
          Subscribers,        \* users whose plan may run out
          Concurrency(_), MaxQueued(_), \* of a user's plan
          BatchUsers, BatchTasksPerUser,
          MaxRecoveries       \* bound: tasks put back by stale recovery

\* The limits of a plan that has run out and of an enterprise, scaled down:
\* a backlog of 1 stands for 10 or 200, a cap of 2 for 20.
FreeConcurrency == 1
FreeQueueBacklog == 1
EnterpriseCap == 2
EnterpriseBacklog == 1

AdmissionAssumption ==
    /\ Enterprise \subseteq Users
    /\ Callers \cap Schedulers = {} /\ "free" \notin Callers \cup Schedulers
    /\ \A u \in Users : /\ Routes(u) \subseteq {"image", "canary", "direct", "video", "ppt"}
                        /\ Concurrency(u) \in Nat /\ MaxQueued(u) \in Nat \ {0}
    /\ BatchUsers \in Nat \ {0} /\ BatchTasksPerUser \in Nat \ {0} /\ MaxRecoveries \in Nat

VARIABLES line,               \* tasks in flight, oldest first (created_at)
          task,               \* per task: user, route, state, cue, execution, past
          expired,            \* users whose subscription has run out
          lock,               \* who holds a user's advisory lock
          call,               \* what an admission has decided
          round,              \* a scheduler's candidates and the current user's quota
          recoveries          \* bound

vars == <<line, task, expired, lock, call, round, recoveries>>

Idle == [user |-> "none"]

\* Of the provider's executions only whether there is one to be taken up again
\* ("open") or all of them are over; past is history: a worker has a task that
\* no scheduler sent it.
NoTask == [user |-> "none", route |-> "none", state |-> "none", cue |-> "none",
           execution |-> "none", past |-> FALSE]
NoRound == [todo |-> <<>>, quota |-> 0]

Init ==
    /\ line = <<>>
    /\ task = [k \in Tasks |-> NoTask]
    /\ expired = {}
    /\ lock = [u \in Users |-> "free"]
    /\ call = [c \in Callers |-> Idle]
    /\ round = [s \in Schedulers |-> NoRound]
    /\ recoveries = 0

Queued(u) == {k \in Tasks : task[k].user = u /\ task[k].state = "queued"}
Running(u) == {k \in Tasks : task[k].user = u /\ task[k].state \in {"dispatching", "running"}}

\* resolveUserConcurrencyProfile: an expired plan counts as the free one.
Profile(u) ==
    IF u \in expired THEN [concurrency |-> FreeConcurrency, maxQueued |-> FreeQueueBacklog]
                     ELSE [concurrency |-> Concurrency(u), maxQueued |-> MaxQueued(u)]

Expire(u) ==
    /\ u \in Subscribers \ expired
    /\ expired' = expired \cup {u}
    /\ UNCHANGED <<line, task, lock, call, round, recoveries>>

\* As if nobody took the lock.
AlwaysFree(u) == TRUE

Free(u) == lock[u] = "free"

-----------------------------------------------------------------------------
(* Creating a task.                                                          *)

AdmissionProfile(u) ==
    IF u \in Enterprise THEN [concurrency |-> EnterpriseCap, maxQueued |-> EnterpriseBacklog]
                        ELSE Profile(u)

\* What sets a new task going: an event in the same transaction, a goroutine of
\* the request, or nothing.
Cue(route, canDispatch) ==
    CASE route = "image" -> "none"
      [] route = "canary" -> IF canDispatch THEN "event" ELSE "none"
      [] route = "ppt" -> "event"
      [] OTHER -> "goroutine"

BacklogLeft(u, p) == Cardinality(Queued(u)) < p.maxQueued

\* checkPostgresGenerationAdmissionTx: personal users wait for the lock, for an
\* enterprise nothing is locked.  No plan limit at all means no check.
CheckAdmission(c, u, route) ==
    LET p == AdmissionProfile(u)
        can == p.concurrency = 0 \/ Cardinality(Running(u)) < p.concurrency
    IN /\ call[c] = Idle
       /\ u \in Enterprise \/ Free(u)
       /\ BacklogLeft(u, p)
       /\ route \in {"ppt", "direct"} => can
       /\ call' = [call EXCEPT ![c] = [user |-> u, route |-> route, cue |-> Cue(route, can)]]
       /\ lock' = IF u \in Enterprise THEN lock ELSE [lock EXCEPT ![u] = c]
       /\ UNCHANGED <<line, task, expired, round, recoveries>>

Unlocked(holder) == [u \in Users |-> IF lock[u] = holder THEN "free" ELSE lock[u]]

\* The rest of the transaction: points, the row and its event.
CommitTask(c, k) ==
    /\ call[c] # Idle
    /\ task[k] = NoTask
    /\ task' = [task EXCEPT ![k] = [user |-> call[c].user, route |-> call[c].route,
                                    state |-> "queued", cue |-> call[c].cue,
                                    execution |-> "none", past |-> FALSE]]
    /\ line' = Append(line, k)
    /\ call' = [call EXCEPT ![c] = Idle]
    /\ lock' = Unlocked(c)
    /\ UNCHANGED <<expired, round, recoveries>>

\* Too few points, or any other error.
RollBack(c) ==
    /\ call[c] # Idle
    /\ call' = [call EXCEPT ![c] = Idle]
    /\ lock' = Unlocked(c)
    /\ UNCHANGED <<line, task, expired, round, recoveries>>

-----------------------------------------------------------------------------
(* The scheduler.                                                            *)

Image(k) == task[k].route \in {"image", "canary", "direct"}

Waiting(k) == task[k].state = "queued" /\ task[k].route # "ppt"

\* As if the newest task decided.
NewestFirst == Reverse(line)

OldestFirst == line

\* DispatchOnce: users by their oldest queued task, read without a lock.
Candidates ==
    LET queue == SelectSeq(OldestFirst, Waiting)
        users == [i \in DOMAIN queue |-> task[queue[i]].user]
        firsts == FoldLeft(LAMBDA s, u : IF Contains(s, u) THEN s ELSE Append(s, u), <<>>, users)
    IN SubSeq(firsts, 1, IF BatchUsers < Len(firsts) THEN BatchUsers ELSE Len(firsts))

Tick(s) ==
    /\ round[s].todo = <<>>
    /\ Candidates # <<>>
    /\ round' = [round EXCEPT ![s].todo = Candidates]
    /\ UNCHANGED <<line, task, expired, lock, call, recoveries>>

\* Also for a user of an enterprise it is the personal plan that counts here.
Available(u) ==
    LET c == Profile(u).concurrency
    IN (IF c = 0 THEN EnterpriseCap ELSE c) - Cardinality(Running(u))

\* dispatchUserTx up to the count.
LockUser(s) ==
    /\ round[s].todo # <<>> /\ round[s].quota = 0
    /\ LET u == Head(round[s].todo)
       IN /\ Free(u)
          /\ IF Available(u) <= 0
             THEN /\ round' = [round EXCEPT ![s].todo = Tail(@)]
                  /\ UNCHANGED lock
             ELSE /\ round' = [round EXCEPT ![s].quota = IF BatchTasksPerUser < Available(u)
                                                         THEN BatchTasksPerUser ELSE Available(u)]
                  /\ lock' = [lock EXCEPT ![u] = s]
    /\ UNCHANGED <<line, task, expired, call, recoveries>>

\* An image that was put back with an execution is sent out only to take it up
\* again.  (A queued row has neither owner nor lease: whoever queues it clears both.)
Schedulable(k) == Waiting(k) /\ (Image(k) => task[k].execution # "closed")

\* The places in the line of a user's tasks that can be sent out.
Places(u) == {i \in DOMAIN line : Schedulable(line[i]) /\ task[line[i]].user = u}

\* As many of a user's tasks as there is room for, the oldest ones, without those
\* whose rows another transaction holds (SKIP LOCKED).
Selected(u, quota, held) ==
    LET open == Places(u) \ held
    IN {line[i] : i \in {j \in open : Cardinality({h \in open : h < j}) < quota}}

\* dispatchUserTx from the selection to the commit, or rolled back with nothing
\* selected.
DispatchExcept(s, u, held) ==
    /\ round[s].quota > 0 /\ u = Head(round[s].todo)
    /\ LET chosen == Selected(u, round[s].quota, held)
       IN task' = [k \in Tasks |-> IF k \in chosen THEN [task[k] EXCEPT !.state = "dispatching"]
                                                   ELSE task[k]]
    /\ round' = [round EXCEPT ![s] = [todo |-> Tail(@.todo), quota |-> 0]]
    /\ lock' = Unlocked(s)
    /\ UNCHANGED <<line, expired, call, recoveries>>

DispatchUser(s) ==
    \E u \in Users : \E held \in SUBSET Places(u) : DispatchExcept(s, u, held)

\* RecoverStaleDispatches puts a task back in its place: one whose only event was
\* never taken by a publisher, or an image with an execution to take up again.
RecoverStale(k) ==
    /\ Schedulers # {}
    /\ recoveries < MaxRecoveries
    /\ \/ /\ task[k].state = "dispatching"
          /\ task[k].execution = "none" /\ task[k].cue # "event"
       \/ task[k].state \in {"dispatching", "running"} /\ task[k].execution = "open"
    /\ task' = [task EXCEPT ![k].state = "queued", ![k].past = FALSE]
    /\ recoveries' = recoveries + 1
    /\ UNCHANGED <<line, expired, lock, call, round>>

-----------------------------------------------------------------------------
(* Workers: no lock of the user, no count.                                   *)

Claim(k) ==
    /\ \/ task[k].state = "dispatching"
       \/ task[k].state = "queued" /\ task[k].cue # "none" /\ task[k].execution = "none"
    /\ task' = [task EXCEPT ![k].state = "running", ![k].past = task[k].state = "queued"]
    /\ UNCHANGED <<line, expired, lock, call, round, recoveries>>

\* A task that was put back with its execution has kept its generation: a message
\* of its former dispatch, delivered again, or the watchdog may claim it as well
\* (validateGenerationClaim, claimImageRecoveryOwnership), the lock or not.
ClaimAgain(k) ==
    /\ task[k].state = "queued" /\ task[k].execution # "none"
    /\ task' = [task EXCEPT ![k].state = "running", ![k].past = TRUE]
    /\ UNCHANGED <<line, expired, lock, call, round, recoveries>>

\* The run of an image makes an execution, also a new one after one that failed.
Execute(k) ==
    /\ task[k].state = "running" /\ Image(k) /\ task[k].execution # "open"
    /\ task' = [task EXCEPT ![k].execution = "open"]
    /\ UNCHANGED <<line, expired, lock, call, round, recoveries>>

\* It fails, or its outcome is lost, at any time: a run goes on without its task.
ExecutionEnds(k) ==
    /\ task[k].state = "queued" /\ task[k].execution = "open"
    /\ task' = [task EXCEPT ![k].execution = "closed"]
    /\ UNCHANGED <<line, expired, lock, call, round, recoveries>>

Finish(k) ==
    /\ task[k].state = "running"
    /\ task' = [task EXCEPT ![k] = NoTask]
    /\ \E i \in DOMAIN line : line[i] = k /\ line' = RemoveAt(line, i)
    /\ UNCHANGED <<expired, lock, call, round, recoveries>>

Next ==
    \/ \E u \in Users : Expire(u)
    \/ \E c \in Callers : \/ \E u \in Users : \E route \in Routes(u) : CheckAdmission(c, u, route)
                          \/ \E k \in Tasks : CommitTask(c, k)
                          \/ RollBack(c)
    \/ \E s \in Schedulers : Tick(s) \/ LockUser(s) \/ DispatchUser(s)
    \/ \E k \in Tasks : \/ RecoverStale(k) \/ Claim(k) \/ ClaimAgain(k)
                        \/ Execute(k) \/ ExecutionEnds(k) \/ Finish(k)

\* The scheduler ticks forever, a transaction ends, a published event is
\* delivered in the end and a worker ends in the end.  A lock is granted in the
\* end: PostgreSQL queues its waiters.  And the rows of a user are not held by
\* others each time some scheduler comes to them.
Fairness ==
    /\ \A s \in Schedulers : WF_vars(Tick(s)) /\ SF_vars(LockUser(s))
    /\ \A u \in Users : SF_vars(\E s \in Schedulers : DispatchExcept(s, u, {}))
    /\ \A c \in Callers : WF_vars(RollBack(c) \/ \E k \in Tasks : CommitTask(c, k))
    /\ \A k \in Tasks : WF_vars(Claim(k)) /\ WF_vars(Finish(k))

Spec == Init /\ [][Next]_vars
FairSpec == Spec /\ Fairness

-----------------------------------------------------------------------------
(* Properties.                                                               *)

PlanConcurrency(u) == IF Concurrency(u) = 0 THEN EnterpriseCap ELSE Concurrency(u)

\* A user never has more tasks at work that a scheduler sent there than his plan
\* allows, however many requests, schedulers and recoveries run at once (the
\* advisory lock around count and selection in dispatchUserTx).  Tasks that come
\* to a worker past the scheduler, on their own route or claimed again while they
\* are queued, take no lock: the next count includes them, but those that start
\* after a count exceed the plan.
SentWithinPlan ==
    \A u \in Users : Cardinality({k \in Running(u) : ~task[k].past}) <= PlanConcurrency(u)

\* A queued task whose executions are over, which no scheduler takes any more: it
\* is the watchdog's, and its user keeps a place among the candidates till then.
LeftOver(k) == Waiting(k) /\ ~Schedulable(k)

\* Every task that was accepted gets to a worker, however many tasks other users
\* submit: the oldest task of a user brings its user to the front (DispatchOnce).
\* Only a left over task, which no scheduler selects, may keep the others waiting.
EventuallyServed ==
    \A k \in Tasks :
        task[k].state = "queued" ~> task[k].state # "queued" \/ \E j \in Tasks : LeftOver(j)

=============================================================================
