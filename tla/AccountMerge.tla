----------------------------- MODULE AccountMerge -----------------------------
(* Merging two accounts while their tasks run and their orders are paid. The *)
(* file store does it under its lock; the PostgreSQL store reads everything  *)
(* first and writes the rows of both users back in a later transaction.      *)
EXTENDS Integers, FiniteSets

CONSTANTS Users, Tasks, Orders, Requests,
          Executors,       \* calls of ExecuteAdminAuthMergeRequest
          Pair(_),         \* the two users a request names
          Stores,          \* subset of {"json", "postgres"}
          MaxReopens       \* bound: status changes by an administrator

MergeAssumption ==
    /\ Stores \subseteq {"json", "postgres"} /\ MaxReopens \in Nat /\ "none" \notin Users
    /\ \A r \in Requests : Pair(r) \subseteq Users /\ Cardinality(Pair(r)) = 2

VARIABLES status,          \* of users: ACTIVE or MERGED
          task,            \* owner, state and how much of its params is stored
          reservation,     \* whose points a task holds, or "none"
          order,           \* owner and state
          request,         \* PENDING, IN_REVIEW, RESOLVED, CANCELLED, REJECTED
          snapshot,        \* what an executor has read, or NoSnapshot
          reopens,         \* bound
          store            \* the store this process was started with

vars == <<status, task, reservation, order, request, snapshot, reopens, store>>

NoSnapshot == [taken |-> FALSE]
Absent == [owner |-> "none", state |-> "none", params |-> "full"]
AbsentOrder == [owner |-> "none", state |-> "none"]

Init ==
    /\ status = [u \in Users |-> "ACTIVE"]
    /\ task = [k \in Tasks |-> Absent]
    /\ reservation = [k \in Tasks |-> "none"]
    /\ order = [o \in Orders |-> AbsentOrder]
    /\ request = [r \in Requests |-> "PENDING"]
    /\ snapshot = [x \in Executors |-> NoSnapshot]
    /\ reopens = 0
    /\ store \in Stores

-----------------------------------------------------------------------------
(* What the users do meanwhile.                                              *)

CreateTask(u, k) ==
    /\ status[u] = "ACTIVE" /\ task[k] = Absent
    /\ task' = [task EXCEPT ![k] = [owner |-> u, state |-> "running", params |-> "full"]]
    /\ reservation' = [reservation EXCEPT ![k] = u]
    /\ UNCHANGED <<status, order, request, snapshot, reopens>>

\* Capture or release: the task and its reservation are settled together.
SettleTask(k) ==
    /\ reservation[k] # "none" /\ task[k].state = "running"
    /\ \E s \in {"captured", "released"} : task' = [task EXCEPT ![k].state = s]
    /\ reservation' = [reservation EXCEPT ![k] = "none"]
    /\ UNCHANGED <<status, order, request, snapshot, reopens>>

CreateOrder(u, o) ==
    /\ status[u] = "ACTIVE" /\ order[o] = AbsentOrder
    /\ order' = [order EXCEPT ![o] = [owner |-> u, state |-> "pending"]]
    /\ UNCHANGED <<status, task, reservation, request, snapshot, reopens>>

PayOrder(o) ==
    /\ order[o].state = "pending"
    /\ order' = [order EXCEPT ![o].state = "paid"]
    /\ UNCHANGED <<status, task, reservation, request, snapshot, reopens>>

-----------------------------------------------------------------------------
(* The merge.                                                                *)

Closed(s) == s \in {"RESOLVED", "CANCELLED", "REJECTED"}

\* An administrator sets any status, also of a closed request.
UpdateRequest(r) ==
    /\ reopens < MaxReopens
    /\ \E s \in {"PENDING", "IN_REVIEW", "CANCELLED", "REJECTED"} :
          request' = [request EXCEPT ![r] = s]
    /\ reopens' = reopens + 1
    /\ UNCHANGED <<status, task, reservation, order, snapshot>>

\* As if reserved points did not matter.
AlwaysMergeable(from, to) == TRUE

\* No points of either user are reserved.
Mergeable(from, to) == \A k \in Tasks : reservation[k] \notin {from, to}

MovedTasks(T, from, to) ==
    [k \in Tasks |-> IF T[k].owner = from THEN [T[k] EXCEPT !.owner = to] ELSE T[k]]

MovedOrders(O, from, to) ==
    [o \in Orders |-> IF O[o].owner = from THEN [O[o] EXCEPT !.owner = to] ELSE O[o]]

\* Request and users are read afresh under their locks.
Agreed(r, from, to) ==
    /\ {from, to} = Pair(r)
    /\ ~Closed(request[r])
    /\ Mergeable(from, to)
    /\ request' = [request EXCEPT ![r] = "RESOLVED"]
    /\ status' = [status EXCEPT ![from] = "MERGED"]

ExecuteJSON(r, from, to) ==
    /\ store = "json"
    /\ Agreed(r, from, to)
    /\ task' = MovedTasks(task, from, to)
    /\ order' = MovedOrders(order, from, to)
    /\ UNCHANGED <<reservation, snapshot, reopens>>

\* AdminData: the list of tasks carries only part of their params.
ReadSnapshot(x) ==
    /\ store = "postgres"
    /\ ~snapshot[x].taken
    /\ snapshot' = [snapshot EXCEPT ![x] =
                      [taken |-> TRUE,
                       tasks |-> [k \in Tasks |-> [task[k] EXCEPT !.params = "listed"]],
                       orders |-> order]]
    /\ UNCHANGED <<status, task, reservation, order, request, reopens>>

\* Of the tasks read, those that now belong to the remaining user are written,
\* his own too; of the orders read, those of the user that goes away.
ExecutePostgres(x, r, from, to) ==
    /\ store = "postgres"
    /\ snapshot[x].taken
    /\ Agreed(r, from, to)
    /\ LET T == MovedTasks(snapshot[x].tasks, from, to)
           O == MovedOrders(snapshot[x].orders, from, to)
       IN /\ task' = [k \in Tasks |-> IF T[k].owner = to THEN T[k] ELSE task[k]]
          /\ order' = [o \in Orders |-> IF snapshot[x].orders[o].owner = from THEN O[o]
                                                                             ELSE order[o]]
    /\ snapshot' = [snapshot EXCEPT ![x] = NoSnapshot]
    /\ UNCHANGED <<reservation, reopens>>

\* The call ends in an error: nothing is written.
Refuse(x) ==
    /\ snapshot[x].taken
    /\ snapshot' = [snapshot EXCEPT ![x] = NoSnapshot]
    /\ UNCHANGED <<status, task, reservation, order, request, reopens>>

Execute == \E r \in Requests : \E from, to \in Pair(r) :
              \/ ExecuteJSON(r, from, to)
              \/ \E x \in Executors : ExecutePostgres(x, r, from, to)

Step ==
    \/ \E k \in Tasks : SettleTask(k) \/ \E u \in Users : CreateTask(u, k)
    \/ \E o \in Orders : PayOrder(o) \/ \E u \in Users : CreateOrder(u, o)
    \/ \E r \in Requests : UpdateRequest(r)
    \/ \E x \in Executors : ReadSnapshot(x) \/ Refuse(x)
    \/ Execute

Next == Step /\ UNCHANGED store

Spec == Init /\ [][Next]_vars

-----------------------------------------------------------------------------
(* Properties.                                                               *)

\* The points a running task holds are those of its owner: no merge moves a task
\* away from its reservation, whenever either was created.
ReservedWithOwner ==
    \A k \in Tasks : reservation[k] # "none" =>
        /\ task[k].owner = reservation[k]
        /\ task[k].state = "running"

=============================================================================
