--------------------------- MODULE BrokerConnection ---------------------------
(* The connection manager and the consumers that live on its connection: one *)
(* goroutine dials, installs and clears the connection, the consumers wait   *)
(* for it, open a channel, consume and come back when the channel closes.    *)
EXTENDS Integers

CONSTANTS Consumers,
          MaxConnections,  \* bound: connections dialled, and channel failures
          Failures         \* subset of {"dial", "connection", "open", "setup", "channel"}

ConnectionAssumption == MaxConnections \in Nat

None == 0                  \* no connection; connections are numbered from 1

VARIABLES manager,         \* where run() is
          dialled,         \* the connection run() has dialled
          open,            \* connections the broker has not closed
          conn, state,     \* under the manager's lock
          changed,         \* who took the channel that the next change closes
          closing,         \* where Close() is
          stopped,         \* the manager's context is done
          consumer,        \* where supervise() is, with what it read
          cancelled,       \* consumers whose context is done
          failures         \* bound: failures of single channels

vars == <<manager, dialled, open, conn, state, changed, closing, stopped, consumer,
          cancelled, failures>>
managerVars == <<manager, dialled>>
lockVars == <<conn, state, changed>>

Init ==
    /\ manager = "dial" /\ dialled = None /\ open = {}
    /\ conn = None /\ state = "disconnected" /\ changed = {}
    /\ closing = "no" /\ stopped = FALSE
    /\ consumer = [c \in Consumers |-> [at |-> "read", on |-> None]]
    /\ cancelled = {} /\ failures = 0

\* Under the lock: a new connection and state, and everyone waiting is woken.
Install(c, s) == conn' = c /\ state' = s /\ changed' = {}

SetState(s) == IF state = s THEN UNCHANGED lockVars
               ELSE Install(conn, s)

-----------------------------------------------------------------------------
(* run(): the owner of the connection.                                       *)

BeginDial ==
    /\ manager = "dial"
    /\ manager' = IF stopped THEN "returned" ELSE "dialling"
    /\ IF stopped THEN UNCHANGED lockVars ELSE SetState("connecting")
    /\ UNCHANGED <<dialled, open, closing, stopped, consumer, cancelled, failures>>

\* Dialling and declaring the topology succeed or fail; a failure is retried
\* after a delay unless the manager was stopped.
Dial ==
    /\ manager = "dialling"
    /\ \/ /\ ~stopped /\ dialled < MaxConnections
          /\ dialled' = dialled + 1 /\ open' = open \cup {dialled + 1}
          /\ manager' = "install"
          /\ UNCHANGED lockVars
       \/ /\ "dial" \in Failures \/ stopped
          /\ manager' = IF stopped THEN "returned" ELSE "dial"
          /\ IF stopped THEN UNCHANGED lockVars ELSE SetState("disconnected")
          /\ UNCHANGED <<dialled, open>>
    /\ UNCHANGED <<closing, stopped, consumer, cancelled, failures>>

InstallConnection ==
    /\ manager = "install"
    /\ IF stopped
       THEN /\ open' = open \ {dialled}
            /\ manager' = "returned"
            /\ UNCHANGED lockVars
       ELSE /\ Install(dialled, "connected")
            /\ manager' = "watch"
            /\ UNCHANGED open
    /\ UNCHANGED <<dialled, closing, stopped, consumer, cancelled, failures>>

\* As if only the state were cleared.
ClearState(s) == IF conn = dialled THEN Install(conn, s) ELSE UNCHANGED lockVars

Clear(s) == IF conn = dialled THEN Install(None, s) ELSE UNCHANGED lockVars

Lost(d) == d \notin open

\* The manager is stopped, or the broker has closed the connection.
WatchConnection ==
    /\ manager = "watch"
    /\ \/ /\ stopped
          /\ Clear("closing")
          /\ open' = open \ {dialled}
          /\ manager' = "returned"
       \/ /\ Lost(dialled)
          /\ Clear("disconnected")
          /\ manager' = "dial"
          /\ UNCHANGED open
    /\ UNCHANGED <<dialled, closing, stopped, consumer, cancelled, failures>>

\* With "open", also while a consumer is about to open a channel on it.
BrokerCloses ==
    /\ "connection" \in Failures
    /\ "open" \in Failures \/ \A c \in Consumers : consumer[c].at # "open"
    /\ dialled \in open /\ dialled < MaxConnections
    /\ open' = open \ {dialled}
    /\ UNCHANGED <<managerVars, lockVars, closing, stopped, consumer, cancelled, failures>>

-----------------------------------------------------------------------------
(* Close(), in the order of its steps.                                       *)

CloseAnnounces ==
    /\ closing = "no"
    /\ closing' = "announced"
    /\ SetState("closing")
    /\ UNCHANGED <<managerVars, open, stopped, consumer, cancelled, failures>>

CloseStops ==
    /\ closing = "announced"
    /\ closing' = "stopped"
    /\ stopped' = TRUE
    /\ open' = open \ {conn}
    /\ UNCHANGED <<managerVars, lockVars, consumer, cancelled, failures>>

\* As if Close did not wait for run() to return.
AnyManager(m) == TRUE

Returned(m) == m = "returned"

CloseReturns ==
    /\ closing = "stopped"
    /\ Returned(manager)
    /\ closing' = "returned"
    /\ Install(None, "disconnected")
    /\ UNCHANGED <<managerVars, open, stopped, consumer, cancelled, failures>>

-----------------------------------------------------------------------------
(* supervise() of a consumer.                                                *)

Move(c, at, on) == consumer' = [consumer EXCEPT ![c] = [at |-> at, on |-> on]]

\* As if the loop did not look at its context.
NeverEnds(c) == FALSE

LoopEnds(c) == c \in cancelled

\* WaitForConnection reads connection, state and channel under one read lock.
ReadConnection(c) ==
    /\ consumer[c].at = "read"
    /\ IF LoopEnds(c) THEN Move(c, "ended", None)
       ELSE IF conn \in open /\ state = "connected" THEN Move(c, "open", conn)
       ELSE IF state = "closing" \/ stopped THEN Move(c, "ended", None)
       ELSE Move(c, "wait", None)
    /\ changed' = IF consumer'[c].at = "wait" THEN changed \cup {c} ELSE changed
    /\ UNCHANGED <<managerVars, open, conn, state, closing, stopped, cancelled, failures>>

WakeUp(c) ==
    /\ consumer[c].at = "wait"
    /\ \/ /\ c \in cancelled \/ stopped
          /\ Move(c, "ended", None)
       \/ /\ c \notin changed
          /\ Move(c, "read", None)
    /\ UNCHANGED <<managerVars, open, lockVars, closing, stopped, cancelled, failures>>

\* supervise() returns when no channel could be opened, whatever the reason.
AfterOpenFailure(c) == Move(c, "ended", None)

\* A channel of the connection read before, which may have closed since.
OpenChannel(c) ==
    /\ consumer[c].at = "open"
    /\ \/ /\ consumer[c].on \in open
          /\ Move(c, "set up", consumer[c].on)
       \/ /\ consumer[c].on \notin open
          /\ AfterOpenFailure(c)
    /\ UNCHANGED <<managerVars, open, lockVars, closing, stopped, cancelled, failures>>

\* Qos and Consume fail only with their channel; supervise() waits and goes round.
SetUp(c) ==
    /\ consumer[c].at = "set up"
    /\ \/ /\ consumer[c].on \in open
          /\ Move(c, "consume", consumer[c].on)
          /\ UNCHANGED failures
       \/ /\ consumer[c].on \notin open
          /\ Move(c, "read", None)
          /\ UNCHANGED failures
       \/ /\ "setup" \in Failures /\ failures < MaxConnections
          /\ failures' = failures + 1
          /\ Move(c, "read", None)
    /\ UNCHANGED <<managerVars, open, lockVars, closing, stopped, cancelled>>

\* As if a consumer ended with its channel.
EndsWithChannel(c) == "ended"

AfterDispatch(c) == IF LoopEnds(c) THEN "ended" ELSE "read"

\* dispatch() returns when the context is done or the channel or its connection
\* has closed.
DispatchReturns(c) ==
    /\ consumer[c].at = "consume"
    /\ \/ (c \in cancelled \/ consumer[c].on \notin open) /\ UNCHANGED failures
       \/ "channel" \in Failures /\ failures < MaxConnections /\ failures' = failures + 1
    /\ Move(c, AfterDispatch(c), None)
    /\ UNCHANGED <<managerVars, open, lockVars, closing, stopped, cancelled>>

\* Stop cancels the consumer's context and waits until supervise() has returned.
StopConsumer(c) ==
    /\ c \notin cancelled
    /\ cancelled' = cancelled \cup {c}
    /\ UNCHANGED <<managerVars, open, lockVars, closing, stopped, consumer, failures>>

Supervise(c) == ReadConnection(c) \/ WakeUp(c) \/ OpenChannel(c) \/ SetUp(c) \/ DispatchReturns(c)

Run == BeginDial \/ Dial \/ InstallConnection \/ WatchConnection

Close == CloseAnnounces \/ CloseStops \/ CloseReturns

Next == \/ Run \/ BrokerCloses \/ Close
        \/ \E c \in Consumers : Supervise(c) \/ StopConsumer(c)

\* Goroutines run on; Close, once called, runs on; the broker can be reached
\* again and again.
Fairness ==
    /\ WF_vars(BeginDial \/ InstallConnection \/ WatchConnection)
    /\ SF_vars(Dial /\ manager' = "install") /\ WF_vars(Dial)
    /\ WF_vars(CloseStops \/ CloseReturns)
    /\ \A c \in Consumers : WF_vars(ReadConnection(c) \/ WakeUp(c) \/ OpenChannel(c))
    /\ \A c \in Consumers : SF_vars(SetUp(c) /\ consumer'[c].at = "consume")
    /\ \A c \in Consumers : WF_vars(SetUp(c)) /\ WF_vars(DispatchReturns(c) /\ failures' = failures)

Spec == Init /\ [][Next]_vars /\ Fairness

-----------------------------------------------------------------------------
(* Properties.                                                               *)

\* When Close has returned, no connection is open and none will be.
ClosedForGood == closing = "returned" => open = {} /\ conn = None

\* A consumer that nobody stops consumes again after every connection it lost,
\* provided no connection closes in the moment between finding it and opening a
\* channel on it.
EventuallyConsumes ==
    \A c \in Consumers : []<>(consumer[c].at = "consume" \/ c \in cancelled \/ closing # "no")

\* The consumer's loop ends only when it or the manager is stopped: it recreates
\* its channel after every closure (the comment on Consumer).
EndsOnlyWhenStopped ==
    \A c \in Consumers :
        consumer[c].at = "ended" => c \in cancelled \/ closing # "no"

=============================================================================
