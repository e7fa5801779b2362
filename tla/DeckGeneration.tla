--------------------------- MODULE DeckGeneration ---------------------------
(* A deck that the PPT queue worker makes: an outline from a chat model, slides, *)
(* a stored file, and the capture of the points reserved for it.  Every stage    *)
(* commits by itself and is skipped when the message is delivered again.         *)
(* Nobody owns a deck: its task has no lease, and the execution of its outline   *)
(* has a key of its own, which nobody finds under the task's.  What the deck     *)
(* shows meanwhile (its stage and status) is left out; writing it may fail.      *)
EXTENDS Integers, Sequences

CONSTANTS Workers,
          MaxFaults,      \* bound: crashes, lost channels, failed statements; the
                          \* broker delivers 30 times (RunGenerationPPTCanaryWorker)
          MaxDecisions    \* bound: actions of the operator

DeckAssumption == MaxFaults \in Nat /\ MaxDecisions \in Nat

VARIABLES parent,         \* xz_generation_tasks: status, points, execution_generation
          slides,         \* whether xz_ppt_tasks has the slides of the outline
          asset,          \* the stored file with its row
          outline,        \* provider_executions of the outline: statuses by attempt
          copies,         \* messages in the queue
          processed,      \* the row of the message in consumer_inbox
          runner,         \* where processGenerationPPTCanaryMessage is
          operator,       \* where the recovery API is
          failures        \* bound

deckRows == <<parent, slides, asset, outline>>
message == <<copies, processed>>
vars == <<deckRows, message, runner, operator, failures>>

\* seen is the attempt to create or being made, or the generation observed last;
\* mine says whether the broker still waits for this worker's acknowledgement.
Idle == [at |-> "idle", mine |-> FALSE, seen |-> 0]

Init ==
    /\ parent = [status |-> "RUNNING", points |-> "reserved", gen |-> 1]
    /\ slides = FALSE /\ asset = FALSE /\ outline = <<>>
    /\ copies = 1 /\ processed = "no"
    /\ runner = [w \in Workers |-> Idle]
    /\ operator = [at |-> "away", left |-> MaxDecisions]
    /\ failures = 0

Running == parent.status = "RUNNING"
Terminal == parent.status \in {"SUCCEEDED", "FAILED", "CANCELLED"}

Fault == failures < MaxFaults /\ failures' = failures + 1
At(w, stage) == runner[w].at = stage
Go(w, stage) == runner' = [runner EXCEPT ![w].at = stage]
GoSeeing(w, stage, n) == runner' = [runner EXCEPT ![w].at = stage, ![w].seen = n]

\* In the stages from the lookup to the artifact, an error fails the deck.
FaultTo(w, stage) == Fault /\ Go(w, stage)

Released == [parent EXCEPT !.points = IF @ = "reserved" THEN "released" ELSE @]

-----------------------------------------------------------------------------
(* The message.                                                               *)

\* Mutant: what another delivery has claimed is a duplicate.
DuplicateOnceClaimed == processed # "no"

\* A row that is claimed and not processed was left by a worker that died.
Duplicate == processed = "yes"

\* The claim and the look at the task are one transaction.  Without a lease a
\* redelivery is not skipped, whatever its generation.
Receive(w) ==
    /\ At(w, "idle") /\ copies > 0 /\ copies' = copies - 1
    /\ IF Duplicate THEN UNCHANGED <<processed, runner>>
       ELSE IF Running
       THEN /\ processed' = "claimed"
            /\ runner' = [runner EXCEPT ![w] = [at |-> "load", mine |-> TRUE, seen |-> 0]]
       ELSE processed' = "yes" /\ UNCHANGED runner
    /\ UNCHANGED <<deckRows, operator, failures>>

Return(w) == runner' = [runner EXCEPT ![w] = Idle]

\* The retry copy is published on a channel of its own.
Retry(w) == copies' = copies + 1 /\ Return(w) /\ UNCHANGED processed

Processed(w) == processed' = "yes" /\ Return(w) /\ UNCHANGED copies

Finish(w) ==
    /\ At(w, "finish")
    /\ \/ Processed(w) /\ UNCHANGED failures
       \/ Fault /\ Retry(w)
    /\ UNCHANGED <<deckRows, operator>>

\* completePPTCanaryInboxIfTerminal, after any error.
Check(w) ==
    /\ At(w, "check")
    /\ \/ Running /\ Retry(w) /\ UNCHANGED failures
       \/ ~Running /\ Processed(w) /\ UNCHANGED failures
       \/ Fault /\ Retry(w)
    /\ UNCHANGED <<deckRows, operator>>

-----------------------------------------------------------------------------
(* runPPTGenerationStages.                                                    *)

Load(w) ==
    /\ At(w, "load")
    /\ \/ Go(w, IF Running THEN "look" ELSE "finish") /\ UNCHANGED failures
       \/ FaultTo(w, "check")
    /\ UNCHANGED <<deckRows, message, operator>>

\* A file that cannot be read is made again; so is one that could not be looked up.
Look(w) ==
    /\ At(w, "look")
    /\ \/ Go(w, IF asset THEN "settle" ELSE "outline") /\ UNCHANGED failures
       \/ FaultTo(w, "outline")
       \/ asset /\ FaultTo(w, "fail")
    /\ UNCHANGED <<deckRows, message, operator>>

\* runPPTOutlineStage looks for the slides before it looks for the execution.
Outline(w) ==
    /\ At(w, "outline")
    /\ \/ Go(w, IF slides THEN "slides" ELSE "guard") /\ UNCHANGED failures
       \/ FaultTo(w, "fail")
    /\ UNCHANGED <<deckRows, message, operator>>

Latest == IF outline = <<>> THEN "none" ELSE outline[Len(outline)]

Answered == Latest = "succeeded"
Ambiguous == Latest \in {"submitting", "unknown"}

\* runPPTChatStageGuarded up to its decision.  What failed was refused, or its
\* answer was of no use; what is prepared may be another delivery's that is about to
\* ask, and its number was taken if not.
Guard(w) ==
    /\ At(w, "guard")
    /\ \/ /\ Answered /\ Go(w, IF slides THEN "slides" ELSE "fail")
          /\ UNCHANGED <<outline, failures>>
       \/ /\ Ambiguous /\ Go(w, "fail")
          /\ outline' = [outline EXCEPT ![Len(outline)] = "unknown"]
          /\ UNCHANGED failures
       \/ /\ ~Answered /\ ~Ambiguous /\ GoSeeing(w, "prepare", Len(outline) + 1)
          /\ UNCHANGED <<outline, failures>>
       \/ FaultTo(w, "fail") /\ UNCHANGED outline
    /\ UNCHANGED <<parent, slides, asset, message, operator>>

\* The unique indexes: one row for an attempt, one active row for a key.
Creatable(n) ==
    /\ n = Len(outline) + 1
    /\ \A i \in 1 .. Len(outline) : outline[i] \in {"succeeded", "failed"}

\* CreatePrepared.  It looks at no task: a cancelled deck still gets its outline.
Prepare(w) ==
    /\ At(w, "prepare")
    /\ \/ /\ Creatable(runner[w].seen) /\ Go(w, "claim")
          /\ outline' = Append(outline, "prepared")
          /\ UNCHANGED failures
       \/ ~Creatable(runner[w].seen) /\ Go(w, "fail") /\ UNCHANGED <<outline, failures>>
       \/ FaultTo(w, "fail") /\ UNCHANGED outline
    /\ UNCHANGED <<parent, slides, asset, message, operator>>

\* ClaimPrepared; the call follows at once.
Claim(w) ==
    /\ At(w, "claim")
    /\ \/ /\ outline' = [outline EXCEPT ![runner[w].seen] = "submitting"]
          /\ Go(w, "call") /\ UNCHANGED failures
       \/ FaultTo(w, "fail") /\ UNCHANGED outline
    /\ UNCHANGED <<parent, slides, asset, message, operator>>

\* executePPTChatCall.  A model that is busy or late is replaced by an outline made
\* here, so every end of the call is an answer or a refusal; with the time of the
\* deck over, neither can be recorded.
Call(w) ==
    /\ At(w, "call")
    /\ LET Recorded(status) == outline' = [outline EXCEPT ![runner[w].seen] = status]
       IN \/ Recorded("succeeded") /\ Go(w, "save") /\ UNCHANGED failures
          \/ Recorded("failed") /\ Go(w, "fail") /\ UNCHANGED failures
          \/ FaultTo(w, "fail") /\ (UNCHANGED outline \/ Recorded("succeeded"))
    /\ UNCHANGED <<parent, slides, asset, message, operator>>

\* SetOutlineSlides.
Save(w) ==
    /\ At(w, "save")
    /\ \/ slides' = TRUE /\ Go(w, "slides") /\ UNCHANGED failures
       \/ FaultTo(w, "fail") /\ UNCHANGED slides
    /\ UNCHANGED <<parent, asset, outline, message, operator>>

\* runPPTSlidePoolStage: pictures that are not wanted or given up are left out, any
\* other error fails the deck.
Slides(w) ==
    /\ At(w, "slides")
    /\ Go(w, "artifact") \/ Go(w, "fail")
    /\ UNCHANGED <<deckRows, message, operator, failures>>

\* runPPTArtifactStage and what follows it up to the settlement.
Artifact(w) ==
    /\ At(w, "artifact")
    /\ \/ asset' = TRUE /\ Go(w, "settle") /\ UNCHANGED failures
       \/ FaultTo(w, "fail") /\ asset' \in {asset, TRUE}
    /\ UNCHANGED <<parent, slides, outline, message, operator>>

-----------------------------------------------------------------------------
(* Settlement.                                                                *)

\* A generation that cannot be observed is 0, and nothing is compared with it.
Observe(w, stage) ==
    \/ GoSeeing(w, stage, parent.gen) /\ UNCHANGED failures
    \/ Fault /\ GoSeeing(w, stage, 0)

Fenced(w) == runner[w].seen \in {0, parent.gen}

\* settlePPTCanarySuccess reads the deck before it observes the generation.
Settle(w) ==
    /\ At(w, "settle")
    /\ Observe(w, "commit") \/ FaultTo(w, "check")
    /\ UNCHANGED <<deckRows, message, operator>>

\* CompleteGenerationTaskFenced: a task that is over is a success for the caller.
Commit(w) ==
    /\ At(w, "commit")
    /\ \/ /\ Fenced(w) /\ Terminal /\ Go(w, "announce")
          /\ UNCHANGED <<parent, failures>>
       \/ /\ Fenced(w) /\ ~Terminal /\ parent.points = "reserved" /\ Go(w, "announce")
          /\ parent' = [parent EXCEPT !.status = "SUCCEEDED", !.points = "captured"]
          /\ UNCHANGED failures
       \/ /\ Fenced(w) => ~Terminal /\ parent.points # "reserved"
          /\ Go(w, "check") /\ UNCHANGED <<parent, failures>>
       \/ FaultTo(w, "check") /\ UNCHANGED parent
    /\ UNCHANGED <<slides, asset, outline, message, operator>>

\* The deck is shown as done, in a transaction of its own.
Announce(w) ==
    /\ At(w, "announce")
    /\ \/ Go(w, "finish") /\ UNCHANGED failures
       \/ FaultTo(w, "check")
    /\ UNCHANGED <<deckRows, message, operator>>

\* failPPTCanaryTask.
Fail(w) ==
    /\ At(w, "fail")
    /\ Observe(w, "release")
    /\ UNCHANGED <<deckRows, message, operator>>

\* The durable failure finds no execution under the task's key.  Whether or not the
\* deck is then shown as failed, the error goes on to the caller.
Release(w) ==
    /\ At(w, "release")
    /\ \/ ~Fenced(w) /\ Go(w, "check") /\ UNCHANGED <<parent, failures>>
       \/ /\ Fenced(w) /\ Go(w, "check")
          /\ parent' = IF Terminal THEN parent ELSE [Released EXCEPT !.status = "FAILED"]
          /\ UNCHANGED failures
       \/ FaultTo(w, "check") /\ UNCHANGED parent
    /\ UNCHANGED <<slides, asset, outline, message, operator>>

-----------------------------------------------------------------------------
(* Everybody else.                                                            *)

\* The channel is lost, and the worker goes on.
LoseChannel(w) ==
    /\ runner[w].mine /\ Fault
    /\ copies' = copies + 1
    /\ runner' = [runner EXCEPT ![w].mine = FALSE]
    /\ UNCHANGED <<deckRows, processed, operator>>

Crash(w) ==
    /\ ~At(w, "idle") /\ Fault
    /\ copies' = copies + (IF runner[w].mine THEN 1 ELSE 0)
    /\ Return(w)
    /\ UNCHANGED <<deckRows, processed, operator>>

\* CancelGenerationTaskForUser looks for an execution under the task's key, too,
\* and cancelGenerationTask leaves the worker's context alone.
Cancel ==
    /\ Running
    /\ parent' = [Released EXCEPT !.status = "CANCELLED", !.gen = @ + 1]
    /\ UNCHANGED <<slides, asset, outline, message, runner, operator, failures>>

\* repairStaleGenerationTasks, 15 minutes after the last change of the task; a deck
\* may take 30.
Reap ==
    /\ Running
    /\ parent' = [Released EXCEPT !.status = "FAILED"]
    /\ UNCHANGED <<slides, asset, outline, message, runner, operator, failures>>

\* The recovery API: what is allowed is read first.
Diagnose ==
    /\ operator.at = "away" /\ operator.left > 0
    /\ parent.status \in {"RUNNING", "MANUAL_REVIEW"}
    /\ \E action \in {"review"} \cup (IF parent.points = "reserved" THEN {"release"} ELSE {}) :
          operator' = [at |-> action, left |-> operator.left - 1]
    /\ UNCHANGED <<deckRows, message, runner, failures>>

\* markGenerationManualReview overwrites whatever status the task has by then.
Review ==
    /\ operator.at = "review"
    /\ parent' = [parent EXCEPT !.status = "MANUAL_REVIEW"]
    /\ operator' = [operator EXCEPT !.at = "away"]
    /\ UNCHANGED <<slides, asset, outline, message, runner, failures>>

\* resolveGenerationRelease; its observation counts as part of its transaction.
ResolveRelease ==
    /\ operator.at = "release"
    /\ parent' = IF Terminal THEN parent ELSE [Released EXCEPT !.status = "FAILED"]
    /\ operator' = [operator EXCEPT !.at = "away"]
    /\ UNCHANGED <<slides, asset, outline, message, runner, failures>>

-----------------------------------------------------------------------------
Work(w) ==
    \/ Receive(w) \/ Load(w) \/ Look(w) \/ Outline(w) \/ Guard(w) \/ Prepare(w)
    \/ Claim(w) \/ Call(w) \/ Save(w) \/ Slides(w) \/ Artifact(w) \/ Settle(w)
    \/ Commit(w) \/ Announce(w) \/ Fail(w) \/ Release(w) \/ Check(w) \/ Finish(w)

Next == \/ \E w \in Workers : Work(w) \/ LoseChannel(w) \/ Crash(w)
        \/ Cancel \/ Reap
        \/ Diagnose \/ Review \/ ResolveRelease

\* Workers go on, and take what is in the queue.
Fairness == \A w \in Workers : WF_vars(Work(w))

Spec == Init /\ [][Next]_vars /\ Fairness

-----------------------------------------------------------------------------
(* The promise.                                                               *)

\* Redelivery is enough to end a deck, paid for with its file stored ("durable BEFORE
\* Capture", runPPTArtifactStage) or given back: the watchdog never has to step in,
\* whichever step failed and whoever died.
DeckConcluded ==
    <>(\/ parent.points = "captured" /\ asset
       \/ parent.points = "released"
       \/ parent.status = "MANUAL_REVIEW")

=============================================================================
