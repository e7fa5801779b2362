------------------------------ MODULE MCQueues ------------------------------
(* One instance for two workers that a queue feeds again and again: the jobs  *)
(* of the chat connectors, and the message of a deck.  They share no state,   *)
(* so a behaviour runs one of them.  It extends the connectors' queue, whose  *)
(* properties keep their names.                                               *)
EXTENDS ConnectorQueue, Sequences

CONSTANTS Workers, MaxDeckFaults, MaxDecisions

VARIABLES parent, slides, asset, outline, copies, processed, runner, operator, failures,
          running

deckVars == <<parent, slides, asset, outline, copies, processed, runner, operator, failures>>

Deck == INSTANCE DeckGeneration WITH MaxFaults <- MaxDeckFaults

ASSUME QueuesAssumption == QueueAssumption /\ Deck!DeckAssumption

MCInit == Init /\ Deck!Init /\ running \in {"connector", "deck"}

MCNext ==
    \/ running = "connector" /\ Next /\ UNCHANGED <<deckVars, running>>
    \/ running = "deck" /\ Deck!Next /\ UNCHANGED <<vars, running>>

MCSpec == /\ MCInit /\ [][MCNext]_<<vars, deckVars, running>>
          /\ \/ running = "connector" /\ Fairness
             \/ running = "deck" /\ Deck!Fairness

\* The promise of a deck, stated in DeckGeneration: redelivery ends it, paid for
\* with its file stored or given back.
DeckConcluded == running = "deck" => Deck!DeckConcluded
=============================================================================
