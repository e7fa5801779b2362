---------------------------- MODULE PointsLedger ----------------------------
(* What personal points promise, without lots: a point of an account is     *)
(* free, held for a job, spent by a job, or gone, and moves only by the     *)
(* steps below.                                                              *)
EXTENDS Integers

CONSTANTS Accounts, Jobs, NoAccount, Amounts
NoAccountAssumption == NoAccount \notin Accounts

VARIABLES free,     \* account -> points that may be held
          holder,   \* job -> account its points came from
          held,     \* job -> points set aside
          spent,    \* job -> points charged
          gone      \* account -> points lapsed, corrected away or moved out

vars == <<free, holder, held, spent, gone>>

Init == /\ free = [a \in Accounts |-> 0]
        /\ gone = [a \in Accounts |-> 0]
        /\ holder = [j \in Jobs |-> NoAccount]
        /\ held = [j \in Jobs |-> 0]
        /\ spent = [j \in Jobs |-> 0]

\* Any step may first lose free points that have lapsed.
Credit(a) == \E n \in Amounts, lapsed \in 0 .. free[a] :
    /\ free' = [free EXCEPT ![a] = @ - lapsed + n]
    /\ gone' = [gone EXCEPT ![a] = @ + lapsed]
    /\ UNCHANGED <<holder, held, spent>>

Lose(a) == \E n \in 1 .. free[a] :
    /\ free' = [free EXCEPT ![a] = @ - n]
    /\ gone' = [gone EXCEPT ![a] = @ + n]
    /\ UNCHANGED <<holder, held, spent>>

\* A job is given points once, from one account.
Hold(j, a) == /\ holder[j] = NoAccount
              /\ \E n \in 1 .. free[a] : \E lapsed \in 0 .. free[a] - n :
                    /\ free' = [free EXCEPT ![a] = @ - n - lapsed]
                    /\ gone' = [gone EXCEPT ![a] = @ + lapsed]
                    /\ held' = [held EXCEPT ![j] = n]
                    /\ holder' = [holder EXCEPT ![j] = a]
                    /\ UNCHANGED spent

Spend(j) == \E n \in 1 .. held[j] :
    /\ held' = [held EXCEPT ![j] = @ - n]
    /\ spent' = [spent EXCEPT ![j] = @ + n]
    /\ UNCHANGED <<free, holder, gone>>

\* Points come back to the account they were taken from, except those that
\* lapse on the way, which may take lapsed free points of the account along.
GiveBack(j) == LET a == holder[j] IN
    \E n \in 1 .. held[j] : \E lapsed \in 0 .. free[a] + n :
        /\ held' = [held EXCEPT ![j] = @ - n]
        /\ free' = [free EXCEPT ![a] = @ + n - lapsed]
        /\ gone' = [gone EXCEPT ![a] = @ + lapsed]
        /\ UNCHANGED <<holder, spent>>

\* Everything that has not lapsed moves; nothing of either account is held.
Move(from, to) ==
    /\ from # to
    /\ \A j \in Jobs : holder[j] \in {from, to} => held[j] = 0
    /\ \E lapsed \in 0 .. free[from], other \in 0 .. free[to] :
          /\ free' = [free EXCEPT ![from] = 0,
                                  ![to] = @ - other + free[from] - lapsed]
          /\ gone' = [gone EXCEPT ![from] = @ + free[from], ![to] = @ + other]
          /\ UNCHANGED <<holder, held, spent>>

Next == \/ \E a \in Accounts : Credit(a) \/ Lose(a)
        \/ \E j \in Jobs, a \in Accounts : Hold(j, a)
        \/ \E j \in Jobs : Spend(j) \/ GiveBack(j)
        \/ \E a, b \in Accounts : Move(a, b)

Spec == Init /\ [][Next]_vars

=============================================================================
