----------------------------- MODULE DigestLedger -----------------------------
(***************************************************************************)
(* What the e-mail side of the notifications promises, without polls, jobs,*)
(* retries and locks: a notification waits for a digest until it is        *)
(* settled, once and for good.  One sender at a time takes some of the     *)
(* notifications that wait and mails nothing but what it took; it gives    *)
(* them back by failing, or settles all it took.                           *)
(***************************************************************************)
CONSTANT Notifications

VARIABLES
    waiting,  \* recorded, and to be carried by a digest
    settled,  \* recorded, and not to be mailed any more
    taken,    \* what the sender at work has taken
    mailed    \* recorded, and part of some digest that went out

ledger == <<waiting, settled, taken, mailed>>

Init == waiting = {} /\ settled = {} /\ taken = {} /\ mailed = {}

Record(n) ==
    /\ n \notin waiting \cup settled
    /\ waiting' = waiting \cup {n}
    /\ UNCHANGED <<settled, taken, mailed>>

\* Read in the application, no longer wanted, or the digests were turned off.
Settle(S) ==
    /\ S # {} /\ S \subseteq waiting
    /\ waiting' = waiting \ S
    /\ settled' = settled \cup S
    /\ UNCHANGED <<taken, mailed>>

Take(S) ==
    /\ taken = {}
    /\ S # {} /\ S \subseteq waiting
    /\ taken' = S
    /\ UNCHANGED <<waiting, settled, mailed>>

Mail ==
    /\ taken # {}
    /\ mailed' = mailed \cup taken
    /\ UNCHANGED <<waiting, settled, taken>>

\* Only what was mailed may be settled by the sender.
Conclude ==
    /\ taken # {} /\ taken \subseteq mailed
    /\ waiting' = waiting \ taken
    /\ settled' = settled \cup taken
    /\ taken' = {}
    /\ UNCHANGED mailed

GiveBack ==
    /\ taken # {}
    /\ taken' = {}
    /\ UNCHANGED <<waiting, settled, mailed>>

\* The record of an old notification is pruned.
Forget(n) ==
    /\ n \in settled \ taken
    /\ settled' = settled \ {n}
    /\ mailed' = mailed \ {n}
    /\ UNCHANGED <<waiting, taken>>

Next ==
    \/ \E n \in Notifications : Record(n) \/ Forget(n)
    \/ \E S \in SUBSET Notifications : Settle(S) \/ Take(S)
    \/ Mail \/ Conclude \/ GiveBack

Spec == Init /\ [][Next]_ledger
===============================================================================
