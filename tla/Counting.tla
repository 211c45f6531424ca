------------------------------ MODULE Counting ------------------------------
(***************************************************************************)
(* What a counting semaphore with a limit promises: every call takes       *)
(* effect in one indivisible step between its start and its answer.        *)
(***************************************************************************)
EXTENDS Integers

CONSTANT Threads

VARIABLES
    value,      \* units available
    most,       \* units there may be
    answer      \* per thread: "none" during a call, else what it answered

CountingInit ==
    /\ most \in Nat \ {0} /\ value \in 0 .. most
    /\ answer = [t \in Threads |-> "none"]

Begin(t) == answer' = [answer EXCEPT ![t] = "none"] /\ UNCHANGED <<value, most>>

Take(t) ==
    /\ value > 0 /\ value' = value - 1
    /\ answer' = [answer EXCEPT ![t] = "taken"]
    /\ most' = most

Refuse(t) ==
    /\ value = 0
    /\ answer' = [answer EXCEPT ![t] = "empty"]
    /\ UNCHANGED <<value, most>>

Give(t) ==
    /\ value < most /\ value' = value + 1
    /\ answer' = [answer EXCEPT ![t] = "given"]
    /\ most' = most

Overflow(t) ==
    /\ value = most
    /\ answer' = [answer EXCEPT ![t] = "full"]
    /\ UNCHANGED <<value, most>>

CountingNext ==
    \E t \in Threads : Begin(t) \/ Take(t) \/ Refuse(t) \/ Give(t) \/ Overflow(t)

CountingSpec == CountingInit /\ [][CountingNext]_<<value, most, answer>>
==============================================================================
