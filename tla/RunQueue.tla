------------------------------ MODULE RunQueue ------------------------------
(***************************************************************************)
(* What a round-robin scheduler promises: threads wait in a line, and a    *)
(* turn goes to the first ready thread after the one that had the last     *)
(* turn, counting on from the front when the end of the line is reached.   *)
(* Scheduler.tla, with its linked list, is shown to implement this.        *)
(***************************************************************************)
EXTENDS Naturals, Sequences, Functions

CONSTANTS Threads, Nil

VARIABLES
    line,      \* the queued threads, front first
    ready,     \* the queued threads that can run
    turn       \* the thread that had the last turn, or Nil

At(t, l) == CHOOSE i \in DOMAIN l : l[i] = t

\* How many places after the last turn's thread (or after the place before
\* the front) thread t stands in l, going round.
Distance(t, last, l) ==
    LET from == IF last = Nil THEN 0 ELSE At(last, l)
    IN  (At(t, l) + Len(l) - from - 1) % Len(l)

RunQueueInit == line = << >> /\ ready = {} /\ turn = Nil

Join(t) ==
    /\ t \notin Range(line)
    /\ line' = Append(line, t)
    /\ ready' = ready \cup {t}
    /\ turn' = turn

Leave(t) ==
    /\ t \in Range(line)
    /\ LET i == At(t, line)
       IN  line' = SubSeq(line, 1, i - 1) \o SubSeq(line, i + 1, Len(line))
    /\ ready' = ready \ {t}
    /\ turn' = IF turn = t THEN Nil ELSE turn

Block(t) == t \in ready /\ ready' = ready \ {t} /\ UNCHANGED <<line, turn>>

Wake(t) == t \in Range(line) \ ready /\ ready' = ready \cup {t} /\ UNCHANGED <<line, turn>>

\* The nearest of the ready threads rs in the line l after the thread last.
Nearest(t, rs, last, l) ==
    t \in rs /\ \A u \in rs : Distance(t, last, l) <= Distance(u, last, l)

\* The turn passes to the nearest ready thread.
Turn ==
    /\ Nearest(turn', ready, turn, line)
    /\ UNCHANGED <<line, ready>>

RunQueueNext ==
    \/ Turn
    \/ \E t \in Threads : Join(t) \/ Leave(t) \/ Block(t) \/ Wake(t)

RunQueueSpec == RunQueueInit /\ [][RunQueueNext]_<<line, ready, turn>>
==============================================================================
