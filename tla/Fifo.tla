-------------------------------- MODULE Fifo --------------------------------
(***************************************************************************)
(* What a bounded queue promises: items come out once each, in the order   *)
(* they went in, none is overwritten, and an item that does not fit is not *)
(* taken.  Ipc (the message queue) and ByteBuffers are shown to implement it. *)
(***************************************************************************)
EXTENDS Naturals, Sequences

VARIABLES
    items,      \* what is queued, oldest first
    room,       \* how many items the queue can hold
    taken       \* the items the last take returned

FifoInit == items = << >> /\ room = 0 /\ taken = << >>

\* The queue is set up with room for n items.
Open(n) == items' = << >> /\ room' = n /\ taken' = taken

\* The items of s are put in, in order.
Put(s) ==
    /\ Len(items) + Len(s) <= room
    /\ items' = items \o s
    /\ UNCHANGED <<room, taken>>

\* The n oldest items are taken out and handed to the caller.
Take(n) ==
    /\ n <= Len(items)
    /\ items' = SubSeq(items, n + 1, Len(items))
    /\ taken' = SubSeq(items, 1, n)
    /\ room' = room

\* The queue is torn down; what it held is gone.
Close == items' = << >> /\ room' = 0 /\ taken' = taken

\* The items put are read off the next state.
FifoNext ==
    \/ Open(room')
    \/ Len(items') >= Len(items) /\ Put(SubSeq(items', Len(items) + 1, Len(items')))
    \/ Len(items') <= Len(items) /\ Take(Len(items) - Len(items'))
    \/ Close

FifoSpec == FifoInit /\ [][FifoNext]_<<items, room, taken>>
==============================================================================
