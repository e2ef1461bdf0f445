---------------------------- MODULE ActionQueues ----------------------------
(* A player's queue of action flags (Misc/ActionQueues.cpp): a ring that one *)
(* thread writes and another reads, without a lock. The queues of zombies    *)
(* that cannot be controlled, which are never read, are left out, and so is  *)
(* peeking and modifying the flags at the head.                              *)
EXTENDS Naturals

CONSTANT QueueSize  \* ACTION_QUEUE_BUFFER_DIAMETER
ASSUME QueueAssumption == QueueSize \in Nat \ {0, 1}

NoFlags == <<0, 0>>
EmptyRing == [buffer |-> [i \in 0 .. QueueSize - 1 |-> NoFlags], read |-> 0, write |-> 0]

\* resetQueue
ResetQueue(q) == [q EXCEPT !.read = 0, !.write = 0]

CountActionFlags(q) == (QueueSize + q.write - q.read) % QueueSize

\* One place is always empty, or a full queue would look like an empty one.
\* (Mutant: it is given away.)
AvailableToTheLast(q) == QueueSize - CountActionFlags(q)
AvailableCapacity(q) == QueueSize - 1 - CountActionFlags(q)

\* enqueueActionFlags, which writes the flags before it moves the index.
Stored(q, flags) == [q EXCEPT !.buffer[q.write] = flags]
Enqueued(q) == [q EXCEPT !.write = (@ + 1) % QueueSize]

\* dequeueActionFlags, which reads the flags before it moves the index.
Front(q) == q.buffer[q.read]
Dequeued(q) == [q EXCEPT !.read = (@ + 1) % QueueSize]
=============================================================================
