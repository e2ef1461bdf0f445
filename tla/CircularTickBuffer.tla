------------------------- MODULE CircularTickBuffer -------------------------
(* How a ConcreteTickBasedCircularQueue (GameWorld/TickBasedCircularQueue.h) *)
(* keeps the action flags of a window of ticks in a circular buffer, for one *)
(* thread that writes and one that reads without a lock. Each moves an index *)
(* of its own: w, the first free tick, and r, the first one in use. Ticks    *)
(* are below zero in the pregame.                                            *)
EXTENDS Integers

CONSTANT BufferCapacity      \* inBufferCapacity
ASSUME BufferAssumption == BufferCapacity \in Nat \ {0}

BufferSize == BufferCapacity + 1
Place == 0 .. BufferSize - 1
Garbage == <<"garbage", 0>>    \* flags are pairs here

\* C's remainder has the sign of the dividend.
Remainder(n) == IF n >= 0 THEN n % BufferSize ELSE -((-n) % BufferSize)

\* A tick that was below least is raised by the size of the buffer until it
\* no longer is.
Raised(tick, least) ==
  IF tick >= least THEN tick ELSE least + ((tick - least) % BufferSize)

PlaceToWrite(tick) == Remainder(Raised(tick, BufferSize))

\* elementForTick
PlaceToRead(tick) == Remainder(Raised(tick, 0))

BufferAt(tick) == [r |-> tick, w |-> tick, buffer |-> [i \in Place |-> Garbage]]

BufferTicks(q) == q.r .. (q.w - 1)
Room(q) == BufferCapacity - (q.w - q.r)

Peek(q, tick) ==
  IF PlaceToRead(tick) \in Place THEN q.buffer[PlaceToRead(tick)] ELSE Garbage

\* enqueue writes the flags before it moves the index.
Stored(q, flags) == [q EXCEPT !.buffer[PlaceToWrite(q.w)] = flags]
Advanced(q) == [q EXCEPT !.w = @ + 1]

DequeuedTo(q, tick) == [q EXCEPT !.r = tick]
=============================================================================
