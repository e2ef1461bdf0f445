----------------------------- MODULE TickQueue -----------------------------
(* The index arithmetic of a ConcreteTickBasedCircularQueue                 *)
(* (GameWorld/TickBasedCircularQueue.h) for code that runs under one lock:  *)
(* a queue is the half-open window of game ticks it holds, first tick r     *)
(* (mReadTick), first free tick w (mWriteTick). Elements are kept by the    *)
(* modules that use the queue, as functions of the tick. How the elements   *)
(* lie in the circular buffer, with a reader and a writer in two threads,   *)
(* is the subject of module CircularTickBuffer.                             *)
EXTENDS Integers

Queue == [r : Int, w : Int]

\* reset
EmptyAt(tick) == [r |-> tick, w |-> tick]

\* size
Size(q) == q.w - q.r

\* The ticks that peek and operator[] accept: elementForTick asserts both
\* bounds.
Held(q) == q.r .. (q.w - 1)

\* n calls of enqueue
Grow(q, n) == [r |-> q.r, w |-> q.w + n]

\* n calls of dequeue
Drop(q, n) == [r |-> q.r + n, w |-> q.w]

Least(a, b) == IF a < b THEN a ELSE b
Greatest(a, b) == IF a < b THEN b ELSE a
=============================================================================
