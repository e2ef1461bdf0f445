-------------------------------- MODULE Fifo --------------------------------
(* What a queue promises to the two it lies between: of the values that were *)
(* put into it since it was last started, each is taken once and in order,   *)
(* and all of them unless it is stopped. A CommunicationsChannel is such a   *)
(* queue between two programs, an ActionQueue one between two threads.       *)
EXTENDS Sequences, Naturals

CONSTANT Value

VARIABLES
  given,      \* what was put into the queue since it was started
  taken,      \* what was taken from it since then
  stopped

fifoVars == <<given, taken, stopped>>

Init == given = <<>> /\ taken = <<>> /\ stopped = TRUE

Give(v) == given' = Append(given, v) /\ UNCHANGED <<taken, stopped>>

Take ==
  /\ Len(taken) < Len(given)
  /\ taken' = Append(taken, given[Len(taken) + 1])
  /\ UNCHANGED <<given, stopped>>

Stop == stopped' = TRUE /\ UNCHANGED <<given, taken>>

Start == given' = <<>> /\ taken' = <<>> /\ stopped' \in BOOLEAN

Next == (\E v \in Value : Give(v)) \/ Take \/ Stop \/ Start

Order == Init /\ [][Next]_fifoVars

Spec == Order /\ WF_fifoVars(~stopped /\ Take)
=============================================================================
