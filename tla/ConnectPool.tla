---------------------------- MODULE ConnectPool -----------------------------
(* The pool of outbound connections (Network/ConnectPool.cpp): each is tried *)
(* by a thread of its own, which tells the others how it went through        *)
(* m_status and m_channel, without a lock. Whoever asked for a try polls its *)
(* status and then abandons it; the pool frees an abandoned try later, once  *)
(* its thread has set the status.                                            *)
(*                                                                           *)
(* A thread's stores are seen by others in their order, as they are on x86.  *)
(* That SDL cannot create a thread is left out.                              *)
EXTENDS Naturals, FiniteSetsExt

CONSTANTS
  PoolSize,         \* kPoolSize
  Address,
  Name,             \* what a player may type
  AddressOf         \* what a name resolves to, or Nowhere

Nowhere == "nowhere"
Slot == 1 .. PoolSize
NoSlot == 0

ASSUME PoolAssumption ==
  /\ PoolSize \in Nat \ {0}
  /\ AddressOf \in [Name -> Address \cup {Nowhere}]

VARIABLES
  pool,             \* m_pool
  networkInterface, \* there is one: NetGetNetworkInterface()
  listening         \* where somebody accepts connections

NoTry == [name |-> "none", ip |-> Nowhere, status |-> "Connecting", channel |-> FALSE,
          thread |-> "none"]
TryName(n) == [NoTry EXCEPT !.name = n, !.thread = "resolving"]
TryAddress(ip) == [NoTry EXCEPT !.ip = ip, !.thread = "connecting"]

\* A slot is free when nobody uses its try any more, if it has one.
EmptyPool == [s \in Slot |-> [try |-> NoTry, free |-> TRUE]]

----------------------------------------------------------------------------
(* What the pool's users call.                                              *)

Done(try) == try.status # "Connecting"

\* fast_free
Freed(p) ==
  [s \in Slot |-> IF p[s].free /\ Done(p[s].try) THEN [try |-> NoTry, free |-> TRUE] ELSE p[s]]

\* connect: the pool then, and the slot of the try, if there was one left.
Connecting(p, try) ==
  LET freed  == Freed(p)
      usable == {s \in Slot : freed[s].free /\ freed[s].try = NoTry}
  IN IF usable = {} THEN [pool |-> freed, slot |-> NoSlot]
     ELSE [pool |-> [freed EXCEPT ![Min(usable)] = [try |-> try, free |-> FALSE]],
           slot |-> Min(usable)]

Abandoned(p, slot) ==
  IF slot = NoSlot THEN p ELSE [p EXCEPT ![slot].free = TRUE]

----------------------------------------------------------------------------
(* NonblockingConnect::Thread                                               *)

\* A name that does not resolve ends the thread and leaves the status alone.
Resolved(try) ==
  IF AddressOf[try.name] = Nowhere THEN [try EXCEPT !.thread = "ended"]
  ELSE [try EXCEPT !.ip = AddressOf[try.name], !.thread = "connecting"]

\* m_channel is moved to before m_status is set. (Mutant: after it.)
GotThroughStatusFirst(try) == [try EXCEPT !.status = "Connected", !.thread = "publishing"]
GotThrough(try) == [try EXCEPT !.channel = TRUE, !.thread = "publishing"]
Published(try) == [try EXCEPT !.channel = TRUE, !.status = "Connected", !.thread = "ended"]
Refused(try) == [try EXCEPT !.status = "ConnectFailed", !.thread = "ended"]

Step(s, from, to) ==
  /\ pool[s].try.thread = from
  /\ pool' = [pool EXCEPT ![s].try = to]

ThreadStep(s) ==
  LET try == pool[s].try
  IN /\ \/ networkInterface /\ Step(s, "resolving", Resolved(try))
        \/ /\ networkInterface
           /\ Step(s, "connecting", IF try.ip \in listening THEN GotThrough(try) ELSE Refused(try))
        \/ Step(s, "publishing", Published(try))
     /\ UNCHANGED <<networkInterface, listening>>

\* A thread that uses the interface after NetExit has reset it.
UsesInterface(s) == pool[s].try.thread \in {"resolving", "connecting"}
=============================================================================
