--------------------------- MODULE SessionProofs ----------------------------
(* Proofs about the threads of one machine, a player's or a standalone hub:  *)
(* every step of GameSession and of StandaloneHub's main loop, and a player's *)
(* queue of action flags between the thread that handles a tick or a packet   *)
(* and the main thread, which takes flags from it without a lock.             *)
EXTENDS StandaloneHub, FiniteSetTheorems, SequenceTheorems, WellFoundedInduction,
        TLAPS

----------------------------------------------------------------------------
(* The tasks, the receiving thread, and the main thread that sets up and     *)
(* takes down what they use.                                                 *)

Threads == {"none", "sleeping", "due", "calling", "ended"}
TaskType == [Task -> [thread : Threads, keepRunning : BOOLEAN]]

TasksTyped ==
  /\ task \in TaskType
  /\ outstanding \subseteq Task
  /\ mutex \in {Nobody, "spoke", "hub", "receiver"}
  /\ alone \in BOOLEAN /\ isServer \in BOOLEAN /\ hubIsLocal \in BOOLEAN
  /\ spokeActive \in BOOLEAN
  /\ touches \subseteq {"socket", "hub", "spoke", "queues"}

Running(t) == task[t].thread \in {"sleeping", "due", "calling"}

\* Who runs is waited for; who calls, and only he, has the mutex; and nothing
\* is used by nobody.
CallersHoldTheMutex ==
  /\ \A t \in Task : Running(t) => t \in outstanding
  /\ \A t \in Task : mutex = t <=> task[t].thread = "calling"
  /\ mutex = "receiver" <=> receiver = "calling"
  /\ mutex = Nobody => touches = {} /\ stage = "none"
  /\ mutex = "hub" => Running("hub")

SpokeStages == {"playing", "taking", "join_spoke"}
HubStages == {"sync_spoke", "sync_active", "synced", "playing", "taking", "join_spoke",
              "clear_spoke", "wind_down", "join_hub"}
QueueStages == HubStages \cup {"sync_hub", "clear_hub", "delete"}

\* What is there at which stage of the main thread's life, and who may run.
StagesOfMain ==
  main # "crashed" =>
    /\ Running("spoke") => main \in SpokeStages /\ ~alone
    /\ Running("hub") => main \in HubStages /\ hubIsLocal /\ "hub" \in there
    /\ main = "join_spoke" => ~task["spoke"].keepRunning
    /\ main = "join_hub" => ~task["hub"].keepRunning
    /\ main \in {"out", "closed"} => receiver = "none"
    /\ spokeActive => main \in {"playing", "taking"} /\ ~alone
    /\ main \notin {"out", "closed"} => "socket" \in there
    /\ main \in SpokeStages \cup {"sync_active"} /\ ~alone => "spoke" \in there
    /\ main \in QueueStages => "queues" \in there
    /\ "spoke" \in touches \/ "queues" \in touches =>
         ~alone /\ (mutex = "spoke" \/ main \in {"playing", "taking"})
    /\ alone => main \notin {"join_spoke", "clear_spoke", "sync_spoke", "sync_active"}
    /\ main = "synced" => alone

ThereInv == TasksTyped /\ CallersHoldTheMutex /\ StagesOfMain /\ NothingGoneIsTouched

----------------------------------------------------------------------------
(* The pool and who uses it.                                                 *)

TryFields == [name : Name \cup {"none"}, ip : Address \cup {Nowhere},
              status : {"Connecting", "Connected", "ConnectFailed"}, channel : BOOLEAN,
              thread : {"none", "resolving", "connecting", "publishing", "ended"}]
TryType == {try \in TryFields : try.thread = "resolving" => try.name \in Name}
PoolType == [Slot -> [try : TryType, free : BOOLEAN]]
HostType == [specified : BOOLEAN, address : Address \cup {Nowhere}, resolving : BOOLEAN,
             byName : BOOLEAN, asked : SUBSET (Address \cup {Nowhere})]

PoolTyped ==
  /\ pool \in PoolType
  /\ server_nbc \in Slot \cup {NoSlot}
  /\ host \in HostType
  /\ sessions \in Nat
  /\ listening \subseteq Address

\* A try that is used has a thread and is the joiner's.
OneTry ==
  \A s \in Slot :
    /\ ~pool[s].free <=> s = server_nbc
    /\ ~pool[s].free => pool[s].try.thread # "none"
    /\ ~pool[s].free /\ pool[s].try.status = "Connected" => pool[s].try.channel

PoolInv == PoolTyped /\ OneTry

\* Tries nobody waits for any more whose threads have not come to an end.
Undone(try) == try # NoTry /\ ~Done(try)
LeftBehind == {s \in Slot : Undone(pool[s].try) /\ s # server_nbc}

\* A session leaves one behind at most.
FewLeftBehind ==
  /\ main = "out" => server_nbc = NoSlot
  /\ Cardinality(LeftBehind) <= sessions
  /\ main \notin {"out", "crashed"} => Cardinality(LeftBehind) + 1 <= sessions
  /\ sessions <= MaxSessions

\* The host that is tried, or will be, was asked for.
HostWasAskedFor ==
  main = "connecting" =>
    /\ host.specified =>
         IF host.byName /\ host.resolving THEN server_nbc # NoSlot
         ELSE host.address \in host.asked
    /\ host.byName => host.specified
    /\ server_nbc # NoSlot =>
         LET try == pool[server_nbc].try
         IN /\ try.thread = "resolving" =>
                 AddressOf[try.name] \in host.asked
            /\ try.thread \in {"connecting", "publishing"} \/ try.status # "Connecting" =>
                 try.ip \in host.asked

AskedInv == HostWasAskedFor /\ JoinsWhomItWasTold

TheTasks == Task = {"spoke", "hub"}

LEMMA ThereInit ==
  ASSUME Init, TheTasks
  PROVE ThereInv
BY DEF TheTasks, Init, ThereInv, TasksTyped, CallersHoldTheMutex, StagesOfMain,
       NothingGoneIsTouched, TasksInit, NoTask, TaskType, Threads, Running, Nobody, SpokeStages,
       HubStages, QueueStages, OfSpoke

\* What the invariant is about, but for where the main thread is.
thereVars == <<alone, taskVars, isServer, hubIsLocal, spokeActive, there, receiver, touches, stage>>

\* Where nothing runs that a game has set up.
LEMMA ThereStands ==
  ASSUME ThereInv, TheTasks, main # "crashed", UNCHANGED thereVars,
         \/ main' = main
         \/ main' = "crashed"
         \/ /\ main \notin SpokeStages \cup HubStages \cup {"out", "closed"}
            /\ main' \notin QueueStages \cup {"sync_active", "out", "closed"}
  PROVE ThereInv'
<1> USE DEF thereVars, taskVars, TheTasks, ThereInv, OfSpoke, Running
<1>1. TasksTyped' BY DEF TasksTyped
<1>2. CallersHoldTheMutex' BY DEF CallersHoldTheMutex
<1>3. NothingGoneIsTouched' BY DEF NothingGoneIsTouched
<1>4. StagesOfMain'
  <2>1. CASE main' = main BY <2>1 DEF StagesOfMain
  <2>2. CASE main' = "crashed" BY <2>2 DEF StagesOfMain
  <2>3. CASE /\ main \notin SpokeStages \cup HubStages \cup {"out", "closed"}
             /\ main' \notin QueueStages \cup {"sync_active", "out", "closed"}
    BY <2>3 DEF StagesOfMain, TasksTyped, CallersHoldTheMutex, SpokeStages, HubStages,
                QueueStages, Threads
  <2>4. QED BY <2>1, <2>2, <2>3
<1>5. QED BY <1>1, <1>2, <1>3, <1>4

\* What a step of a task's thread changes.
LEMMA ThreadGoes ==
  ASSUME task \in TaskType, NEW t \in Task, NEW from, NEW to \in Threads, GoesTo(t, from, to)
  PROVE  /\ task' \in TaskType
         /\ task[t].thread = from
         /\ task'[t].thread = to
         /\ task'[t].keepRunning <=> task[t].keepRunning
         /\ \A u \in Task : u # t => task'[u] = task[u]
BY DEF GoesTo, TaskType

LEMMA TaskIsSetUp ==
  ASSUME task \in TaskType, NEW t \in Task, SetUp(t)
  PROVE  /\ task' \in TaskType
         /\ task'[t].thread = "sleeping"
         /\ task'[t].keepRunning
         /\ \A u \in Task : u # t => task'[u] = task[u]
         /\ outstanding' = outstanding \cup {t}
BY DEF SetUp, TaskType, Threads

LEMMA TaskIsRemoved ==
  ASSUME task \in TaskType, NEW t \in Task, Remove(t)
  PROVE  /\ task' \in TaskType
         /\ task'[t].thread = task[t].thread
         /\ ~task'[t].keepRunning
         /\ \A u \in Task : u # t => task'[u] = task[u]
         /\ outstanding' = outstanding
BY DEF Remove, TaskType, Threads

LEMMA EndedTasksAreCleanedUp ==
  ASSUME task \in TaskType, CleanUp, NEW t \in outstanding, ~task[t].keepRunning, t \in Task
  PROVE  task[t].thread = "ended"
BY DEF CleanUp, HaveEnded

\* What the callbacks and their threads leave of the stages of the main thread.
LEMMA StagesStay ==
  ASSUME StagesOfMain, TheTasks,
         UNCHANGED <<main, alone, hubIsLocal, spokeActive, there>>,
         \A t \in Task : /\ Running(t)' => Running(t)
                         /\ task'[t].keepRunning <=> task[t].keepRunning,
         receiver = "none" => receiver' = "none",
         main # "crashed" /\ ("spoke" \in touches' \/ "queues" \in touches') =>
           ~alone /\ (mutex' = "spoke" \/ main \in {"playing", "taking"})
  PROVE StagesOfMain'
BY DEF StagesOfMain, TheTasks

LEMMA TaskWakes ==
  ASSUME ThereInv, TheTasks, NEW t \in Task, TaskWakesUp(t)
  PROVE  ThereInv'
<1> DEFINE to == IF task[t].keepRunning THEN "due" ELSE "ended"
<1>1. /\ task \in TaskType /\ GoesTo(t, "sleeping", to)
      /\ UNCHANGED <<outstanding, mutex, receiver, touches, stage, callRest>>
  BY DEF TaskWakesUp, WakesUp, ThereInv, TasksTyped
<1>2. to \in {"due", "ended"} OBVIOUS
<1> HIDE DEF to
<1>3. /\ task' \in TaskType
      /\ task[t].thread = "sleeping" /\ task'[t].thread \in {"due", "ended"}
      /\ task'[t].keepRunning <=> task[t].keepRunning
      /\ \A u \in Task : u # t => task'[u] = task[u]
  BY <1>1, <1>2, ThreadGoes DEF Threads
<1>4. \A u \in Task : /\ Running(u)' => Running(u)
                      /\ task'[u].thread = "calling" <=> task[u].thread = "calling"
                      /\ task'[u].keepRunning <=> task[u].keepRunning
  BY <1>3 DEF Running
<1>5. TasksTyped' BY <1>1, <1>3 DEF ThereInv, TasksTyped, callRest, boundVars
<1>6. CallersHoldTheMutex'
  BY <1>1, <1>4, <1>5 DEF ThereInv, CallersHoldTheMutex, TasksTyped, TheTasks, Running, TaskType, Nobody
<1>7. StagesOfMain'
  BY <1>1, <1>4, StagesStay DEF ThereInv, callRest, boundVars, StagesOfMain
<1>8. NothingGoneIsTouched' BY <1>1 DEF ThereInv, NothingGoneIsTouched, callRest
<1>9. QED BY <1>5, <1>6, <1>7, <1>8 DEF ThereInv

LEMMA TaskTicks ==
  ASSUME ThereInv, TheTasks, main # "crashed", NEW t \in Task, TickBegins(t)
  PROVE  ThereInv'
<1>1. /\ task \in TaskType /\ GoesTo(t, "due", "calling")
      /\ mutex = Nobody /\ mutex' = t
      /\ touches' = {"socket"} \cup (IF t = "hub" THEN {"hub"} ELSE OfSpoke)
      /\ UNCHANGED <<outstanding, receiver, callRest>>
  BY DEF TickBegins, Calls, Takes, ThereInv, TasksTyped
<1>2. /\ task' \in TaskType
      /\ task[t].thread = "due" /\ task'[t].thread = "calling"
      /\ task'[t].keepRunning <=> task[t].keepRunning
      /\ \A u \in Task : u # t => task'[u] = task[u]
  BY <1>1, ThreadGoes DEF Threads
<1>3. /\ Running(t)
      /\ \A u \in Task : /\ Running(u)' <=> Running(u)
                         /\ task'[u].thread = "calling" <=> u = t \/ task[u].thread = "calling"
                         /\ task'[u].keepRunning <=> task[u].keepRunning
  BY <1>2 DEF Running
<1>4. TasksTyped'
  BY <1>1, <1>2 DEF ThereInv, TasksTyped, callRest, boundVars, TheTasks, OfSpoke
<1>5. CallersHoldTheMutex'
  BY <1>1, <1>3, <1>4 DEF ThereInv, CallersHoldTheMutex, TheTasks, Nobody
<1>6. StagesOfMain'
  BY <1>1, <1>3, StagesStay
  DEF ThereInv, callRest, boundVars, StagesOfMain, TheTasks, SpokeStages, OfSpoke
<1>7. NothingGoneIsTouched'
  <2>1. CASE t = "hub"
    BY <2>1, <1>1, <1>3 DEF ThereInv, NothingGoneIsTouched, callRest, boundVars, StagesOfMain,
                            HubStages
  <2>2. CASE t = "spoke"
    BY <2>2, <1>1, <1>3 DEF ThereInv, NothingGoneIsTouched, callRest, boundVars, StagesOfMain,
                            SpokeStages, HubStages, QueueStages, OfSpoke
  <2>3. QED BY <2>1, <2>2 DEF TheTasks
<1>8. QED BY <1>4, <1>5, <1>6, <1>7 DEF ThereInv

LEMMA TaskReturns ==
  ASSUME ThereInv, TheTasks, Returns, UNCHANGED <<main, alone>>
  PROVE  ThereInv'
<1>1. CASE \E t \in Task : ReturnsFrom(t) /\ UNCHANGED receiver
  <2>1. PICK t \in Task : ReturnsFrom(t) /\ UNCHANGED receiver BY <1>1
  <2> DEFINE to == IF task[t].keepRunning THEN "sleeping" ELSE "ended"
  <2>2. /\ task \in TaskType /\ GoesTo(t, "calling", to)
        /\ mutex = t /\ mutex' = Nobody /\ UNCHANGED <<outstanding, receiver>>
    BY <2>1 DEF ReturnsFrom, Releases, ThereInv, TasksTyped
  <2>3. to \in {"sleeping", "ended"} OBVIOUS
  <2> HIDE DEF to
  <2>4. /\ task' \in TaskType
        /\ task[t].thread = "calling" /\ task'[t].thread \in {"sleeping", "ended"}
        /\ task'[t].keepRunning <=> task[t].keepRunning
        /\ \A u \in Task : u # t => task'[u] = task[u]
    BY <2>2, <2>3, ThreadGoes DEF Threads
  <2>5. \A u \in Task : /\ Running(u)' => Running(u)
                        /\ task'[u].thread = "calling" <=> u # t /\ task[u].thread = "calling"
                        /\ task'[u].keepRunning <=> task[u].keepRunning
    BY <2>4 DEF Running
  <2>6. /\ touches' = {} /\ stage' = "none"
        /\ UNCHANGED <<alone, isServer, hubIsLocal, spokeActive, there>>
    BY DEF Returns, callRest
  <2>7. TasksTyped' BY <2>2, <2>4, <2>6 DEF ThereInv, TasksTyped
  <2>8. CallersHoldTheMutex'
    BY <2>2, <2>5, <2>6, <2>7 DEF ThereInv, CallersHoldTheMutex, TheTasks, Nobody
  <2>9. StagesOfMain' BY <2>2, <2>5, <2>6, StagesStay DEF ThereInv
  <2>10. NothingGoneIsTouched' BY <2>2, <2>6 DEF NothingGoneIsTouched, Nobody
  <2>11. QED BY <2>7, <2>8, <2>9, <2>10 DEF ThereInv
<1>2. CASE Releases("receiver") /\ UNCHANGED <<task, outstanding>>
           /\ receiver' = IF keepListening THEN "listening" ELSE "ended"
  <2>1. /\ touches' = {} /\ stage' = "none"
        /\ UNCHANGED <<alone, isServer, hubIsLocal, spokeActive, there>>
    BY DEF Returns, callRest
  <2>2. /\ mutex = "receiver" /\ mutex' = Nobody /\ UNCHANGED <<task, outstanding>>
        /\ receiver' \in {"listening", "ended"}
    BY <1>2 DEF Releases
  <2>3. TasksTyped' BY <2>1, <2>2 DEF ThereInv, TasksTyped
  <2>4. CallersHoldTheMutex'
    BY <2>1, <2>2 DEF ThereInv, CallersHoldTheMutex, TheTasks, Nobody, Running
  <2>5. StagesOfMain'
    BY <2>1, <2>2, StagesStay DEF ThereInv, Running, CallersHoldTheMutex
  <2>6. NothingGoneIsTouched' BY <2>1, <2>2 DEF NothingGoneIsTouched, Nobody
  <2>7. QED BY <2>3, <2>4, <2>5, <2>6 DEF ThereInv
<1>3. QED BY <1>1, <1>2 DEF Returns

\* The callbacks, the receiving thread and the tasks.
LEMMA ThereCallbacks ==
  ASSUME ThereInv, TheTasks, main # "crashed",
         \/ PacketArrives \/ ReceiverEnds \/ PacketBegins
         \/ \E t \in Task : TaskWakesUp(t) \/ TickBegins(t)
         \/ Callback \/ HubCompletes
  PROVE ThereInv'
<1> USE DEF TheTasks, ThereInv, Threads, Running, Nobody, SpokeStages, HubStages,
            QueueStages, OfSpoke, callRest, boundVars, taskVars
<1>1. CASE PacketArrives
  <2> USE DEF PacketArrives
  <2>1. TasksTyped' BY <1>1 DEF TasksTyped
  <2>2. CallersHoldTheMutex' BY <1>1 DEF TasksTyped, CallersHoldTheMutex, StagesOfMain
  <2>3. StagesOfMain' BY <1>1 DEF TasksTyped, CallersHoldTheMutex, StagesOfMain
  <2>4. NothingGoneIsTouched'
    BY <1>1 DEF TasksTyped, CallersHoldTheMutex, StagesOfMain, NothingGoneIsTouched
  <2>5. QED BY <2>1, <2>2, <2>3, <2>4
<1>2. CASE ReceiverEnds
  <2> USE DEF ReceiverEnds
  <2>1. TasksTyped' BY <1>2 DEF TasksTyped
  <2>2. CallersHoldTheMutex' BY <1>2 DEF TasksTyped, CallersHoldTheMutex, StagesOfMain
  <2>3. StagesOfMain' BY <1>2 DEF TasksTyped, CallersHoldTheMutex, StagesOfMain
  <2>4. NothingGoneIsTouched'
    BY <1>2 DEF TasksTyped, CallersHoldTheMutex, StagesOfMain, NothingGoneIsTouched
  <2>5. QED BY <2>1, <2>2, <2>3, <2>4
<1>3. CASE PacketBegins
  <2> USE DEF PacketBegins, Takes
  <2>1. TasksTyped' BY <1>3 DEF TasksTyped
  <2>2. CallersHoldTheMutex' BY <1>3 DEF TasksTyped, CallersHoldTheMutex, StagesOfMain
  <2>3. StagesOfMain' BY <1>3 DEF TasksTyped, CallersHoldTheMutex, StagesOfMain
  <2>4. NothingGoneIsTouched'
    BY <1>3 DEF TasksTyped, CallersHoldTheMutex, StagesOfMain, NothingGoneIsTouched
  <2>5. QED BY <2>1, <2>2, <2>3, <2>4
<1>4. CASE \E t \in Task : TaskWakesUp(t) BY <1>4, TaskWakes
<1>5. CASE \E t \in Task : TickBegins(t) BY <1>5, TaskTicks
<1>6. CASE Deliver
  <2> USE DEF Deliver, SpokeReceives
  <2>1. TasksTyped' BY <1>6 DEF TasksTyped
  <2>2. CallersHoldTheMutex' BY <1>6 DEF TasksTyped, CallersHoldTheMutex, StagesOfMain
  <2>3. StagesOfMain' BY <1>6 DEF TasksTyped, CallersHoldTheMutex, StagesOfMain
  <2>4. NothingGoneIsTouched'
    BY <1>6 DEF TasksTyped, CallersHoldTheMutex, StagesOfMain, NothingGoneIsTouched
  <2>5. QED BY <2>1, <2>2, <2>3, <2>4
<1>7. CASE Store
  <2> USE DEF Store
  <2>1. TasksTyped' BY <1>7 DEF TasksTyped
  <2>2. CallersHoldTheMutex' BY <1>7 DEF TasksTyped, CallersHoldTheMutex, StagesOfMain
  <2>3. StagesOfMain' BY <1>7 DEF TasksTyped, CallersHoldTheMutex, StagesOfMain
  <2>4. NothingGoneIsTouched'
    BY <1>7 DEF TasksTyped, CallersHoldTheMutex, StagesOfMain, NothingGoneIsTouched
  <2>5. QED BY <2>1, <2>2, <2>3, <2>4
<1>8. CASE Finish BY <1>8, TaskReturns DEF Finish, Returns
<1>9. CASE GiveUpHub BY <1>9, TaskReturns DEF GiveUpHub, Returns
<1>10. CASE HubCompletes
  <2> USE DEF HubCompletes
  <2>1. TasksTyped' BY <1>10 DEF TasksTyped
  <2>2. CallersHoldTheMutex' BY <1>10 DEF TasksTyped, CallersHoldTheMutex, StagesOfMain
  <2>3. StagesOfMain' BY <1>10 DEF TasksTyped, CallersHoldTheMutex, StagesOfMain
  <2>4. NothingGoneIsTouched'
    BY <1>10 DEF TasksTyped, CallersHoldTheMutex, StagesOfMain, NothingGoneIsTouched
  <2>5. QED BY <2>1, <2>2, <2>3, <2>4
<1>11. QED BY <1>1, <1>2, <1>3, <1>4, <1>5, <1>6, <1>7, <1>8, <1>9, <1>10 DEF Callback

\* The main thread sets a game up and takes it down.
LEMMA ThereSync ==
  ASSUME ThereInv, TheTasks, main # "crashed", Sync
  PROVE ThereInv'
<1> USE DEF TheTasks, ThereInv, Threads, Running, Nobody, SpokeStages, HubStages,
            QueueStages, OfSpoke, callVars, boundVars, taskVars, gameRest, MainGoes
<1>1. CASE SyncQueues
  <2> USE DEF SyncQueues
  <2>1. TasksTyped' BY <1>1 DEF TasksTyped
  <2>2. CallersHoldTheMutex' BY <1>1 DEF TasksTyped, CallersHoldTheMutex, StagesOfMain
  <2>3. StagesOfMain' BY <1>1 DEF TasksTyped, CallersHoldTheMutex, StagesOfMain
  <2>4. NothingGoneIsTouched'
    BY <1>1 DEF TasksTyped, CallersHoldTheMutex, StagesOfMain, NothingGoneIsTouched
  <2>5. QED BY <2>1, <2>2, <2>3, <2>4
<1>2. CASE SyncHub
  <2> USE DEF SyncHub
  <2>1. CASE isServer
    <3>1. /\ task \in TaskType /\ SetUp("hub") /\ "hub" \in Task
      BY <1>2, <2>1 DEF TasksTyped
    <3>2. /\ task' \in TaskType /\ task'["hub"].thread = "sleeping"
          /\ task'["spoke"] = task["spoke"] /\ outstanding' = outstanding \cup {"hub"}
      BY <3>1, TaskIsSetUp
    <3>3. TasksTyped' BY <1>2, <2>1, <3>2 DEF TasksTyped
    <3>4. ~Running("hub") /\ ~Running("spoke") BY <1>2 DEF StagesOfMain
    <3>5. CallersHoldTheMutex' BY <1>2, <3>2, <3>3, <3>4 DEF TasksTyped, CallersHoldTheMutex
    <3>6. StagesOfMain' BY <1>2, <2>1, <3>2, <3>4 DEF TasksTyped, CallersHoldTheMutex, StagesOfMain
    <3>7. NothingGoneIsTouched' BY <1>2, <2>1 DEF NothingGoneIsTouched
    <3>8. QED BY <3>3, <3>5, <3>6, <3>7
  <2>2. CASE ~isServer
    <3>1. TasksTyped' BY <1>2, <2>2 DEF TasksTyped
    <3>2. CallersHoldTheMutex' BY <1>2, <2>2 DEF TasksTyped, CallersHoldTheMutex
    <3>3. StagesOfMain' BY <1>2, <2>2 DEF TasksTyped, CallersHoldTheMutex, StagesOfMain
    <3>4. NothingGoneIsTouched' BY <1>2, <2>2 DEF NothingGoneIsTouched
    <3>5. QED BY <3>1, <3>2, <3>3, <3>4
  <2>3. QED BY <2>1, <2>2
<1>3. CASE SyncSpoke
  <2> USE DEF SyncSpoke
  <2>1. TasksTyped' BY <1>3 DEF TasksTyped
  <2>2. CallersHoldTheMutex' BY <1>3 DEF TasksTyped, CallersHoldTheMutex, StagesOfMain
  <2>3. StagesOfMain' BY <1>3 DEF TasksTyped, CallersHoldTheMutex, StagesOfMain
  <2>4. NothingGoneIsTouched'
    BY <1>3 DEF TasksTyped, CallersHoldTheMutex, StagesOfMain, NothingGoneIsTouched
  <2>5. QED BY <2>1, <2>2, <2>3, <2>4
<1>4. CASE SyncActive
  <2> USE DEF SyncActive
  <2>1. /\ task \in TaskType /\ SetUp("spoke") /\ "spoke" \in Task
    BY <1>4 DEF TasksTyped
  <2>2. /\ task' \in TaskType /\ task'["spoke"].thread = "sleeping"
        /\ task'["hub"] = task["hub"] /\ outstanding' = outstanding \cup {"spoke"}
    BY <2>1, TaskIsSetUp
  <2>3. TasksTyped' BY <1>4, <2>2 DEF TasksTyped
  <2>4. ~Running("spoke") /\ ~alone BY <1>4 DEF StagesOfMain
  <2>5. CallersHoldTheMutex' BY <1>4, <2>2, <2>3, <2>4 DEF TasksTyped, CallersHoldTheMutex
  <2>6. StagesOfMain' BY <1>4, <2>2, <2>4 DEF TasksTyped, CallersHoldTheMutex, StagesOfMain
  <2>7. NothingGoneIsTouched' BY <1>4 DEF NothingGoneIsTouched
  <2>8. QED BY <2>3, <2>5, <2>6, <2>7
<1>5. QED BY <1>1, <1>2, <1>3, <1>4 DEF Sync

LEMMA ThereUnSync ==
  ASSUME ThereInv, TheTasks, main # "crashed", StopSpoke \/ UnSync
  PROVE ThereInv'
<1> USE DEF TheTasks, ThereInv, Threads, Running, Nobody, SpokeStages, HubStages,
            QueueStages, OfSpoke, callVars, boundVars, taskVars, endRest, MainGoes
<1>1. CASE StopSpoke
  <2>1. /\ task \in TaskType /\ Remove("spoke") /\ "spoke" \in Task
    BY <1>1 DEF StopSpoke, TasksTyped
  <2> USE DEF StopSpoke, LetGo
  <2>2. /\ task' \in TaskType /\ task'["spoke"].thread = task["spoke"].thread
        /\ ~task'["spoke"].keepRunning
        /\ task'["hub"] = task["hub"] /\ outstanding' = outstanding
    BY <2>1, TaskIsRemoved
  <2>3. TasksTyped' BY <1>1, <2>2 DEF TasksTyped
  <2>4. CallersHoldTheMutex' BY <1>1, <2>2, <2>3 DEF TasksTyped, CallersHoldTheMutex
  <2>5. StagesOfMain' BY <1>1, <2>2 DEF TasksTyped, CallersHoldTheMutex, StagesOfMain
  <2>6. NothingGoneIsTouched' BY <1>1 DEF NothingGoneIsTouched
  <2>7. QED BY <2>3, <2>4, <2>5, <2>6
<1>2. CASE JoinTask("join_spoke", "clear_spoke")
  <2> USE DEF JoinTask
  <2>1. main = "join_spoke" /\ main' = "clear_spoke" /\ CleanUp
        /\ UNCHANGED <<mutex, spokeActive, there, endRest, task>>
    BY <1>2 DEF CleanUp
  <2>2. ~Running("spoke")
    BY <2>1, EndedTasksAreCleanedUp DEF TasksTyped, CallersHoldTheMutex, StagesOfMain
  <2>3. outstanding' \subseteq Task
        /\ \A t \in Task : Running(t) /\ t \in outstanding => t \in outstanding'
    BY <2>1 DEF CleanUp, HaveEnded, TasksTyped
  <2>4. TasksTyped' BY <2>1, <2>3 DEF TasksTyped
  <2>5. CallersHoldTheMutex' BY <2>1, <2>3 DEF TasksTyped, CallersHoldTheMutex
  <2>6. StagesOfMain' BY <2>1, <2>2 DEF TasksTyped, CallersHoldTheMutex, StagesOfMain
  <2>7. NothingGoneIsTouched' BY <2>1 DEF NothingGoneIsTouched
  <2>8. QED BY <2>4, <2>5, <2>6, <2>7
<1>3. CASE Clear("clear_spoke", "spoke", IF hubIsLocal THEN "wind_down" ELSE "delete")
  <2> USE DEF Clear
  <2>1. TasksTyped' BY <1>3 DEF TasksTyped
  <2>2. CallersHoldTheMutex' BY <1>3 DEF TasksTyped, CallersHoldTheMutex, StagesOfMain
  <2>3. StagesOfMain' BY <1>3 DEF TasksTyped, CallersHoldTheMutex, StagesOfMain
  <2>4. NothingGoneIsTouched'
    BY <1>3 DEF TasksTyped, CallersHoldTheMutex, StagesOfMain, NothingGoneIsTouched
  <2>5. QED BY <2>1, <2>2, <2>3, <2>4
<1>4. CASE StopHub
  <2> USE DEF StopHub
  <2>1. /\ task \in TaskType /\ Remove("hub") /\ "hub" \in Task
    BY <1>4 DEF TasksTyped
  <2>2. /\ task' \in TaskType /\ task'["hub"].thread = task["hub"].thread
        /\ task'["hub"].keepRunning = FALSE
        /\ task'["spoke"] = task["spoke"] /\ outstanding' = outstanding
    BY <2>1, TaskIsRemoved
  <2>3. TasksTyped' BY <1>4, <2>2 DEF TasksTyped
  <2>4. CallersHoldTheMutex' BY <1>4, <2>2, <2>3 DEF TasksTyped, CallersHoldTheMutex
  <2>5. StagesOfMain' BY <1>4, <2>2 DEF TasksTyped, CallersHoldTheMutex, StagesOfMain
  <2>6. NothingGoneIsTouched' BY <1>4 DEF NothingGoneIsTouched
  <2>7. QED BY <2>3, <2>4, <2>5, <2>6
<1>5. CASE JoinTask("join_hub", "clear_hub")
  <2> USE DEF JoinTask
  <2>1. main = "join_hub" /\ main' = "clear_hub" /\ CleanUp
        /\ UNCHANGED <<mutex, spokeActive, there, endRest, task>>
    BY <1>5 DEF CleanUp
  <2>2. ~Running("hub")
    BY <2>1, EndedTasksAreCleanedUp DEF TasksTyped, CallersHoldTheMutex, StagesOfMain
  <2>3. outstanding' \subseteq Task
        /\ \A t \in Task : Running(t) /\ t \in outstanding => t \in outstanding'
    BY <2>1 DEF CleanUp, HaveEnded, TasksTyped
  <2>4. TasksTyped' BY <2>1, <2>3 DEF TasksTyped
  <2>5. CallersHoldTheMutex' BY <2>1, <2>3 DEF TasksTyped, CallersHoldTheMutex
  <2>6. StagesOfMain' BY <2>1, <2>2 DEF TasksTyped, CallersHoldTheMutex, StagesOfMain
  <2>7. NothingGoneIsTouched' BY <2>1 DEF NothingGoneIsTouched
  <2>8. QED BY <2>4, <2>5, <2>6, <2>7
<1>6. CASE Clear("clear_hub", "hub", "delete")
  <2> USE DEF Clear
  <2>1. TasksTyped' BY <1>6 DEF TasksTyped
  <2>2. CallersHoldTheMutex' BY <1>6 DEF TasksTyped, CallersHoldTheMutex, StagesOfMain
  <2>3. StagesOfMain' BY <1>6 DEF TasksTyped, CallersHoldTheMutex, StagesOfMain
  <2>4. NothingGoneIsTouched'
    BY <1>6 DEF TasksTyped, CallersHoldTheMutex, StagesOfMain, NothingGoneIsTouched
  <2>5. QED BY <2>1, <2>2, <2>3, <2>4
<1>7. CASE Clear("delete", "queues", "down")
  <2> USE DEF Clear
  <2>1. TasksTyped' BY <1>7 DEF TasksTyped
  <2>2. CallersHoldTheMutex' BY <1>7 DEF TasksTyped, CallersHoldTheMutex, StagesOfMain
  <2>3. StagesOfMain' BY <1>7 DEF TasksTyped, CallersHoldTheMutex, StagesOfMain
  <2>4. NothingGoneIsTouched'
    BY <1>7 DEF TasksTyped, CallersHoldTheMutex, StagesOfMain, NothingGoneIsTouched
  <2>5. QED BY <2>1, <2>2, <2>3, <2>4
<1>8. QED BY <1>1, <1>2, <1>3, <1>4, <1>5, <1>6, <1>7 DEF UnSync

\* Entering and leaving the network.
LEMMA ThereEnterExit ==
  ASSUME ThereInv, TheTasks, main # "crashed",
         \/ Gather \/ (\E n \in Name : JoinByName(n)) \/ JoinBySearch
         \/ StopListening \/ NetExit
  PROVE ThereInv'
<1> USE DEF TheTasks, ThereInv, Threads, Running, Nobody, SpokeStages, HubStages,
            QueueStages, OfSpoke, callVars, boundVars, taskVars, exitRest, MainGoes
<1>1. CASE Gather
  <2> USE DEF Gather, Enter
  <2>1. TasksTyped' BY <1>1 DEF TasksTyped
  <2>2. CallersHoldTheMutex' BY <1>1 DEF TasksTyped, CallersHoldTheMutex, StagesOfMain
  <2>3. StagesOfMain' BY <1>1 DEF TasksTyped, CallersHoldTheMutex, StagesOfMain
  <2>4. NothingGoneIsTouched'
    BY <1>1 DEF TasksTyped, CallersHoldTheMutex, StagesOfMain, NothingGoneIsTouched
  <2>5. QED BY <2>1, <2>2, <2>3, <2>4
<1>2. CASE \E n \in Name : JoinByName(n)
  <2> USE DEF JoinByName, Enter
  <2>1. TasksTyped' BY <1>2 DEF TasksTyped
  <2>2. CallersHoldTheMutex' BY <1>2 DEF TasksTyped, CallersHoldTheMutex, StagesOfMain
  <2>3. StagesOfMain' BY <1>2 DEF TasksTyped, CallersHoldTheMutex, StagesOfMain
  <2>4. NothingGoneIsTouched'
    BY <1>2 DEF TasksTyped, CallersHoldTheMutex, StagesOfMain, NothingGoneIsTouched
  <2>5. QED BY <2>1, <2>2, <2>3, <2>4
<1>3. CASE JoinBySearch
  <2> USE DEF JoinBySearch, Enter
  <2>1. TasksTyped' BY <1>3 DEF TasksTyped
  <2>2. CallersHoldTheMutex' BY <1>3 DEF TasksTyped, CallersHoldTheMutex, StagesOfMain
  <2>3. StagesOfMain' BY <1>3 DEF TasksTyped, CallersHoldTheMutex, StagesOfMain
  <2>4. NothingGoneIsTouched'
    BY <1>3 DEF TasksTyped, CallersHoldTheMutex, StagesOfMain, NothingGoneIsTouched
  <2>5. QED BY <2>1, <2>2, <2>3, <2>4
<1>4. CASE StopListening
  <2> USE DEF StopListening, CleanUp, HaveEnded
  <2>1. TasksTyped' BY <1>4 DEF TasksTyped
  <2>2. CallersHoldTheMutex' BY <1>4 DEF TasksTyped, CallersHoldTheMutex, StagesOfMain
  <2>3. StagesOfMain' BY <1>4 DEF TasksTyped, CallersHoldTheMutex, StagesOfMain
  <2>4. NothingGoneIsTouched'
    BY <1>4 DEF TasksTyped, CallersHoldTheMutex, StagesOfMain, NothingGoneIsTouched
  <2>5. QED BY <2>1, <2>2, <2>3, <2>4
<1>5. CASE CloseSocket
  <2> USE DEF CloseSocket
  <2>1. TasksTyped' BY <1>5 DEF TasksTyped
  <2>2. CallersHoldTheMutex' BY <1>5 DEF TasksTyped, CallersHoldTheMutex, StagesOfMain
  <2>3. StagesOfMain' BY <1>5 DEF TasksTyped, CallersHoldTheMutex, StagesOfMain
  <2>4. NothingGoneIsTouched'
    BY <1>5 DEF TasksTyped, CallersHoldTheMutex, StagesOfMain, NothingGoneIsTouched
  <2>5. QED BY <2>1, <2>2, <2>3, <2>4
<1>6. CASE ResetInterface
  <2> USE DEF ResetInterface
  <2>1. TasksTyped' BY <1>6 DEF TasksTyped
  <2>2. CallersHoldTheMutex' BY <1>6 DEF TasksTyped, CallersHoldTheMutex, StagesOfMain
  <2>3. StagesOfMain' BY <1>6 DEF TasksTyped, CallersHoldTheMutex, StagesOfMain
  <2>4. NothingGoneIsTouched'
    BY <1>6 DEF TasksTyped, CallersHoldTheMutex, StagesOfMain, NothingGoneIsTouched
  <2>5. QED BY <2>1, <2>2, <2>3, <2>4
<1>7. QED BY <1>1, <1>2, <1>3, <1>4, <1>5, <1>6 DEF NetExit

\* Where NetUpdateJoinState, the dialogs and a standalone hub's main loop are.
LEMMA ThereWaits ==
  ASSUME ThereInv, TheTasks, main # "crashed",
         \/ Retarget \/ NetUpdateJoinState \/ ListeningChanges \/ Gathered
         \/ ReadFlags \/ TakeFlags \/ Crash
         \/ \E s \in Slot : PoolThread(s)
         \/ MainLoop \/ Gatherer
         \/ UNCHANGED vars
  PROVE ThereInv'
<1> USE DEF sessionRest, joinRest, playRest, callVars, boundVars, taskVars, switchVars, MainGoes,
            thereVars
<1>1. CASE Retarget BY <1>1, ThereStands DEF Retarget
<1>2. CASE TryHost BY <1>2, ThereStands DEF TryHost
<1>3. CASE HostConnected
  BY <1>3, ThereStands DEF HostConnected, SpokeStages, HubStages, QueueStages
<1>4. CASE HostRefused BY <1>4, ThereStands DEF HostRefused
<1>5. CASE ListeningChanges BY <1>5, ThereStands DEF ListeningChanges
<1>6. CASE Gathered BY <1>6, ThereStands DEF Gathered, SpokeStages, HubStages, QueueStages
<1>7. CASE Crash BY <1>7, ThereStands DEF Crash
<1>8. CASE \E s \in Slot : PoolThread(s) BY <1>8, ThereStands DEF PoolThread
<1>9. CASE UNCHANGED vars BY <1>9, ThereStands DEF vars
<1>10. CASE \/ WaitForGatherer \/ GetGameDataFromGatherer \/ GivesUp \/ SetupGathererGame
            \/ GatherJoiners \/ NetChangeMap \/ NetProcessMessagesInGame \/ Reset \/ Gatherer
  <2> USE DEF SpokeStages, HubStages, QueueStages
  <2>1. UNCHANGED thereVars
    BY <1>10 DEF WaitForGatherer, GetGameDataFromGatherer, GivesUp, SetupGathererGame,
         GatherJoiners, NetChangeMap, NetProcessMessagesInGame, Reset, Gatherer, Asks, Sends,
         SendsGame, StartsGame, EndsGame, ChangesLevel, GoesAway, gathererRest
  <2>2. \/ main' = main
        \/ /\ main \in {"waiting", "fetching", "setup", "gathering", "changing", "reset"}
           /\ main' \in {"fetching", "setup", "gathering", "changing", "ready", "reset", "dropped"}
    BY <1>10 DEF WaitForGatherer, GetGameDataFromGatherer, GivesUp, SetupGathererGame,
         GatherJoiners, NetChangeMap, NetProcessMessagesInGame, Reset, Gatherer, Asks, Sends,
         SendsGame, StartsGame, EndsGame, ChangesLevel, GoesAway, gathererRest
  <2>3. QED BY <2>1, <2>2, ThereStands
<1>11. CASE ReadFlags \/ TakeFlags \/ HubGoesOn \/ GameIsOver \/ NextGame
  <2>1. UNCHANGED thereVars
    BY <1>11 DEF ReadFlags, TakeFlags, HubGoesOn, GameIsOver, NextGame
  <2>2. \/ main = "playing" /\ main' = "taking"
        \/ main = "taking" /\ main' = "playing"
        \/ main = "synced" /\ main' = "playing"
        \/ alone /\ main = "playing" /\ main' = "wind_down"
        \/ main = "down" /\ main' = "fetching"
    BY <1>11 DEF ReadFlags, TakeFlags, HubGoesOn, GameIsOver, NextGame
  <2> USE DEF ThereInv, Running, OfSpoke
  <2>3. TasksTyped' BY <2>1 DEF TasksTyped
  <2>4. CallersHoldTheMutex' BY <2>1 DEF CallersHoldTheMutex
  <2>5. NothingGoneIsTouched' BY <2>1 DEF NothingGoneIsTouched
  <2>6. StagesOfMain'
    <3> USE DEF StagesOfMain, SpokeStages, HubStages, QueueStages
    <3>1. CASE main = "playing" /\ main' = "taking" BY <2>1, <3>1
    <3>2. CASE main = "taking" /\ main' = "playing" BY <2>1, <3>2
    <3>3. CASE main = "synced" /\ main' = "playing" BY <2>1, <3>3
    <3>4. CASE alone /\ main = "playing" /\ main' = "wind_down" BY <2>1, <3>4
    <3>5. CASE main = "down" /\ main' = "fetching"
      BY <2>1, <3>5 DEF CallersHoldTheMutex, TheTasks
    <3>6. QED BY <2>2, <3>1, <3>2, <3>3, <3>4, <3>5
  <2>7. QED BY <2>3, <2>4, <2>5, <2>6
<1>12. QED
  BY <1>1, <1>2, <1>3, <1>4, <1>5, <1>6, <1>7, <1>8, <1>9, <1>10, <1>11
  DEF NetUpdateJoinState, MainLoop

LEMMA ThereStep ==
  ASSUME ThereInv, TheTasks, [HubNext]_allVars
  PROVE  ThereInv'
<1>1. CASE UNCHANGED allVars
  <2>1. UNCHANGED vars BY <1>1 DEF allVars
  <2>2. CASE main # "crashed" BY <2>1, <2>2, ThereWaits
  <2>3. CASE main = "crashed"
    <3>1. UNCHANGED thereVars /\ main' = main
      BY <2>1 DEF vars, thereVars, taskVars, switchVars, callVars, boundVars
    <3>2. QED
      BY <2>3, <3>1 DEF thereVars, taskVars, ThereInv, TasksTyped, CallersHoldTheMutex,
                        StagesOfMain, NothingGoneIsTouched, Running
  <2>4. QED BY <2>2, <2>3
<1>2. CASE HubNext
  <2>1. main # "crashed" BY <1>2 DEF HubNext, Next
  <2>2. QED
    BY <1>2, <2>1, ThereCallbacks, ThereSync, ThereUnSync, ThereEnterExit, ThereWaits
       DEF HubNext, Next
<1>3. QED BY <1>1, <1>2

\* A tick or a packet that is being handled finds the queues, the players of
\* the spoke and the socket, and a tick of the hub its players: whatever main
\* thread, tasks and receiver do, on a player's machine or a standalone hub.
THEOREM NothingIsUsedWhenGone == HubFairSpec => []NothingGoneIsTouched
<1>1. TheTasks BY SessionAssumption DEF TheTasks
<1>2. HubInit => ThereInv BY <1>1, ThereInit DEF HubInit
<1>3. ThereInv /\ [HubNext]_allVars => ThereInv' BY <1>1, ThereStep
<1>4. ThereInv => NothingGoneIsTouched BY DEF ThereInv
<1>5. QED BY <1>2, <1>3, <1>4, PTL DEF HubFairSpec

----------------------------------------------------------------------------
(* What the pool's users call.                                              *)

LEMMA MinIsIn ==
  ASSUME NEW S \in SUBSET Nat, S # {}
  PROVE  Min(S) \in S
<1>1. PICK x \in S : \A y \in S : <<y, x>> \notin OpToRel(<, Nat)
  BY NatLessThanWellFounded, WFMin
<1>2. \A y \in S : ~(y < x) BY <1>1, Zenon DEF OpToRel
<1>3. \A y \in S : x <= y BY <1>2
<1>4. QED BY <1>3, Zenon DEF Min

LEMMA WhatIsFreed ==
  ASSUME NEW p \in PoolType, NEW s \in Slot
  PROVE  /\ Freed(p) \in PoolType
         /\ Freed(p)[s].free <=> p[s].free
         /\ ~p[s].free => Freed(p)[s] = p[s]
         /\ Undone(Freed(p)[s].try) => Undone(p[s].try)
         /\ p[s].free /\ Freed(p)[s].try # NoTry => Undone(p[s].try)
<1>1. [try |-> NoTry, free |-> TRUE] \in [try : TryType, free : BOOLEAN]
  BY DEF NoTry, TryType, TryFields
<1>2. Freed(p) \in PoolType BY <1>1 DEF Freed, PoolType
<1>3. Freed(p)[s] = IF p[s].free /\ Done(p[s].try) THEN [try |-> NoTry, free |-> TRUE] ELSE p[s]
  BY DEF Freed
<1>4. QED BY <1>2, <1>3 DEF Undone

LEMMA WhatIsAbandoned ==
  ASSUME NEW p \in PoolType, NEW slot \in Slot \cup {NoSlot}
  PROVE  /\ Abandoned(p, slot) \in PoolType
         /\ \A s \in Slot : /\ Abandoned(p, slot)[s].try = p[s].try
                            /\ Abandoned(p, slot)[s].free <=> p[s].free \/ s = slot
<1>1. CASE slot = NoSlot BY <1>1 DEF Abandoned, Slot, NoSlot
<1>2. CASE slot \in Slot
  <2> DEFINE q == [p EXCEPT ![slot].free = TRUE]
  <2>1. Abandoned(p, slot) = q BY <1>2 DEF Abandoned, Slot, NoSlot
  <2>2. q \in PoolType BY <1>2 DEF PoolType
  <2>3. \A s \in Slot : s # slot => q[s] = p[s] BY <1>2 DEF PoolType
  <2>4. q[slot].try = p[slot].try BY <1>2 DEF PoolType
  <2>5. q[slot].free = TRUE BY <1>2 DEF PoolType
  <2> HIDE DEF q
  <2>6. QED BY <2>1, <2>2, <2>3, <2>4, <2>5
<1>3. QED BY <1>1, <1>2

LEMMA WhatConnectingDoes ==
  ASSUME NEW p \in PoolType, NEW try \in TryType, \A s \in Slot : p[s].free
  PROVE  LET c == Connecting(p, try)
         IN /\ c.pool \in PoolType
            /\ c.slot \in Slot \cup {NoSlot}
            /\ \A s \in Slot : ~c.pool[s].free <=> s = c.slot
            /\ c.slot # NoSlot => c.pool[c.slot].try = try
            /\ \A s \in Slot : s # c.slot /\ Undone(c.pool[s].try) => Undone(p[s].try)
            /\ c.slot = NoSlot => \A s \in Slot : Undone(p[s].try)
<1> DEFINE freed == Freed(p)
           usable == {s \in Slot : freed[s].free /\ freed[s].try = NoTry}
           c == Connecting(p, try)
<1>1. \A s \in Slot : /\ freed \in PoolType
                      /\ freed[s].free
                      /\ Undone(freed[s].try) => Undone(p[s].try)
                      /\ freed[s].try # NoTry => Undone(p[s].try)
  BY WhatIsFreed
<1>2. freed \in PoolType BY WhatIsFreed, <1>1, PoolAssumption DEF Slot
<1>3. CASE usable = {}
  <2>1. c = [pool |-> freed, slot |-> NoSlot] BY <1>3 DEF Connecting
  <2> HIDE DEF freed, c
  <2>2. c.pool = freed /\ c.slot = NoSlot BY <2>1
  <2>3. NoSlot \notin Slot BY DEF NoSlot, Slot
  <2>4. \A s \in Slot : Undone(p[s].try) BY <1>1, <1>3
  <2>5. QED BY <1>1, <1>2, <2>2, <2>3, <2>4 DEF c
<1>4. CASE usable # {}
  <2> DEFINE m == Min(usable)
  <2>1. m \in usable
    <3>1. usable \in SUBSET Nat BY DEF Slot
    <3> HIDE DEF usable
    <3>2. QED BY <1>4, <3>1, MinIsIn
  <2>2. c = [pool |-> [freed EXCEPT ![m] = [try |-> try, free |-> FALSE]], slot |-> m]
    BY <1>4 DEF Connecting
  <2>3. m \in Slot /\ m # NoSlot BY <2>1 DEF Slot, NoSlot
  <2> HIDE DEF freed, c, m, usable
  <2>4. c.pool = [freed EXCEPT ![m] = [try |-> try, free |-> FALSE]] /\ c.slot = m BY <2>2
  <2>5. c.pool \in PoolType BY <1>2, <2>3, <2>4 DEF PoolType
  <2>6. /\ c.pool[m] = [try |-> try, free |-> FALSE]
        /\ \A s \in Slot : s # m => c.pool[s] = freed[s]
    BY <1>2, <2>3, <2>4 DEF PoolType
  <2>7. QED BY <1>1, <2>3, <2>4, <2>5, <2>6 DEF c
<1>5. QED BY <1>3, <1>4

----------------------------------------------------------------------------
(* What the steps do to the pool: nothing, or one of three things.          *)

\* What was tried is given up, and another try is made if there is a slot.
TriesAnew(try) ==
  /\ pool' \in PoolType /\ server_nbc' \in Slot \cup {NoSlot}
  /\ \A s \in Slot : ~pool'[s].free <=> s = server_nbc'
  /\ server_nbc' # NoSlot => pool'[server_nbc'].try = try
  /\ \A s \in Slot : s # server_nbc' /\ Undone(pool'[s].try) => Undone(pool[s].try)
  /\ server_nbc' = NoSlot => \A s \in Slot : Undone(pool[s].try)

\* What was tried is given up.
GivesUpTrying ==
  /\ pool' \in PoolType /\ server_nbc' = NoSlot
  /\ \A s \in Slot : pool'[s].free /\ (Undone(pool'[s].try) => Undone(pool[s].try))

\* A thread goes on.
ThreadGoesOn(s) ==
  /\ server_nbc' = server_nbc
  /\ pool' \in PoolType
  /\ \A u \in Slot : /\ pool'[u].free <=> pool[u].free
                     /\ u # s => pool'[u].try = pool[u].try
  /\ LET old == pool[s].try
         new == pool'[s].try
     IN /\ Undone(new) => Undone(old)
        /\ new.thread # "none"
        /\ new.status = "Connected" => new.channel \/ old.status = "Connected"
        /\ old.channel => new.channel

LEMMA TriesHaveAType ==
  /\ \A n \in Name : TryName(n) \in TryType
  /\ \A ip \in Address \cup {Nowhere} : TryAddress(ip) \in TryType
BY DEF TryName, TryAddress, NoTry, TryType, TryFields

LEMMA AllAreFree ==
  ASSUME PoolInv
  PROVE  /\ Abandoned(pool, server_nbc) \in PoolType
         /\ \A s \in Slot : /\ Abandoned(pool, server_nbc)[s].free
                            /\ Abandoned(pool, server_nbc)[s].try = pool[s].try
BY WhatIsAbandoned DEF PoolInv, PoolTyped, OneTry

LEMMA ConnectingTriesAnew ==
  ASSUME PoolInv, NEW try \in TryType,
         LET c == Connecting(Abandoned(pool, server_nbc), try)
         IN pool' = c.pool /\ server_nbc' = c.slot
  PROVE  TriesAnew(try)
<1> DEFINE q == Abandoned(pool, server_nbc)
           c == Connecting(q, try)
<1>1. q \in PoolType /\ \A s \in Slot : q[s].free /\ q[s].try = pool[s].try BY AllAreFree
<1>2. pool' = c.pool /\ server_nbc' = c.slot OBVIOUS
<1> HIDE DEF q
<1>3. /\ c.pool \in PoolType
      /\ c.slot \in Slot \cup {NoSlot}
      /\ \A s \in Slot : ~c.pool[s].free <=> s = c.slot
      /\ c.slot # NoSlot => c.pool[c.slot].try = try
      /\ \A s \in Slot : s # c.slot /\ Undone(c.pool[s].try) => Undone(q[s].try)
      /\ c.slot = NoSlot => \A s \in Slot : Undone(q[s].try)
  BY <1>1, WhatConnectingDoes
<1> HIDE DEF c
<1>4. QED BY <1>1, <1>2, <1>3 DEF TriesAnew

LEMMA JoinByNameTries ==
  ASSUME PoolInv, NEW n \in Name, JoinByName(n)
  PROVE  TriesAnew(TryName(n))
BY ConnectingTriesAnew, TriesHaveAType DEF JoinByName

LEMMA TryHostTries ==
  ASSUME PoolInv, TryHost
  PROVE  TriesAnew(TryAddress(host.address))
<1>1. pool = Abandoned(pool, server_nbc) BY DEF TryHost, Abandoned
<1>2. TryAddress(host.address) \in TryType
  BY TriesHaveAType DEF PoolInv, PoolTyped, HostType
<1>3. QED BY <1>1, <1>2, ConnectingTriesAnew DEF TryHost

LEMMA HostRefusedTries ==
  ASSUME PoolInv, HostRefused
  PROVE  /\ host' \in HostType
         /\ host' = HostTried(host, pool[server_nbc].try.ip)
         /\ host'.specified => TriesAnew(TryAddress(host'.address))
         /\ ~host'.specified => GivesUpTrying
<1>1. host' = HostTried(host, pool[server_nbc].try.ip) BY DEF HostRefused
<1>2. server_nbc \in Slot /\ pool[server_nbc].try.ip \in Address \cup {Nowhere}
  BY DEF HostRefused, PoolInv, PoolTyped, PoolType, TryType, TryFields
<1>3. host' \in HostType
  BY <1>1, <1>2 DEF HostTried, HostType, PoolInv, PoolTyped
<1>4. ASSUME host'.specified PROVE TriesAnew(TryAddress(host'.address))
  <2>1. TryAddress(host'.address) \in TryType BY <1>3, TriesHaveAType DEF HostType
  <2>2. LET c == Connecting(Abandoned(pool, server_nbc), TryAddress(host'.address))
        IN pool' = c.pool /\ server_nbc' = c.slot
    BY <1>4 DEF HostRefused, TryNext
  <2>3. QED BY <2>1, <2>2, ConnectingTriesAnew
<1>5. ASSUME ~host'.specified PROVE GivesUpTrying
  <2>1. pool' = Abandoned(pool, server_nbc) /\ server_nbc' = NoSlot
    BY <1>5 DEF HostRefused, TryNext
  <2>2. QED BY <2>1, AllAreFree DEF GivesUpTrying
<1>6. QED BY <1>1, <1>3, <1>4, <1>5

LEMMA SearchOrExitGivesUp ==
  ASSUME PoolInv, JoinBySearch \/ ResetInterface
  PROVE  GivesUpTrying
BY AllAreFree DEF JoinBySearch, ResetInterface, GivesUpTrying

LEMMA HostConnectedGivesUp ==
  ASSUME PoolInv, HostConnected
  PROVE  GivesUpTrying
<1> DEFINE q == [pool EXCEPT ![server_nbc].try.channel = FALSE]
<1>1. pool' = Abandoned(q, server_nbc) /\ server_nbc' = NoSlot /\ server_nbc \in Slot
      /\ pool[server_nbc].try.status = "Connected"
  BY DEF HostConnected, Status, PoolInv, PoolTyped
<1>2. pool \in PoolType BY DEF PoolInv, PoolTyped
<1>3. q \in PoolType BY <1>1, <1>2 DEF PoolType, TryType, TryFields
<1>4. \A s \in Slot : s # server_nbc => q[s] = pool[s] BY <1>1, <1>2 DEF PoolType
<1>5. q[server_nbc].try.status = "Connected" BY <1>1, <1>2 DEF PoolType, TryType, TryFields
<1> HIDE DEF q
<1>6. /\ pool' \in PoolType
      /\ \A s \in Slot : pool'[s].try = q[s].try /\ (pool'[s].free <=> q[s].free \/ s = server_nbc)
  BY <1>1, <1>3, WhatIsAbandoned
<1>7. ~Undone(pool'[server_nbc].try) BY <1>1, <1>5, <1>6 DEF Undone, Done
<1>8. \A s \in Slot : s # server_nbc => pool'[s].free /\ pool'[s].try = pool[s].try
  BY <1>4, <1>6 DEF PoolInv, OneTry
<1>9. QED BY <1>1, <1>6, <1>7, <1>8 DEF GivesUpTrying

\* What a thread makes of its try.
LEMMA StepsOfAThread ==
  ASSUME PoolInv, NEW s \in Slot, PoolThread(s)
  PROVE  /\ ThreadGoesOn(s)
         /\ \/ /\ pool[s].try.thread = "resolving"
               /\ pool'[s].try = Resolved(pool[s].try)
            \/ /\ pool[s].try.thread = "connecting"
               /\ pool'[s].try \in {GotThrough(pool[s].try), Refused(pool[s].try)}
            \/ /\ pool[s].try.thread = "publishing"
               /\ pool'[s].try = Published(pool[s].try)
<1> DEFINE old == pool[s].try
<1>1. pool \in PoolType /\ old \in TryType BY DEF PoolInv, PoolTyped, PoolType
<1>2. PICK to : /\ pool' = [pool EXCEPT ![s].try = to]
                /\ \/ old.thread = "resolving" /\ to = Resolved(old)
                   \/ old.thread = "connecting" /\ to \in {GotThrough(old), Refused(old)}
                   \/ old.thread = "publishing" /\ to = Published(old)
  BY DEF PoolThread, ThreadStep, Step
<1>3. server_nbc' = server_nbc BY DEF PoolThread, joinVars
<1>4. /\ to \in TryType
      /\ to.thread \in {"connecting", "publishing", "ended"}
  <2>1. CASE old.thread = "resolving" /\ to = Resolved(old)
    BY <1>1, <2>1, PoolAssumption DEF Resolved, TryType, TryFields
  <2>2. CASE old.thread = "connecting" /\ to \in {GotThrough(old), Refused(old)}
    <3>1. CASE to = GotThrough(old) BY <1>1, <2>2, <3>1 DEF GotThrough, TryType, TryFields
    <3>2. CASE to = Refused(old) BY <1>1, <2>2, <3>2 DEF Refused, TryType, TryFields
    <3>3. QED BY <2>2, <3>1, <3>2
  <2>3. CASE old.thread = "publishing" /\ to = Published(old)
    BY <1>1, <2>3 DEF Published, TryType, TryFields
  <2>4. QED BY <1>2, <2>1, <2>2, <2>3
<1>5. /\ pool' \in PoolType
      /\ pool'[s].try = to
      /\ \A u \in Slot : u # s => pool'[u] = pool[u]
  BY <1>1, <1>2, <1>4 DEF PoolType
<1>6. pool'[s].free = pool[s].free BY <1>1, <1>2 DEF PoolType
<1>7. old # NoTry BY <1>2 DEF NoTry
<1>8. /\ Undone(to) => Undone(old)
      /\ to.status = "Connected" => to.channel \/ old.status = "Connected"
      /\ old.channel => to.channel
  <2> USE DEF Undone, Done, TryType, TryFields
  <2>1. CASE old.thread = "resolving" /\ to = Resolved(old)
    BY <1>1, <1>7, <2>1 DEF Resolved
  <2>2. CASE old.thread = "connecting" /\ to \in {GotThrough(old), Refused(old)}
    <3>1. CASE to = GotThrough(old) BY <1>1, <1>7, <2>2, <3>1 DEF GotThrough
    <3>2. CASE to = Refused(old) BY <1>1, <1>7, <2>2, <3>2 DEF Refused
    <3>3. QED BY <2>2, <3>1, <3>2
  <2>3. CASE old.thread = "publishing" /\ to = Published(old)
    BY <1>1, <1>7, <2>3 DEF Published
  <2>4. QED BY <1>2, <2>1, <2>2, <2>3
<1> HIDE DEF old
<1>9. ThreadGoesOn(s) BY <1>3, <1>4, <1>5, <1>6, <1>8 DEF ThreadGoesOn, old
<1>10. QED BY <1>2, <1>5, <1>9 DEF old

\* The steps that neither use the pool nor join.
Elsewhere ==
  /\ UNCHANGED <<pool, server_nbc, host, joined, sessions, listening>>
  /\ \/ main' = main
     \/ main' = "crashed"
     \/ /\ main \notin {"out", "connecting", "joined", "crashed"}
        /\ main' \notin {"out", "connecting", "joined", "crashed"}

LEMMA StepsElsewhere ==
  ASSUME main # "crashed",
         \/ Sync \/ ReadFlags \/ TakeFlags \/ StopSpoke \/ UnSync \/ CloseSocket \/ Crash
         \/ PacketArrives \/ ReceiverEnds \/ PacketBegins
         \/ \E t \in Task : TaskWakesUp(t) \/ TickBegins(t)
         \/ Callback \/ HubCompletes \/ MainLoop \/ Gatherer
  PROVE  Elsewhere
<1> USE DEF Elsewhere, boundVars, joinVars, poolVars, MainGoes
<1>1. CASE Sync
  BY <1>1 DEF Sync, SyncQueues, SyncHub, SyncSpoke, SyncActive, gameRest
<1>2. CASE ReadFlags \/ TakeFlags BY <1>2 DEF ReadFlags, TakeFlags, playRest
<1>3. CASE StopSpoke \/ UnSync
  BY <1>3 DEF StopSpoke, UnSync, JoinTask, Clear, StopHub, endRest
<1>4. CASE CloseSocket BY <1>4 DEF CloseSocket, exitRest
<1>5. CASE Crash BY <1>5 DEF Crash
<1>6. CASE PacketArrives \/ ReceiverEnds \/ PacketBegins
  BY <1>6 DEF PacketArrives, ReceiverEnds, PacketBegins, callRest
<1>7. CASE \E t \in Task : TaskWakesUp(t) \/ TickBegins(t)
  BY <1>7 DEF TaskWakesUp, TickBegins, callRest
<1>8. CASE Callback \/ HubCompletes
  BY <1>8 DEF Callback, Deliver, Store, Finish, GiveUpHub, Returns, HubCompletes, callRest
<1>9. CASE MainLoop
  BY <1>9 DEF MainLoop, WaitForGatherer, GetGameDataFromGatherer, GivesUp, SetupGathererGame,
     GatherJoiners, NetChangeMap, HubGoesOn, NetProcessMessagesInGame, GameIsOver, NextGame,
     Reset, sessionRest
<1>10. CASE Gatherer
  BY <1>10 DEF Gatherer, Asks, Sends, SendsGame, StartsGame, EndsGame, ChangesLevel, GoesAway,
     gathererRest, sessionRest
<1>11. QED BY <1>1, <1>2, <1>3, <1>4, <1>5, <1>6, <1>7, <1>8, <1>9, <1>10

\* The pool in all other steps: what the joiner's own steps do.
JoinSteps ==
  \/ Gather \/ (\E n \in Name : JoinByName(n)) \/ JoinBySearch
  \/ Retarget \/ NetUpdateJoinState \/ ListeningChanges \/ Gathered
  \/ StopListening \/ ResetInterface \/ \E s \in Slot : PoolThread(s)

LEMMA StepsOfThePool ==
  ASSUME [HubNext]_allVars
  PROVE  Elsewhere \/ (main # "crashed" /\ JoinSteps)
<1>1. CASE UNCHANGED allVars
  BY <1>1 DEF allVars, vars, boundVars, joinVars, poolVars, Elsewhere
<1>2. CASE HubNext
  <2>1. main # "crashed" BY <1>2 DEF HubNext, Next
  <2>2. QED BY <1>2, <2>1, StepsElsewhere DEF HubNext, Next, JoinSteps, NetExit
<1>3. QED BY <1>1, <1>2

----------------------------------------------------------------------------
(* Pool and joiner agree.                                                   *)

LEMMA PoolStarts == ASSUME Init PROVE PoolInv
<1>1. EmptyPool \in PoolType
  BY DEF EmptyPool, PoolType, TryType, TryFields, NoTry
<1>2. \A s \in Slot : EmptyPool[s].free /\ s # NoSlot BY DEF EmptyPool, Slot, NoSlot
<1>3. NoHost \in HostType BY DEF NoHost, HostType
<1>4. QED BY <1>1, <1>2, <1>3 DEF Init, PoolInv, PoolTyped, OneTry

\* One of the three things leaves the pool and the joiner in agreement.
LEMMA OneTryStays ==
  ASSUME PoolInv,
         \/ \E n \in Name : TriesAnew(TryName(n))
         \/ \E ip \in Address \cup {Nowhere} : TriesAnew(TryAddress(ip))
         \/ GivesUpTrying
         \/ \E s \in Slot : ThreadGoesOn(s)
         \/ UNCHANGED <<pool, server_nbc>>
  PROVE  OneTry' /\ pool' \in PoolType /\ server_nbc' \in Slot \cup {NoSlot}
<1>1. ASSUME NEW try, TriesAnew(try), try.thread # "none", try.status = "Connecting"
      PROVE OneTry' /\ pool' \in PoolType /\ server_nbc' \in Slot \cup {NoSlot}
  BY <1>1 DEF TriesAnew, OneTry, Slot, NoSlot
<1>2. CASE \E n \in Name : TriesAnew(TryName(n))
  BY <1>1, <1>2 DEF TryName, NoTry
<1>3. CASE \E ip \in Address \cup {Nowhere} : TriesAnew(TryAddress(ip))
  BY <1>1, <1>3 DEF TryAddress, NoTry
<1>4. CASE GivesUpTrying BY <1>4 DEF GivesUpTrying, OneTry, Slot, NoSlot
<1>5. CASE \E s \in Slot : ThreadGoesOn(s)
  BY <1>5 DEF ThreadGoesOn, OneTry, PoolInv, PoolTyped
<1>6. CASE UNCHANGED <<pool, server_nbc>> BY <1>6 DEF OneTry, PoolInv, PoolTyped
<1>7. QED BY <1>2, <1>3, <1>4, <1>5, <1>6

LEMMA PoolStays ==
  ASSUME PoolInv, [HubNext]_allVars
  PROVE  PoolInv'
<1> USE DEF PoolInv, PoolTyped, boundVars, joinRest
<1>1. CASE Elsewhere BY <1>1, OneTryStays DEF Elsewhere
<1>2. CASE Gather BY <1>2, OneTryStays DEF Gather, Enter
<1>3. CASE \E n \in Name : JoinByName(n)
  <2>1. PICK n \in Name : JoinByName(n) BY <1>3
  <2>2. OneTry' /\ pool' \in PoolType /\ server_nbc' \in Slot \cup {NoSlot}
    BY <2>1, JoinByNameTries, OneTryStays
  <2>3. host' \in HostType BY <2>1, PoolAssumption DEF JoinByName, HostType
  <2>4. QED BY <2>1, <2>2, <2>3 DEF JoinByName, Enter
<1>4. CASE JoinBySearch
  <2>1. OneTry' /\ pool' \in PoolType /\ server_nbc' \in Slot \cup {NoSlot}
    BY <1>4, SearchOrExitGivesUp, OneTryStays
  <2>2. host' \in HostType BY <1>4 DEF JoinBySearch, HostType
  <2>3. QED BY <1>4, <2>1, <2>2 DEF JoinBySearch, Enter
<1>5. CASE Retarget
  <2>1. host' \in HostType BY <1>5 DEF Retarget, HostType
  <2>2. QED BY <1>5, <2>1, OneTryStays DEF Retarget, joinVars
<1>6. CASE TryHost
  <2>1. OneTry' /\ pool' \in PoolType /\ server_nbc' \in Slot \cup {NoSlot}
    BY <1>6, TryHostTries, OneTryStays DEF HostType
  <2>2. QED BY <1>6, <2>1 DEF TryHost
<1>7. CASE HostConnected
  BY <1>7, HostConnectedGivesUp, OneTryStays DEF HostConnected
<1>8. CASE HostRefused
  <2>1. OneTry' /\ pool' \in PoolType /\ server_nbc' \in Slot \cup {NoSlot}
    BY <1>8, HostRefusedTries, OneTryStays DEF HostType
  <2>2. QED BY <1>8, <2>1, HostRefusedTries DEF HostRefused
<1>9. CASE ListeningChanges BY <1>9, OneTryStays DEF ListeningChanges, joinVars
<1>10. CASE Gathered \/ StopListening
  <2>1. host' \in HostType BY <1>10 DEF Gathered, StopListening, HostType
  <2>2. QED BY <1>10, <2>1, OneTryStays DEF Gathered, StopListening, exitRest
<1>11. CASE ResetInterface
  BY <1>11, SearchOrExitGivesUp, OneTryStays DEF ResetInterface, exitRest
<1>12. CASE \E s \in Slot : PoolThread(s)
  BY <1>12, StepsOfAThread, OneTryStays DEF PoolThread, joinVars, ThreadStep
<1>13. QED
  BY StepsOfThePool, <1>1, <1>2, <1>3, <1>4, <1>5, <1>6, <1>7, <1>8, <1>9, <1>10, <1>11, <1>12
  DEF JoinSteps, NetUpdateJoinState

\* Whatever the threads of earlier tries do: the slot that the joiner polls is
\* in use, by his try, and has a channel for him once it says so.
THEOREM PoolAndJoinerAgree == HubFairSpec => []OwnTry
<1>1. HubInit => PoolInv BY PoolStarts DEF HubInit
<1>2. PoolInv /\ [HubNext]_allVars => PoolInv' BY PoolStays
<1>3. PoolInv => OwnTry
  BY DEF PoolInv, PoolTyped, OneTry, OwnTry, Status, NoTry
<1>4. QED BY <1>1, <1>2, <1>3, PTL DEF HubFairSpec

----------------------------------------------------------------------------
(* Tries that are left behind: one for each session at most.                *)

LEMMA SlotsAreFinite == IsFiniteSet(Slot) /\ Cardinality(Slot) = PoolSize
<1>1. 1 \in Int /\ PoolSize \in Int /\ ~(1 > PoolSize) /\ PoolSize - 1 + 1 = PoolSize
  BY PoolAssumption
<1>2. QED BY <1>1, FS_Interval DEF Slot

LEMMA LeftBehindIsFinite ==
  /\ IsFiniteSet(LeftBehind) /\ Cardinality(LeftBehind) \in Nat
  /\ IsFiniteSet(LeftBehind') /\ Cardinality(LeftBehind') \in Nat
<1>1. LeftBehind \subseteq Slot /\ LeftBehind' \subseteq Slot BY DEF LeftBehind
<1>2. QED BY <1>1, SlotsAreFinite, FS_Subset, FS_CardinalityType

\* There are no more of them when a try is made and when a thread goes on, and
\* one more, the joiner's own, when it is given up.
LEMMA NoMoreAreLeft ==
  ASSUME PoolInv,
         \/ \E try : TriesAnew(try) /\ (server_nbc = NoSlot \/ Done(pool[server_nbc].try))
         \/ GivesUpTrying /\ (server_nbc = NoSlot \/ Done(pool[server_nbc].try))
         \/ \E s \in Slot : ThreadGoesOn(s)
         \/ UNCHANGED <<pool, server_nbc>>
  PROVE  Cardinality(LeftBehind') <= Cardinality(LeftBehind)
<1>1. LeftBehind' \subseteq LeftBehind
  <2> USE DEF LeftBehind, PoolInv, PoolTyped
  <2>1. CASE \E try : TriesAnew(try) /\ (server_nbc = NoSlot \/ Done(pool[server_nbc].try))
    BY <2>1 DEF TriesAnew, Undone, Slot, NoSlot
  <2>2. CASE GivesUpTrying /\ (server_nbc = NoSlot \/ Done(pool[server_nbc].try))
    BY <2>2 DEF GivesUpTrying, Undone, Slot, NoSlot
  <2>3. CASE \E s \in Slot : ThreadGoesOn(s) BY <2>3 DEF ThreadGoesOn
  <2>4. CASE UNCHANGED <<pool, server_nbc>> BY <2>4
  <2>5. QED BY <2>1, <2>2, <2>3, <2>4
<1>2. QED BY <1>1, LeftBehindIsFinite, FS_Subset

LEMMA OneMoreIsLeft ==
  ASSUME PoolInv, GivesUpTrying
  PROVE  Cardinality(LeftBehind') <= Cardinality(LeftBehind) + 1
<1>1. LeftBehind' \subseteq LeftBehind \cup {server_nbc}
  BY DEF LeftBehind, GivesUpTrying, PoolInv, PoolTyped
<1>2. /\ IsFiniteSet(LeftBehind \cup {server_nbc})
      /\ Cardinality(LeftBehind \cup {server_nbc}) \in Nat
      /\ Cardinality(LeftBehind \cup {server_nbc}) \in
           {Cardinality(LeftBehind), Cardinality(LeftBehind) + 1}
  BY LeftBehindIsFinite, FS_AddElement, FS_CardinalityType
<1>3. Cardinality(LeftBehind') <= Cardinality(LeftBehind \cup {server_nbc})
  BY <1>1, <1>2, FS_Subset
<1>4. QED BY <1>2, <1>3, LeftBehindIsFinite

LEMMA FewStart == ASSUME Init PROVE FewLeftBehind
<1>1. LeftBehind = {} BY DEF Init, LeftBehind, Undone, EmptyPool
<1>2. Cardinality(LeftBehind) = 0 BY <1>1, FS_EmptySet
<1>3. QED BY <1>2, SessionAssumption DEF Init, FewLeftBehind

LEMMA FewStay ==
  ASSUME PoolInv, FewLeftBehind, [HubNext]_allVars
  PROVE  FewLeftBehind'
<1> DEFINE few == Cardinality(LeftBehind)
           few2 == Cardinality(LeftBehind')
<1>1. /\ few \in Nat /\ few2 \in Nat /\ sessions \in Nat /\ MaxSessions \in Nat
      /\ main = "out" => server_nbc = NoSlot
      /\ few <= sessions /\ sessions <= MaxSessions
      /\ main \notin {"out", "crashed"} => few + 1 <= sessions
  BY LeftBehindIsFinite, SessionAssumption DEF PoolInv, PoolTyped, FewLeftBehind
<1> SUFFICES /\ main' = "out" => server_nbc' = NoSlot
             /\ few2 <= sessions' /\ sessions' <= MaxSessions
             /\ main' \notin {"out", "crashed"} => few2 + 1 <= sessions'
  BY DEF FewLeftBehind
<1>2. CASE Elsewhere
  <2>1. few2 <= few BY <1>2, NoMoreAreLeft DEF Elsewhere
  <2> HIDE DEF few, few2
  <2>2. QED BY <1>1, <1>2, <2>1 DEF Elsewhere
<1>3. CASE Gather \/ (\E n \in Name : JoinByName(n)) \/ JoinBySearch
  <2>1. main = "out" /\ main' \in {"waiting", "ready", "connecting"}
        /\ sessions < MaxSessions /\ sessions' = sessions + 1
    BY <1>3 DEF Gather, JoinByName, JoinBySearch, Enter
  <2>2. few2 <= few
    BY <1>1, <1>3, <2>1, NoMoreAreLeft, JoinByNameTries, SearchOrExitGivesUp DEF Gather
  <2> HIDE DEF few, few2
  <2>3. QED BY <1>1, <2>1, <2>2
<1>4. CASE ResetInterface
  <2>1. main = "closed" /\ main' = "out" /\ sessions' = sessions /\ server_nbc' = NoSlot
    BY <1>4 DEF ResetInterface, MainGoes, exitRest, boundVars
  <2>2. few2 <= few + 1 BY <1>4, SearchOrExitGivesUp, OneMoreIsLeft
  <2> HIDE DEF few, few2
  <2>3. QED BY <1>1, <2>1, <2>2
<1>5. CASE Retarget \/ NetUpdateJoinState \/ ListeningChanges \/ Gathered \/ StopListening
           \/ \E s \in Slot : PoolThread(s)
  <2>1. CASE Retarget \/ ListeningChanges \/ Gathered \/ StopListening
    <3>1. UNCHANGED <<pool, server_nbc, sessions>>
          /\ \/ main' = main
             \/ main \notin {"out", "crashed"} /\ main' \notin {"out", "crashed"}
      BY <2>1 DEF Retarget, ListeningChanges, Gathered, StopListening, joinRest, joinVars,
                  boundVars, exitRest
    <3>2. few2 <= few BY <3>1, NoMoreAreLeft
    <3> HIDE DEF few, few2
    <3>3. QED BY <1>1, <3>1, <3>2
  <2>2. CASE NetUpdateJoinState
    <3>1. main = "connecting" /\ main' \in {"connecting", "joined", "failed"}
          /\ sessions' = sessions
      BY <2>2 DEF NetUpdateJoinState, TryHost, HostConnected, HostRefused, joinRest, boundVars
    <3>2. server_nbc = NoSlot \/ Done(pool[server_nbc].try)
      BY <2>2 DEF NetUpdateJoinState, TryHost, HostConnected, HostRefused, Status, Done
    <3>3. GivesUpTrying \/ \E try : TriesAnew(try)
      BY <2>2, TryHostTries, HostConnectedGivesUp, HostRefusedTries DEF NetUpdateJoinState
    <3>4. few2 <= few BY <3>2, <3>3, NoMoreAreLeft
    <3> HIDE DEF few, few2
    <3>5. QED BY <1>1, <3>1, <3>4
  <2>3. CASE \E s \in Slot : PoolThread(s)
    <3>1. UNCHANGED <<main, sessions, server_nbc>> BY <2>3 DEF PoolThread, boundVars, joinVars
    <3>2. few2 <= few BY <2>3, StepsOfAThread, NoMoreAreLeft
    <3> HIDE DEF few, few2
    <3>3. QED BY <1>1, <3>1, <3>2
  <2>4. QED BY <1>5, <2>1, <2>2, <2>3
<1>6. QED BY StepsOfThePool, <1>2, <1>3, <1>4, <1>5 DEF JoinSteps

----------------------------------------------------------------------------
(* The joiner is connected to a host he asked for.                          *)

\* As long as there are as many slots as there were sessions, a name finds one.
LEMMA ANameFindsASlot ==
  ASSUME PoolInv, FewLeftBehind, MaxSessions <= PoolSize, NEW n \in Name, JoinByName(n)
  PROVE  server_nbc' # NoSlot
<1> SUFFICES ASSUME server_nbc' = NoSlot PROVE FALSE OBVIOUS
<1>1. main = "out" /\ sessions < MaxSessions BY DEF JoinByName, Enter
<1>2. server_nbc = NoSlot /\ Cardinality(LeftBehind) <= sessions /\ sessions \in Nat
  BY <1>1 DEF FewLeftBehind, PoolInv, PoolTyped
<1>3. \A s \in Slot : Undone(pool[s].try) BY JoinByNameTries DEF TriesAnew
<1>4. LeftBehind = Slot BY <1>2, <1>3 DEF LeftBehind, Slot, NoSlot
<1>5. PoolSize <= sessions BY <1>2, <1>4, SlotsAreFinite
<1>6. QED BY <1>1, <1>2, <1>5, SessionAssumption, PoolAssumption

\* A try on its way to a host that was asked for.
OnItsWay(try, asked) ==
  /\ try.thread = "resolving" => AddressOf[try.name] \in asked
  /\ try.thread \in {"connecting", "publishing"} \/ try.status # "Connecting" => try.ip \in asked

LEMMA AskedStarts == ASSUME Init PROVE AskedInv
BY DEF Init, AskedInv, HostWasAskedFor, JoinsWhomItWasTold

LEMMA AskedStays ==
  ASSUME PoolInv, FewLeftBehind, AskedInv, MaxSessions <= PoolSize, [HubNext]_allVars
  PROVE  AskedInv'
<1>1. PoolInv' BY PoolStays
<1>2. HostWasAskedFor <=>
        (main = "connecting" =>
           /\ host.specified =>
                IF host.byName /\ host.resolving THEN server_nbc # NoSlot
                ELSE host.address \in host.asked
           /\ host.byName => host.specified
           /\ server_nbc # NoSlot => OnItsWay(pool[server_nbc].try, host.asked))
  BY DEF HostWasAskedFor, OnItsWay
<1>3. HostWasAskedFor' <=>
        (main' = "connecting" =>
           /\ host'.specified =>
                IF host'.byName /\ host'.resolving THEN server_nbc' # NoSlot
                ELSE host'.address \in host'.asked
           /\ host'.byName => host'.specified
           /\ server_nbc' # NoSlot => OnItsWay(pool'[server_nbc'].try, host'.asked))
  BY DEF HostWasAskedFor, OnItsWay
<1> USE DEF AskedInv, JoinsWhomItWasTold
<1>4. CASE Elsewhere BY <1>2, <1>3, <1>4 DEF Elsewhere
<1>5. CASE Gather \/ Gathered \/ StopListening \/ ResetInterface
  <2>1. main' \in {"waiting", "ready", "exit", "out"}
    BY <1>5 DEF Gather, Gathered, StopListening, ResetInterface, Enter, MainGoes
  <2>2. QED BY <1>3, <2>1
<1>6. CASE \E n \in Name : JoinByName(n)
  <2>1. PICK n \in Name : JoinByName(n) BY <1>6
  <2>2. main' = "connecting"
        /\ host' = [specified |-> TRUE, address |-> host.address, resolving |-> TRUE,
                    byName |-> TRUE, asked |-> {AddressOf[n]}]
    BY <2>1 DEF JoinByName, Enter
  <2>3. server_nbc' # NoSlot BY <2>1, ANameFindsASlot
  <2>4. pool'[server_nbc'].try = TryName(n) BY <2>1, <2>3, JoinByNameTries DEF TriesAnew
  <2>5. OnItsWay(TryName(n), {AddressOf[n]}) BY DEF OnItsWay, TryName, NoTry
  <2>6. QED BY <1>3, <2>2, <2>3, <2>4, <2>5
<1>7. CASE JoinBySearch
  <2>1. main' = "connecting" /\ host' = [host EXCEPT !.specified = FALSE, !.byName = FALSE,
                                                     !.asked = {}]
    BY <1>7 DEF JoinBySearch, Enter
  <2>2. host'.specified = FALSE /\ host'.byName = FALSE
    BY <2>1 DEF PoolInv, PoolTyped, HostType
  <2>3. server_nbc' = NoSlot BY <1>7 DEF JoinBySearch
  <2>4. QED BY <1>3, <2>1, <2>2, <2>3
<1>8. CASE Retarget
  <2>1. main = "connecting" /\ main' = "connecting" /\ ~host.byName
        /\ UNCHANGED <<pool, server_nbc>>
    BY <1>8 DEF Retarget
  <2>2. /\ host'.byName <=> host.byName
        /\ host.asked \subseteq host'.asked
        /\ host'.specified => host'.address \in host'.asked
    BY <1>8 DEF Retarget, PoolInv, PoolTyped, HostType
  <2>3. ASSUME NEW try, OnItsWay(try, host.asked) PROVE OnItsWay(try, host'.asked)
    BY <2>2, <2>3 DEF OnItsWay
  <2>4. QED BY <1>2, <1>3, <2>1, <2>2, <2>3
<1>9. CASE TryHost
  <2>1. main = "connecting" /\ main' = "connecting" /\ host' = host /\ host.specified
        /\ server_nbc = NoSlot
    BY <1>9 DEF TryHost
  <2>2. host.address \in host.asked /\ ~(host.byName /\ host.resolving) BY <1>2, <2>1
  <2>3. server_nbc' # NoSlot => pool'[server_nbc'].try = TryAddress(host.address)
    BY <1>9, TryHostTries DEF TriesAnew
  <2>4. OnItsWay(TryAddress(host.address), host.asked)
    BY <2>2 DEF OnItsWay, TryAddress, NoTry
  <2>5. QED BY <1>2, <1>3, <2>1, <2>2, <2>3, <2>4
<1>10. CASE HostConnected
  <2>1. /\ main = "connecting" /\ main' \in {"joined", "failed"} /\ host' = host
        /\ server_nbc # NoSlot /\ pool[server_nbc].try.status = "Connected"
        /\ joined' = pool[server_nbc].try.ip
    BY <1>10 DEF HostConnected, Status
  <2>2. joined' \in host.asked BY <1>2, <2>1 DEF OnItsWay
  <2>3. QED BY <1>3, <2>1, <2>2
<1>11. CASE HostRefused
  <2>1. /\ main = "connecting" /\ main' = "connecting"
        /\ server_nbc # NoSlot /\ pool[server_nbc].try.status = "ConnectFailed"
    BY <1>11 DEF HostRefused, Status
  <2>2. pool[server_nbc].try.ip \in host.asked BY <1>2, <2>1 DEF OnItsWay
  <2>3. host' = HostTried(host, pool[server_nbc].try.ip) BY <1>11, HostRefusedTries
  <2>4. /\ host'.asked = host.asked
        /\ host'.address = IF host.resolving THEN pool[server_nbc].try.ip ELSE host.address
    BY <2>3 DEF HostTried, PoolInv, PoolTyped, HostType
  <2>5. /\ host'.resolving = FALSE
        /\ host'.specified = host.specified
        /\ host'.byName = host.byName
    BY <2>3 DEF HostTried, PoolInv, PoolTyped, HostType
  <2>6. host'.specified => host'.address \in host'.asked BY <1>2, <2>1, <2>2, <2>4, <2>5
  <2>7. server_nbc' # NoSlot =>
          host'.specified /\ pool'[server_nbc'].try = TryAddress(host'.address)
    BY <1>11, HostRefusedTries DEF TriesAnew, GivesUpTrying
  <2>8. host'.specified => OnItsWay(TryAddress(host'.address), host'.asked)
    BY <2>6 DEF OnItsWay, TryAddress, NoTry
  <2>9. QED BY <1>2, <1>3, <2>1, <2>5, <2>6, <2>7, <2>8
<1>12. CASE ListeningChanges BY <1>2, <1>3, <1>12 DEF ListeningChanges, joinVars
<1>13. CASE \E s \in Slot : PoolThread(s)
  <2>1. PICK s \in Slot : PoolThread(s) BY <1>13
  <2>2. UNCHANGED <<main, host, joined, server_nbc>> BY <2>1 DEF PoolThread, joinVars
  <2>3. ThreadGoesOn(s) BY <2>1, StepsOfAThread
  <2>4. ASSUME main = "connecting", server_nbc # NoSlot
        PROVE  OnItsWay(pool'[server_nbc].try, host.asked)
    <3>1. OnItsWay(pool[server_nbc].try, host.asked) BY <1>2, <2>4
    <3>2. CASE server_nbc # s
      BY <2>3, <2>4, <3>1, <3>2 DEF ThreadGoesOn, PoolInv, PoolTyped
    <3>3. CASE server_nbc = s
      <4> DEFINE old == pool[s].try
                 new == pool'[s].try
      <4>1. old \in TryFields BY DEF PoolInv, PoolTyped, PoolType, TryType
      <4>2. CASE old.thread = "resolving" /\ new = Resolved(old)
        BY <3>1, <3>3, <4>1, <4>2 DEF Resolved, OnItsWay, TryFields
      <4>3. CASE old.thread = "connecting" /\ new \in {GotThrough(old), Refused(old)}
        <5>1. CASE new = GotThrough(old)
          BY <3>1, <3>3, <4>1, <4>3, <5>1 DEF GotThrough, OnItsWay, TryFields
        <5>2. CASE new = Refused(old)
          BY <3>1, <3>3, <4>1, <4>3, <5>2 DEF Refused, OnItsWay, TryFields
        <5>3. QED BY <4>3, <5>1, <5>2
      <4>4. CASE old.thread = "publishing" /\ new = Published(old)
        BY <3>1, <3>3, <4>1, <4>4 DEF Published, OnItsWay, TryFields
      <4>5. QED BY <2>1, <3>3, <4>2, <4>3, <4>4, StepsOfAThread
    <3>4. QED BY <3>2, <3>3
  <2>5. QED BY <1>2, <1>3, <2>2, <2>4
<1>14. QED
  BY StepsOfThePool, <1>4, <1>5, <1>6, <1>7, <1>8, <1>9, <1>10, <1>11, <1>12, <1>13
  DEF JoinSteps, NetUpdateJoinState

\* As long as the pool has a slot for each session: whatever names failed to
\* resolve, hosts were searched for and tries were left behind, the joiner is
\* connected to a host he asked for in this session.
THEOREM JoinsOnlyWhomItAskedFor ==
  MaxSessions <= PoolSize => (HubFairSpec => []JoinsWhomItWasTold)
<1> DEFINE Inv == PoolInv /\ FewLeftBehind /\ AskedInv
<1> SUFFICES ASSUME MaxSessions <= PoolSize PROVE HubFairSpec => []JoinsWhomItWasTold
  OBVIOUS
<1>1. HubInit => Inv BY PoolStarts, FewStart, AskedStarts DEF HubInit
<1>2. Inv /\ [HubNext]_allVars => Inv' BY PoolStays, FewStay, AskedStays
<1>3. Inv => JoinsWhomItWasTold BY DEF AskedInv
<1> HIDE DEF Inv
<1>4. QED BY <1>1, <1>2, <1>3, PTL DEF HubFairSpec

----------------------------------------------------------------------------
(* The levels of a standalone hub: where the gatherer is, and what of his    *)
(* the hub has not read, at each stage of the main loop.                     *)

At(place, level) == [at |-> place, level |-> level]
Starts(c) == Command("start", c)
Ends(c) == Command("end", c)

\* The gatherer has begun level c, or has even ended it and sent the next one.
Playing(c) ==
  \/ remote = At("plays", c) /\ stream = <<>>
  \/ remote = At("ended", c) /\ stream \in {<<>>, <<Ends(c)>>}
  \/ remote = At("waits", c + 1) /\ stream \in {<<GameData(c + 1)>>, <<Ends(c), GameData(c + 1)>>}
  \/ remote = Away /\ stream \in {<<>>, <<Ends(c)>>, <<GameData(c + 1)>>,
                                  <<Ends(c), GameData(c + 1)>>}

\* The hub has read nothing of it, of a gatherer who is still there.
Unread(c) ==
  /\ remote.at \in {"ended", "waits"} => stream # <<>>
  /\ stream # <<>> => stream[1] = Ends(c)

Outside == {"out", "waiting", "dropped", "exit", "closed"}
Unwinding == {"wind_down", "join_hub", "clear_hub", "delete", "down"}

\* What the gatherer waits for has come or is on its way.
NextIsSent ==
  remote.at = "waits" => held = remote.level \/ \E i \in 1 .. Len(stream) :
                                                  stream[i] = GameData(remote.level)

\* Nobody has the hub. Then for level c: its data is waited for, has come, is
\* waiting for its start, and has been started.
Unclaimed ==
  stream = <<>> /\ (remote = Away \/ (main = "waiting" /\ remote = At("asking", game + 1)))
Fetches(c) ==
  \/ remote = At("accepted", c) /\ stream = <<>>
  \/ remote = At("waits", c) /\ stream = <<GameData(c)>>
  \/ remote = Away /\ stream \in {<<>>, <<GameData(c)>>}
HasData(c) == held = c /\ stream = <<>> /\ remote \in {Away, At("waits", c)}
Gathers(c) ==
  \/ remote = At("gathers", c) /\ stream = <<>>
  \/ remote = At("starts", c) /\ stream = <<Starts(c)>>
  \/ remote = Away /\ stream \in {<<>>, <<Starts(c)>>}
Changes(c) ==
  held = c /\ stream = <<>> /\ remote \in {Away, At("starts", c), At("waits", c)}

AtItsStage ==
  /\ main \in Outside \cup Unwinding \cup
       {"fetching", "setup", "gathering", "changing", "ready", "sync_hub", "synced",
        "playing", "taking", "reset", "crashed"}
  /\ main \in Outside => Unclaimed
  /\ main = "fetching" =>
       held = 0 /\ (IF gatherer = "talking" THEN Fetches(game + 1) ELSE Playing(game))
  /\ main = "setup" => HasData(game + 1)
  /\ main = "gathering" => held = game + 1 /\ Gathers(game + 1)
  /\ main = "changing" => Changes(game + 1)
  /\ main = "ready" => held = game + 1 /\ Playing(game + 1) /\ Unread(game + 1)
  /\ main \in {"sync_hub", "synced", "playing", "taking"} => game # 0
  /\ main \in {"sync_hub", "synced"} => held = game /\ Playing(game) /\ Unread(game)
  /\ main \in {"playing", "taking"} =>
       held = game /\ Playing(game) /\ (ended = game \/ (ended = 0 /\ Unread(game)))
  /\ main \in Unwinding => Playing(game)
  /\ main = "reset" => Fetches(game + 1) \/ Gathers(game + 1) \/ Playing(game)
  /\ main = "crashed" => NextIsSent
  /\ gatherer = "talking" => main \in {"fetching", "setup", "reset", "crashed"}

LevelsInv ==
  /\ alone \in BOOLEAN
  /\ game \in Nat
  /\ alone => AtItsStage

LEMMA OneLong ==
  ASSUME NEW S, NEW s \in Seq(S), Len(s) = 1
  PROVE  s = <<s[1]>>
<1>1. <<s[1]>> \in Seq(S) /\ Len(<<s[1]>>) = 1 OBVIOUS
<1>2. QED BY <1>1, SeqEqual

LEMMA PairsAreTwoLong ==
  \A a, b : Len(<<a, b>>) = 2 /\ <<a, b>>[1] = a /\ <<a, b>>[2] = b
OBVIOUS

LEMMA TwoLong ==
  ASSUME NEW S, NEW s \in Seq(S), Len(s) = 2
  PROVE  s = <<s[1], s[2]>>
<1>1. s[1] \in S /\ s[2] \in S
  <2>1. \A i \in 1 .. Len(s) : s[i] \in S BY ElementOfSeq
  <2>2. 1 \in 1 .. 2 /\ 2 \in 1 .. 2 OBVIOUS
  <2>3. QED BY <2>1, <2>2
<1>2. <<s[1], s[2]>> \in Seq(S) BY <1>1
<1>3. Len(<<s[1], s[2]>>) = 2 BY PairsAreTwoLong, Zenon
<1>4. s[1] = <<s[1], s[2]>>[1] /\ s[2] = <<s[1], s[2]>>[2] BY PairsAreTwoLong, Zenon
<1>5. \A i \in 1 .. 2 : i = 1 \/ i = 2 OBVIOUS
<1>6. \A i \in 1 .. 2 : s[i] = <<s[1], s[2]>>[i] BY <1>4, <1>5
<1>7. QED BY <1>2, <1>3, <1>6, SeqEqual

LEMMA ShortStreams ==
  ASSUME NEW a, NEW b
  PROVE  /\ Append(<<>>, a) = <<a>> /\ Append(<<a>>, b) = <<a, b>>
         /\ Tail(<<a>>) = <<>> /\ Tail(<<a, b>>) = <<b>>
         /\ Head(<<a>>) = a /\ Head(<<a, b>>) = a
         /\ Len(<<>>) = 0 /\ Len(<<a>>) = 1 /\ Len(<<a, b>>) = 2
         /\ <<a>> # <<>> /\ <<a, b>> # <<>> /\ <<a>>[1] = a /\ <<a, b>>[1] = a /\ <<a, b>>[2] = b
<1>1. Append(<<>>, a) = <<a>>
  <2>1. <<>> \in Seq({a}) OBVIOUS
  <2>2. Append(<<>>, a) \in Seq({a}) /\ Len(Append(<<>>, a)) = 1 /\ Append(<<>>, a)[1] = a
    BY <2>1
  <2>3. QED BY <2>2, OneLong
<1>2. Append(<<a>>, b) = <<a, b>>
  <2>1. <<a>> \in Seq({a, b}) /\ Len(<<a>>) = 1 /\ <<a>>[1] = a OBVIOUS
  <2>2. /\ Append(<<a>>, b) \in Seq({a, b}) /\ Len(Append(<<a>>, b)) = 2
        /\ Append(<<a>>, b)[1] = a /\ Append(<<a>>, b)[2] = b
    BY <2>1
  <2>3. QED BY <2>2, TwoLong
<1>3. Tail(<<a>>) = <<>> /\ Tail(<<a, b>>) = <<b>> OBVIOUS
<1>4. QED BY <1>1, <1>2, <1>3

LEMMA PiecesOfStreams ==
  ASSUME NEW a, NEW b
  PROVE  /\ SubSeq(<<>>, 1, 0) = <<>> /\ SubSeq(<<a>>, 1, 0) = <<>>
         /\ SubSeq(<<a, b>>, 1, 0) = <<>> /\ SubSeq(<<a>>, 2, 1) = <<>>
         /\ SubSeq(<<a>>, 1, 1) = <<a>> /\ SubSeq(<<a, b>>, 1, 1) = <<a>>
         /\ SubSeq(<<a, b>>, 2, 2) = <<b>> /\ SubSeq(<<a, b>>, 1, 2) = <<a, b>>
<1> DEFINE S == {a, b}
<1>1. SubSeq(<<>>, 1, 0) = <<>> /\ SubSeq(<<a>>, 1, 0) = <<>> BY SubSeqEmpty
<1>2. SubSeq(<<a, b>>, 1, 0) = <<>> /\ SubSeq(<<a>>, 2, 1) = <<>> BY SubSeqEmpty
<1>3. /\ \A i \in 1 .. 1 : <<a>>[i] \in S
      /\ \A i \in 1 .. 1 : <<a, b>>[i] \in S
      /\ \A i \in 2 .. 2 : <<a, b>>[i] \in S
      /\ \A i \in 1 .. 2 : <<a, b>>[i] \in S
  OBVIOUS
<1> HIDE DEF S
<1>4. SubSeq(<<a>>, 1, 1) = <<a>>
  <2>1. /\ SubSeq(<<a>>, 1, 1) \in Seq(S) /\ Len(SubSeq(<<a>>, 1, 1)) = 1
        /\ SubSeq(<<a>>, 1, 1)[1] = a
    BY <1>3, SubSeqProperties
  <2>2. QED BY <2>1, OneLong
<1>5. SubSeq(<<a, b>>, 1, 1) = <<a>>
  <2>1. /\ SubSeq(<<a, b>>, 1, 1) \in Seq(S) /\ Len(SubSeq(<<a, b>>, 1, 1)) = 1
        /\ SubSeq(<<a, b>>, 1, 1)[1] = a
    BY <1>3, SubSeqProperties
  <2>2. QED BY <2>1, OneLong
<1>6. SubSeq(<<a, b>>, 2, 2) = <<b>>
  <2>1. /\ SubSeq(<<a, b>>, 2, 2) \in Seq(S) /\ Len(SubSeq(<<a, b>>, 2, 2)) = 1
        /\ SubSeq(<<a, b>>, 2, 2)[1] = b
    BY <1>3, SubSeqProperties
  <2>2. QED BY <2>1, OneLong
<1>7. SubSeq(<<a, b>>, 1, 2) = <<a, b>>
  <2>1. /\ SubSeq(<<a, b>>, 1, 2) \in Seq(S) /\ Len(SubSeq(<<a, b>>, 1, 2)) = 2
        /\ SubSeq(<<a, b>>, 1, 2)[1] = a /\ SubSeq(<<a, b>>, 1, 2)[2] = b
    BY <1>3, SubSeqProperties
  <2>2. QED BY <2>1, TwoLong
<1>8. QED BY <1>1, <1>2, <1>4, <1>5, <1>6, <1>7

LEMMA KindsOfMessages ==
  ASSUME NEW c, NEW d
  PROVE  /\ Starts(c).type = "start" /\ Ends(c).type = "end" /\ GameData(c).type = "data"
         /\ Starts(c).level = c /\ Ends(c).level = c /\ GameData(c).level = c
         /\ Ends(c) # GameData(d) /\ Starts(c) # GameData(d)
BY DEF Starts, Ends, Command, GameData

LEMMA PlacesDiffer ==
  ASSUME NEW p, NEW c
  PROVE  /\ At(p, c).at = p /\ At(p, c).level = c /\ Away.at = "away"
         /\ p # "away" => At(p, c) # Away
         /\ \A next : [At(p, c) EXCEPT !.at = next] = At(next, c)
BY DEF At, Away

\* A piece of what was sent is what may be left when the gatherer goes.
LEMMA GathererGoesAway ==
  ASSUME GoesAway, NEW a, NEW b
  PROVE  /\ remote' = Away
         /\ stream = <<>> => stream' = <<>>
         /\ stream = <<a>> => stream' \in {<<>>, <<a>>}
         /\ stream = <<a, b>> => stream' \in {<<>>, <<a>>, <<a, b>>}
<1>1. PICK n \in 0 .. Len(stream) : stream' = SubSeq(stream, 1, n) BY DEF GoesAway
<1>2. CASE stream = <<>>
  <2>1. n = 0 BY <1>1, <1>2
  <2>2. stream' = <<>> BY <1>1, <1>2, <2>1, PiecesOfStreams
  <2>3. QED BY <1>2, <2>2, ShortStreams DEF GoesAway
<1>3. CASE stream = <<a>>
  <2>1. n \in {0, 1} BY <1>1, <1>3, ShortStreams
  <2>2. stream' \in {<<>>, <<a>>} BY <1>1, <1>3, <2>1, PiecesOfStreams
  <2>3. <<a>> # <<>> /\ <<a>> # <<a, b>> BY ShortStreams
  <2>4. QED BY <1>3, <2>2, <2>3 DEF GoesAway
<1>4. CASE stream = <<a, b>>
  <2>1. n \in {0, 1, 2} BY <1>1, <1>4, ShortStreams
  <2>2. stream' \in {<<>>, <<a>>, <<a, b>>} BY <1>1, <1>4, <2>1, PiecesOfStreams
  <2>3. <<a, b>> # <<>> /\ <<a>> # <<a, b>> BY ShortStreams
  <2>4. QED BY <1>4, <2>2, <2>3 DEF GoesAway
<1>5. QED BY <1>2, <1>3, <1>4 DEF GoesAway

\* What the gatherer does next, from where he is.
LEMMA GathererMoves ==
  ASSUME Gatherer
  PROVE  /\ UNCHANGED <<main, alone, game, gatherer, held, ended>>
         /\ \/ /\ main = "waiting" /\ remote = Away /\ remote' = At("asking", game + 1)
               /\ stream' = stream
            \/ \E c : /\ remote.at = "accepted" /\ c = remote.level
                      /\ remote' = [remote EXCEPT !.at = "waits"]
                      /\ stream' = Append(stream, GameData(c))
            \/ \E c : /\ remote.at = "gathers" /\ c = remote.level
                      /\ remote' = [remote EXCEPT !.at = "starts"]
                      /\ stream' = Append(stream, Starts(c))
            \/ \E c : /\ remote.at = "plays" /\ c = remote.level
                      /\ remote' = [remote EXCEPT !.at = "ended"]
                      /\ stream' = Append(stream, Ends(c))
            \/ \E c : /\ remote.at = "ended" /\ c = remote.level
                      /\ remote' = At("waits", c + 1)
                      /\ stream' = Append(stream, GameData(c + 1))
            \/ GoesAway
<1>1. UNCHANGED <<main, alone, game, gatherer, held, ended>>
  BY DEF Gatherer, Asks, Sends, SendsGame, StartsGame, EndsGame, ChangesLevel, GoesAway,
         gathererRest, sessionRest, boundVars
<1>2. QED
  BY <1>1 DEF Gatherer, Asks, Sends, SendsGame, StartsGame, EndsGame, ChangesLevel, Starts, Ends, At

LEMMA GathererKeepsPlaying ==
  ASSUME Gatherer, main # "waiting", NEW c \in Nat, Playing(c)
  PROVE  Playing(c)' /\ (Unread(c) => Unread(c)')
<1> DEFINE a == Ends(c)
           b == GameData(c + 1)
<1>1. \/ remote = At("plays", c) /\ stream = <<>>
      \/ remote = At("ended", c) /\ stream \in {<<>>, <<a>>}
      \/ remote = At("waits", c + 1) /\ stream \in {<<b>>, <<a, b>>}
      \/ remote = Away /\ stream \in {<<>>, <<a>>, <<b>>, <<a, b>>}
  BY DEF Playing
<1>2. a # b BY KindsOfMessages
<1>3. CASE GoesAway
  <2>1. remote' = Away /\ remote'.at = "away" BY <1>3, GathererGoesAway DEF Away
  <2>2. CASE stream = <<>>
    <3>1. stream' = <<>> BY <1>3, <2>2, GathererGoesAway
    <3>2. QED BY <2>1, <3>1 DEF Playing, Unread
  <2>3. CASE stream = <<a>>
    <3>1. stream' \in {<<>>, <<a>>} BY <1>3, <2>3, GathererGoesAway
    <3>2. QED BY <2>1, <3>1, ShortStreams DEF Playing, Unread
  <2>4. CASE stream = <<b>>
    <3>1. stream' \in {<<>>, <<b>>} BY <1>3, <2>4, GathererGoesAway
    <3>2. ~Unread(c) BY <1>2, <2>4, ShortStreams DEF Unread
    <3>3. QED BY <2>1, <3>1, <3>2 DEF Playing
  <2>5. CASE stream = <<a, b>>
    <3>1. stream' \in {<<>>, <<a>>, <<a, b>>} BY <1>3, <2>5, GathererGoesAway
    <3>2. QED BY <2>1, <3>1, ShortStreams DEF Playing, Unread
  <2>6. QED BY <1>1, <2>2, <2>3, <2>4, <2>5
<1>4. CASE ~GoesAway
  <2>1. CASE remote = At("plays", c) /\ stream = <<>>
    <3>1. remote' = At("ended", c) /\ stream' = Append(stream, Ends(c))
      BY <1>4, <2>1, GathererMoves, PlacesDiffer
    <3>2. stream' = <<a>> BY <2>1, <3>1, ShortStreams
    <3>3. QED BY <3>1, <3>2, ShortStreams, PlacesDiffer DEF Playing, Unread
  <2>2. CASE remote = At("ended", c) /\ stream \in {<<>>, <<a>>}
    <3>1. remote' = At("waits", c + 1) /\ stream' = Append(stream, b)
      BY <1>4, <2>2, GathererMoves, PlacesDiffer
    <3>2. stream = <<>> => stream' = <<b>> BY <3>1, ShortStreams
    <3>3. stream = <<a>> => stream' = <<a, b>> BY <3>1, ShortStreams
    <3>4. Playing(c)' BY <2>2, <3>1, <3>2, <3>3 DEF Playing
    <3>5. Unread(c) => stream = <<a>> BY <2>2, PlacesDiffer DEF Unread
    <3>6. QED BY <3>1, <3>3, <3>4, <3>5, ShortStreams DEF Unread
  <2>3. CASE remote = At("waits", c + 1) BY <1>4, <2>3, GathererMoves, PlacesDiffer
  <2>4. CASE remote = Away BY <1>4, <2>4, GathererMoves, PlacesDiffer
  <2>5. QED BY <1>1, <2>1, <2>2, <2>3, <2>4
<1>5. QED BY <1>3, <1>4

LEMMA StagesSend ==
  ASSUME AtItsStage, game \in Nat
  PROVE  NextIsSent
<1> USE ShortStreams, PlacesDiffer
<1>1. ASSUME NEW c, HasData(c) \/ Changes(c) PROVE NextIsSent
  BY <1>1 DEF HasData, Changes, NextIsSent, At, Away
<1>2. ASSUME NEW c, Fetches(c) \/ Gathers(c) PROVE NextIsSent
  <2>1. remote.at # "waits" \/ (remote.level = c /\ stream = <<GameData(c)>>)
    BY <1>2 DEF Fetches, Gathers, At, Away
  <2>2. QED BY <2>1 DEF NextIsSent
<1>3. ASSUME NEW c \in Nat, Playing(c) PROVE NextIsSent
  <2> DEFINE d == GameData(c + 1)
  <2>1. \/ remote.at # "waits"
        \/ remote.level = c + 1 /\ stream \in {<<d>>, <<Ends(c), d>>}
    BY <1>3 DEF Playing, At, Away
  <2>2. stream = <<d>> => 1 \in 1 .. Len(stream) /\ stream[1] = d OBVIOUS
  <2>3. stream = <<Ends(c), d>> => 2 \in 1 .. Len(stream) /\ stream[2] = d OBVIOUS
  <2>4. QED BY <2>1, <2>2, <2>3 DEF NextIsSent
<1>4. ASSUME Unclaimed PROVE NextIsSent
  BY <1>4 DEF Unclaimed, NextIsSent, At, Away
<1>5. /\ game + 1 \in Nat
      /\ \/ Unclaimed \/ HasData(game + 1) \/ Changes(game + 1)
         \/ Fetches(game + 1) \/ Gathers(game + 1) \/ Playing(game) \/ Playing(game + 1)
         \/ NextIsSent
  BY DEF AtItsStage, Outside, Unwinding
<1>6. QED BY <1>1, <1>2, <1>3, <1>4, <1>5, Zenon

\* Where the rest of the session takes the main thread of a standalone hub.
LEMMA SessionMoves ==
  ASSUME Next, alone, AtItsStage
  PROVE  /\ main # "crashed"
         /\ \/ UNCHANGED <<main, game>>
            \/ main' = "crashed" /\ game' = game
            \/ main = "ready" /\ main' = "sync_hub" /\ game' = game + 1
            \/ main = "sync_hub" /\ main' = "synced" /\ game' = game
            \/ {main, main'} = {"playing", "taking"} /\ game' = game
            \/ main \in Unwinding /\ main' \in Unwinding /\ game' = game
            \/ main \in Outside \ {"waiting"} /\ main' \in Outside /\ game' = game
            \/ main = "out" /\ main' = "waiting" /\ game' = game
<1> USE DEF boundVars, MainGoes, Unwinding, Outside
<1>1. main # "crashed" BY DEF Next
<1>2. main \notin {"connecting", "joined", "failed", "join_spoke", "clear_spoke", "sync_spoke",
                   "sync_active"}
  BY DEF AtItsStage
<1>3. CASE Gather BY <1>1, <1>3 DEF Gather, Enter
<1>4. CASE (\E n \in Name : JoinByName(n)) \/ JoinBySearch \/ StopSpoke
  BY <1>4 DEF JoinByName, JoinBySearch, StopSpoke
<1>5. CASE Retarget \/ NetUpdateJoinState \/ ListeningChanges \/ Gathered
  BY <1>2, <1>5 DEF Retarget, NetUpdateJoinState, TryHost, HostConnected, HostRefused,
     ListeningChanges, Gathered
<1>6. CASE Sync
  BY <1>1, <1>2, <1>6 DEF Sync, SyncQueues, SyncHub, SyncSpoke, SyncActive, gameRest
<1>7. CASE ReadFlags \/ TakeFlags
  BY <1>1, <1>7 DEF ReadFlags, TakeFlags, playRest
<1>8. CASE UnSync
  BY <1>1, <1>2, <1>8 DEF UnSync, JoinTask, Clear, StopHub, endRest
<1>9. CASE StopListening \/ NetExit
  BY <1>1, <1>9 DEF StopListening, NetExit, CloseSocket, ResetInterface, exitRest
<1>10. CASE Crash BY <1>1, <1>10 DEF Crash
<1>11. CASE \/ \E s \in Slot : PoolThread(s)
            \/ PacketArrives \/ ReceiverEnds \/ PacketBegins
            \/ \E t \in Task : TaskWakesUp(t) \/ TickBegins(t)
            \/ Callback \/ HubCompletes
  BY <1>1, <1>11 DEF PoolThread, PacketArrives, ReceiverEnds, PacketBegins, TaskWakesUp, TickBegins,
     Callback, Deliver, Store, Finish, GiveUpHub, Returns, HubCompletes, callRest
<1>12. QED
  BY <1>3, <1>4, <1>5, <1>6, <1>7, <1>8, <1>9, <1>10, <1>11 DEF Next

LEMMA SessionKeepsLevels ==
  ASSUME LevelsInv, alone, Next, UNCHANGED hubVars
  PROVE  game' \in Nat /\ AtItsStage'
<1> USE DEF Unwinding, Outside
<1>1. /\ AtItsStage /\ game \in Nat
      /\ UNCHANGED <<gatherer, held, ended, stream, remote>>
  BY DEF LevelsInv, hubVars
<1>2. /\ \A c : /\ Fetches(c)' <=> Fetches(c)
                /\ Gathers(c)' <=> Gathers(c)
                /\ HasData(c)' <=> HasData(c)
                /\ Changes(c)' <=> Changes(c)
                /\ Playing(c)' <=> Playing(c)
                /\ Unread(c)' <=> Unread(c)
      /\ NextIsSent' <=> NextIsSent
  BY <1>1 DEF Fetches, Gathers, HasData, Changes, Playing, Unread, NextIsSent
<1>3. NextIsSent BY <1>1, StagesSend
<1>4. CASE UNCHANGED <<main, game>>
  BY <1>1, <1>2, <1>4 DEF AtItsStage, Unclaimed
<1>5. CASE main' = "crashed" /\ game' = game
  BY <1>1, <1>2, <1>3, <1>5, SessionMoves DEF AtItsStage
<1>6. CASE main = "ready" /\ main' = "sync_hub" /\ game' = game + 1
  BY <1>1, <1>2, <1>6 DEF AtItsStage
<1>7. CASE main = "sync_hub" /\ main' = "synced" /\ game' = game
  BY <1>1, <1>2, <1>7 DEF AtItsStage
<1>8. CASE {main, main'} = {"playing", "taking"} /\ game' = game
  BY <1>1, <1>2, <1>8 DEF AtItsStage
<1>9. CASE main \in Unwinding /\ main' \in Unwinding /\ game' = game
  BY <1>1, <1>2, <1>9 DEF AtItsStage
<1>10. CASE main \in Outside \ {"waiting"} /\ main' \in Outside /\ game' = game
  BY <1>1, <1>2, <1>10 DEF AtItsStage, Unclaimed
<1>11. CASE main = "out" /\ main' = "waiting" /\ game' = game
  BY <1>1, <1>2, <1>11 DEF AtItsStage, Unclaimed
<1>12. QED
  BY <1>1, <1>4, <1>5, <1>6, <1>7, <1>8, <1>9, <1>10, <1>11, SessionMoves

LEMMA GathererKeepsStages ==
  ASSUME Gatherer, main # "waiting", NEW c
  PROVE  /\ Fetches(c) => Fetches(c)'
         /\ HasData(c) => HasData(c)'
         /\ Gathers(c) => Gathers(c)'
         /\ Changes(c) => Changes(c)'
<1>1. UNCHANGED held BY GathererMoves
<1>2. CASE GoesAway
  <2>1. remote' = Away BY <1>2, GathererGoesAway
  <2>2. ASSUME NEW a, stream \in {<<>>, <<a>>} PROVE stream' \in {<<>>, <<a>>}
    <3>1. CASE stream = <<>> BY <1>2, <3>1, GathererGoesAway
    <3>2. CASE stream = <<a>> BY <1>2, <3>2, GathererGoesAway
    <3>3. QED BY <2>2, <3>1, <3>2
  <2>3. Fetches(c) => Fetches(c)' BY <2>1, <2>2 DEF Fetches
  <2>4. Gathers(c) => Gathers(c)' BY <2>1, <2>2 DEF Gathers
  <2>5. stream = <<>> => stream' = <<>> BY <1>2, GathererGoesAway
  <2>6. QED BY <1>1, <2>1, <2>3, <2>4, <2>5 DEF HasData, Changes
<1>3. CASE ~GoesAway
  <2>1. ASSUME remote = Away \/ remote = At("waits", c) \/ remote = At("starts", c) PROVE FALSE
    BY <1>3, <2>1, GathererMoves, PlacesDiffer
  <2>2. CASE remote = At("accepted", c) /\ stream = <<>>
    <3>1. remote' = At("waits", c) /\ stream' = Append(stream, GameData(c))
      BY <1>3, <2>2, GathererMoves, PlacesDiffer
    <3>2. stream' = <<GameData(c)>> BY <2>2, <3>1, ShortStreams
    <3>3. Fetches(c)' BY <3>1, <3>2 DEF Fetches
    <3>4. ~HasData(c) /\ ~Gathers(c) /\ ~Changes(c)
      BY <2>2 DEF HasData, Gathers, Changes, At, Away
    <3>5. QED BY <3>3, <3>4
  <2>3. CASE remote = At("gathers", c) /\ stream = <<>>
    <3>1. remote' = At("starts", c) /\ stream' = Append(stream, Starts(c))
      BY <1>3, <2>3, GathererMoves, PlacesDiffer
    <3>2. stream' = <<Starts(c)>> BY <2>3, <3>1, ShortStreams
    <3>3. Gathers(c)' BY <3>1, <3>2 DEF Gathers
    <3>4. ~HasData(c) /\ ~Fetches(c) /\ ~Changes(c)
      BY <2>3 DEF HasData, Fetches, Changes, At, Away
    <3>5. QED BY <3>3, <3>4
  <2>4. QED BY <2>1, <2>2, <2>3 DEF Fetches, HasData, Gathers, Changes
<1>4. QED BY <1>2, <1>3

LEMMA GathererKeepsLevels ==
  ASSUME LevelsInv, alone, main # "crashed", Gatherer
  PROVE  game' \in Nat /\ AtItsStage'
<1>1. /\ AtItsStage /\ game \in Nat /\ game + 1 \in Nat
      /\ UNCHANGED <<main, game, gatherer, held, ended>>
  BY GathererMoves DEF LevelsInv
<1>2. CASE main = "waiting"
  <2>1. stream = <<>> /\ (remote = Away \/ remote = At("asking", game + 1))
    BY <1>1, <1>2 DEF AtItsStage, Unclaimed, Outside
  <2>2. stream' = <<>> /\ (remote' = Away \/ remote' = At("asking", game + 1))
    BY <2>1, GathererMoves, GathererGoesAway, PlacesDiffer
  <2>3. QED BY <1>1, <1>2, <2>2 DEF AtItsStage, Unclaimed, Outside, Unwinding
<1>3. CASE main # "waiting"
  <2>1. Unclaimed => Unclaimed'
    BY <1>1, <1>3, GathererMoves, GathererGoesAway, PlacesDiffer DEF Unclaimed
  <2>2. \A c \in Nat : /\ Playing(c) => Playing(c)'
                       /\ Playing(c) /\ Unread(c) => Unread(c)'
    BY <1>3, GathererKeepsPlaying
  <2>3. \A c \in Nat : /\ Fetches(c) => Fetches(c)'
                       /\ HasData(c) => HasData(c)'
                       /\ Gathers(c) => Gathers(c)'
                       /\ Changes(c) => Changes(c)'
    BY <1>3, GathererKeepsStages
  <2>4. QED BY <1>1, <1>3, <2>1, <2>2, <2>3 DEF AtItsStage
<1>4. QED BY <1>2, <1>3

\* The end of a level is the last message that is dispatched.
LEMMA EndIsDispatched ==
  ASSUME NEW c, NEW s, Len(s) \in Nat, Len(s) >= 1, s[1] = Ends(c)
  PROVE  Dispatched(s) = 1
<1> DEFINE ends == {i \in 1 .. Len(s) : s[i].type = "end"}
<1>1. 1 \in ends /\ \A j \in ends : j \in Nat /\ 1 <= j BY KindsOfMessages
<1>2. Dispatched(s) = CHOOSE i \in ends : \A j \in ends : i <= j BY <1>1 DEF Dispatched
<1> HIDE DEF ends
<1>3. \A i \in ends : (\A j \in ends : i <= j) => i = 1 BY <1>1
<1>4. QED BY <1>1, <1>2, <1>3

LEMMA HubReadsItsGame ==
  ASSUME LevelsInv, alone, GetGameDataFromGatherer
  PROVE  AtItsStage'
<1> USE DEF Outside, Unwinding
<1> DEFINE c == game + 1
<1>1. /\ AtItsStage /\ game \in Nat /\ main = "fetching" /\ held = 0
      /\ IF gatherer = "talking" THEN Fetches(c) ELSE Playing(game)
      /\ stream # <<>> /\ stream' = Tail(stream)
      /\ UNCHANGED <<game, gatherer, ended, remote>>
  BY DEF LevelsInv, AtItsStage, GetGameDataFromGatherer, sessionRest, boundVars
<1>2. \A d : Head(stream) = GameData(d) =>
               /\ held' = d
               /\ main' = IF gatherer = "talking" THEN "setup" ELSE "changing"
  BY KindsOfMessages DEF GetGameDataFromGatherer
<1>3. CASE gatherer = "talking"
  <2>1. stream = <<GameData(c)>> /\ remote \in {Away, At("waits", c)}
    BY <1>1, <1>3, ShortStreams DEF Fetches
  <2>2. held' = c /\ main' = "setup" /\ stream' = <<>> BY <1>1, <1>2, <1>3, <2>1, ShortStreams
  <2>3. HasData(c)' BY <1>1, <2>1, <2>2 DEF HasData
  <2>4. QED BY <1>1, <1>3, <2>2, <2>3 DEF AtItsStage
<1>4. CASE gatherer # "talking"
  <2>1. CASE stream = <<GameData(c)>>
    <3>1. held' = c /\ main' = "changing" /\ stream' = <<>> BY <1>1, <1>2, <1>4, <2>1, ShortStreams
    <3>2. stream # <<Ends(game)>> BY <2>1, ShortStreams, KindsOfMessages
    <3>3. remote \in {Away, At("waits", c)} BY <1>1, <1>4, <2>1, <3>2, ShortStreams DEF Playing
    <3>4. Changes(c)' BY <1>1, <3>1, <3>3 DEF Changes
    <3>5. QED BY <1>1, <1>4, <3>1, <3>4 DEF AtItsStage
  <2>2. CASE stream # <<GameData(c)>>
    <3>1. stream \in {<<Ends(game)>>, <<Ends(game), GameData(c)>>}
      BY <1>1, <1>4, <2>2 DEF Playing
    <3>2. Head(stream) = Ends(game) BY <3>1, ShortStreams
    <3>3. held' = 0 /\ main' = "fetching"
      BY <1>1, <3>2, KindsOfMessages DEF GetGameDataFromGatherer
    <3>4. Playing(game)'
      <4> DEFINE a == Ends(game)
                 b == GameData(c)
      <4>1. <<a>> # <<>> /\ <<a>> # <<b>> /\ <<a>> # <<a, b>> /\ <<a, b>> # <<>> /\ <<a, b>> # <<b>>
        BY ShortStreams, KindsOfMessages
      <4>2. stream = <<a>> => stream' = <<>> BY <1>1, ShortStreams
      <4>3. stream = <<a, b>> => stream' = <<b>> BY <1>1, ShortStreams
      <4>4. CASE stream = <<a>> BY <1>1, <1>4, <4>1, <4>2, <4>4 DEF Playing
      <4>5. CASE stream = <<a, b>> BY <1>1, <1>4, <4>1, <4>3, <4>5 DEF Playing
      <4>6. QED BY <3>1, <4>4, <4>5
    <3>5. QED BY <1>1, <1>4, <3>3, <3>4 DEF AtItsStage
  <2>3. QED BY <2>1, <2>2
<1>5. QED BY <1>3, <1>4

LEMMA HubHearsTheEnd ==
  ASSUME LevelsInv, alone, NetProcessMessagesInGame
  PROVE  AtItsStage'
<1> USE DEF Outside, Unwinding
<1> DEFINE a == Ends(game)
           b == GameData(game + 1)
<1>1. /\ AtItsStage /\ game \in Nat /\ main = "playing" /\ held = game
      /\ game # 0
      /\ Playing(game) /\ Unread(game) /\ stream # <<>>
      /\ UNCHANGED <<game, main, gatherer, held, remote>>
  BY DEF LevelsInv, AtItsStage, NetProcessMessagesInGame, sessionRest, boundVars
<1>2. stream[1] = a /\ stream \in {<<a>>, <<a, b>>}
  <2>1. stream[1] = a BY <1>1 DEF Unread
  <2>2. stream # <<b>> BY <2>1, ShortStreams, KindsOfMessages
  <2>3. QED BY <1>1, <2>1, <2>2 DEF Playing
<1>3. PICK come \in 1 .. Len(stream) :
        LET n == Dispatched(SubSeq(stream, 1, come))
        IN /\ stream' = SubSeq(stream, n + 1, Len(stream))
           /\ ended' = IF stream[n].type = "end" THEN stream[n].level ELSE 0
  BY DEF NetProcessMessagesInGame
<1>4. SubSeq(stream, 1, come) \in {<<a>>, <<a, b>>}
  <2>1. stream = <<a>> => come = 1 BY ShortStreams
  <2>2. stream = <<a, b>> => come \in {1, 2} BY ShortStreams
  <2>3. QED BY <1>2, <2>1, <2>2, PiecesOfStreams
<1>5. Dispatched(SubSeq(stream, 1, come)) = 1
  <2> DEFINE s == SubSeq(stream, 1, come)
  <2>1. s \in {<<a>>, <<a, b>>} BY <1>4
  <2> HIDE DEF s
  <2>2. Len(s) \in {1, 2} /\ s[1] = a BY <2>1, ShortStreams
  <2>3. Len(s) \in Nat /\ Len(s) >= 1 BY <2>2
  <2>4. Dispatched(s) = 1 BY <2>2, <2>3, EndIsDispatched
  <2>5. QED BY <2>4 DEF s
<1>6. /\ stream' = SubSeq(stream, 2, Len(stream))
      /\ ended' = IF stream[1].type = "end" THEN stream[1].level ELSE 0
  BY <1>3, <1>5
<1>7. ended' = game BY <1>2, <1>6, KindsOfMessages
<1>8. /\ stream = <<a>> => stream' = <<>>
      /\ stream = <<a, b>> => stream' = <<b>>
  <2>1. stream = <<a>> => Len(stream) = 1 BY ShortStreams
  <2>2. stream = <<a, b>> => Len(stream) = 2 BY ShortStreams
  <2>3. QED BY <1>6, <2>1, <2>2, PiecesOfStreams
<1>9. <<a>> # <<>> /\ <<a>> # <<b>> /\ <<a>> # <<a, b>> /\ <<a, b>> # <<>> /\ <<a, b>> # <<b>>
  BY ShortStreams, KindsOfMessages
<1>10. Playing(game)'
  <2>1. CASE stream = <<a>> BY <1>1, <1>8, <1>9, <2>1 DEF Playing
  <2>2. CASE stream = <<a, b>> BY <1>1, <1>8, <1>9, <2>2 DEF Playing
  <2>3. QED BY <1>2, <2>1, <2>2
<1>11. QED BY <1>1, <1>7, <1>10 DEF AtItsStage

LEMMA MainLoopKeepsLevels ==
  ASSUME LevelsInv, alone, MainLoop
  PROVE  game' \in Nat /\ AtItsStage'
<1> USE PlacesDiffer DEF Outside, Unwinding, MainGoes, Hears
<1>1. AtItsStage /\ game \in Nat /\ game' = game
  BY DEF LevelsInv, MainLoop, WaitForGatherer, GetGameDataFromGatherer, GivesUp, SetupGathererGame,
     GatherJoiners, NetChangeMap, HubGoesOn, NetProcessMessagesInGame, GameIsOver, NextGame,
     Reset, sessionRest, boundVars
<1>2. CASE WaitForGatherer
  <2>1. main = "waiting" /\ remote = At("asking", game + 1) /\ stream = <<>>
    BY <1>1, <1>2, PlacesDiffer DEF WaitForGatherer, AtItsStage, Unclaimed, Away
  <2>2. CASE main' = "fetching"
    <3>1. /\ gatherer' = "talking" /\ held' = 0 /\ stream' = <<>>
          /\ remote' = At("accepted", game + 1)
      BY <1>2, <2>1, <2>2 DEF WaitForGatherer
    <3>2. Fetches(game + 1)' BY <1>1, <3>1 DEF Fetches
    <3>3. QED BY <1>1, <2>2, <3>1, <3>2 DEF AtItsStage
  <2>3. CASE main' # "fetching"
    BY <1>1, <1>2, <2>1, <2>3 DEF WaitForGatherer, AtItsStage, Unclaimed
  <2>4. QED BY <2>2, <2>3
<1>3. CASE GetGameDataFromGatherer BY <1>1, <1>3, HubReadsItsGame
<1>4. CASE GivesUp
  <2>1. UNCHANGED <<gatherer, held, ended, stream, remote>> /\ main' = "reset"
    BY <1>4 DEF GivesUp, hubVars
  <2>2. Fetches(game + 1) \/ Gathers(game + 1) \/ Playing(game)
    BY <1>1, <1>4 DEF GivesUp, AtItsStage
  <2>3. Fetches(game + 1)' \/ Gathers(game + 1)' \/ Playing(game)'
    BY <1>1, <2>1, <2>2 DEF Fetches, Gathers, Playing
  <2>4. QED BY <1>1, <2>1, <2>3 DEF AtItsStage
<1>5. CASE SetupGathererGame
  <2>1. held = game + 1 /\ stream = <<>> /\ remote \in {Away, At("waits", game + 1)}
    BY <1>1, <1>5 DEF SetupGathererGame, AtItsStage, HasData
  <2>2. /\ held' = game + 1 /\ stream' = <<>> /\ remote' \in {Away, At("gathers", game + 1)}
        /\ main' = "gathering" /\ gatherer' = "client"
    BY <1>5, <2>1 DEF SetupGathererGame
  <2>3. Gathers(game + 1)' BY <1>1, <2>2 DEF Gathers
  <2>4. QED BY <1>1, <2>2, <2>3 DEF AtItsStage
<1>6. CASE GatherJoiners
  <2>1. /\ held = game + 1 /\ gatherer # "talking" /\ stream = <<Starts(game + 1)>>
        /\ remote \in {Away, At("starts", game + 1)}
    BY <1>1, <1>6, ShortStreams DEF GatherJoiners, AtItsStage, Gathers
  <2>2. /\ held' = game + 1 /\ stream' = <<>> /\ main' = "changing"
        /\ UNCHANGED <<remote, gatherer>>
    BY <1>6, <2>1, ShortStreams DEF GatherJoiners
  <2>3. Changes(game + 1)' BY <1>1, <2>1, <2>2 DEF Changes
  <2>4. QED BY <1>1, <2>1, <2>2, <2>3 DEF AtItsStage
<1>7. CASE NetChangeMap
  <2>1. /\ held = game + 1 /\ gatherer # "talking" /\ stream = <<>>
        /\ remote \in {Away, At("starts", game + 1), At("waits", game + 1)}
    BY <1>1, <1>7 DEF NetChangeMap, AtItsStage, Changes
  <2>2. /\ held' = game + 1 /\ stream' = <<>> /\ main' = "ready" /\ gatherer' = gatherer
        /\ remote' \in {Away, At("plays", game + 1)}
    BY <1>7, <2>1 DEF NetChangeMap
  <2>3. Playing(game + 1)' BY <1>1, <2>2 DEF Playing
  <2>4. Unread(game + 1)' BY <1>1, <2>2 DEF Unread, Away
  <2>5. QED BY <1>1, <2>1, <2>2, <2>3, <2>4 DEF AtItsStage
<1>8. CASE HubGoesOn
  <2>1. game # 0 /\ held = game /\ Playing(game) /\ Unread(game) /\ gatherer # "talking"
    BY <1>1, <1>8 DEF HubGoesOn, AtItsStage
  <2>2. main' = "playing" /\ ended' = 0 /\ UNCHANGED <<gatherer, held, stream, remote>>
    BY <1>8 DEF HubGoesOn
  <2>3. Playing(game)' /\ Unread(game)' BY <1>1, <2>1, <2>2 DEF Playing, Unread
  <2>4. QED BY <1>1, <2>1, <2>2, <2>3 DEF AtItsStage
<1>9. CASE NetProcessMessagesInGame BY <1>1, <1>9, HubHearsTheEnd
<1>10. CASE GameIsOver \/ NextGame
  <2>1. Playing(game) /\ gatherer # "talking"
    BY <1>1, <1>10 DEF GameIsOver, NextGame, AtItsStage
  <2>2. /\ UNCHANGED <<gatherer, stream, remote>>
        /\ main' = "wind_down" \/ (main' = "fetching" /\ held' = 0)
    BY <1>10 DEF GameIsOver, NextGame, hubVars
  <2>3. Playing(game)' BY <1>1, <2>1, <2>2 DEF Playing
  <2>4. QED BY <1>1, <2>1, <2>2, <2>3 DEF AtItsStage
<1>11. CASE Reset BY <1>1, <1>11 DEF Reset, AtItsStage, Unclaimed
<1>12. QED
  BY <1>1, <1>2, <1>3, <1>4, <1>5, <1>6, <1>7, <1>8, <1>9, <1>10, <1>11 DEF MainLoop

LEMMA AloneStays ==
  ASSUME [HubNext]_allVars
  PROVE  alone' = alone /\ game' \in {game, game + 1}
<1> USE DEF boundVars, joinRest
<1>1. CASE UNCHANGED allVars BY <1>1 DEF allVars, vars
<1>2. CASE Next
  <2>1. CASE \/ Gather \/ (\E n \in Name : JoinByName(n)) \/ JoinBySearch
             \/ Retarget \/ NetUpdateJoinState \/ ListeningChanges \/ Gathered
    BY <2>1 DEF Gather, JoinByName, JoinBySearch, Enter, Retarget, NetUpdateJoinState, TryHost,
       HostConnected, HostRefused, ListeningChanges, Gathered
  <2>2. CASE Sync \/ ReadFlags \/ TakeFlags \/ StopSpoke \/ UnSync
    BY <2>2 DEF Sync, SyncQueues, SyncHub, SyncSpoke, SyncActive, gameRest, ReadFlags, TakeFlags,
       playRest, StopSpoke, UnSync, JoinTask, Clear, StopHub, endRest
  <2>3. CASE StopListening \/ NetExit \/ Crash
    BY <2>3 DEF StopListening, NetExit, CloseSocket, ResetInterface, exitRest, Crash
  <2>4. CASE \/ \E s \in Slot : PoolThread(s)
             \/ PacketArrives \/ ReceiverEnds \/ PacketBegins
             \/ \E t \in Task : TaskWakesUp(t) \/ TickBegins(t)
             \/ Callback \/ HubCompletes
    BY <2>4 DEF PoolThread, PacketArrives, ReceiverEnds, PacketBegins, TaskWakesUp, TickBegins,
       Callback, Deliver, Store, Finish, GiveUpHub, Returns, HubCompletes, callRest
  <2>5. QED BY <1>2, <2>1, <2>2, <2>3, <2>4 DEF Next
<1>3. CASE MainLoop
  BY <1>3 DEF MainLoop, WaitForGatherer, GetGameDataFromGatherer, GivesUp, SetupGathererGame,
     GatherJoiners, NetChangeMap, HubGoesOn, NetProcessMessagesInGame, GameIsOver, NextGame,
     Reset, sessionRest
<1>4. CASE Gatherer BY <1>4, GathererMoves
<1>5. QED BY <1>1, <1>2, <1>3, <1>4 DEF HubNext

LEMMA LevelsKeep ==
  ASSUME LevelsInv, [HubNext]_allVars
  PROVE  LevelsInv'
<1>1. alone' = alone /\ game' \in Nat
  BY AloneStays DEF LevelsInv
<1>2. CASE alone
  <2>1. CASE UNCHANGED allVars
    BY <1>1, <1>2, <2>1 DEF LevelsInv, AtItsStage, Unclaimed, Fetches, HasData, Gathers, Changes,
       Playing, Unread, NextIsSent, allVars, hubVars, vars, boundVars
  <2>2. CASE Next /\ UNCHANGED hubVars BY <1>1, <1>2, <2>2, SessionKeepsLevels DEF LevelsInv
  <2>3. CASE main # "crashed" /\ MainLoop
    BY <1>1, <1>2, <2>3, MainLoopKeepsLevels DEF LevelsInv
  <2>4. CASE main # "crashed" /\ Gatherer
    BY <1>1, <1>2, <2>4, GathererKeepsLevels DEF LevelsInv
  <2>5. QED BY <2>1, <2>2, <2>3, <2>4 DEF HubNext
<1>3. CASE ~alone BY <1>1, <1>3 DEF LevelsInv
<1>4. QED BY <1>2, <1>3

\* For any number of levels, however the gatherer's messages, his leaving and
\* the hub's threads interleave: the hub runs the level it was sent, no end of
\* an earlier level ends it, and the next one is not thrown away.
THEOREM LevelsAreKeptApart == HubFairSpec => []LevelsStayApart
<1>1. HubInit => LevelsInv
  BY DEF HubInit, Init, LevelsInv, AtItsStage, Unclaimed, Outside, Unwinding
<1>2. LevelsInv /\ [HubNext]_allVars => LevelsInv' BY LevelsKeep
<1>3. LevelsInv => LevelsStayApart
  <2>1. ASSUME NextIsSent, remote.at = "waits"
        PROVE held = remote.level \/
                GameData(remote.level) \in {stream[i] : i \in 1 .. Len(stream)}
    BY <2>1 DEF NextIsSent
  <2>2. LevelsInv /\ alone => NextIsSent BY StagesSend DEF LevelsInv
  <2>3. LevelsInv /\ alone =>
          /\ main \in {"sync_hub", "synced", "playing"} => held = game
          /\ main = "playing" => ended \in {0, game}
    BY DEF LevelsInv, AtItsStage
  <2>4. QED BY <2>1, <2>2, <2>3 DEF LevelsStayApart
<1>4. QED BY <1>1, <1>2, <1>3, PTL DEF HubFairSpec

----------------------------------------------------------------------------
(* The ring.                                                                *)

Places == 0 .. QueueSize - 1
Ring == [buffer : [Places -> Nat \X Nat], read : Places, write : Places]
Wrapped(n) == IF n < QueueSize THEN n ELSE n - QueueSize

Pending == given - Len(taken)

\* Where the i-th flag lies that has not been taken.
PlaceOf(i) == Wrapped(queue.read + (i - Len(taken) - 1))

RingTyped ==
  /\ given \in Nat /\ given <= MaxTicks /\ game \in Nat /\ game <= MaxGames
  /\ taken \in Seq(Nat \X Nat)
  /\ queue \in Ring

\* The ring holds the flags that were given and not taken, and no more than it
\* can; the one that is being taken is the first of them, and the one that is
\* being given comes after them and has a place of its own.
RingHolds ==
  /\ Len(taken) <= given /\ Pending <= QueueSize - 1
  /\ queue.write = Wrapped(queue.read + Pending)
  /\ \A i \in Len(taken) + 1 .. given : queue.buffer[PlaceOf(i)] = <<game, i>>
  /\ main = "taking" => Pending > 0 /\ inHand = <<game, Len(taken) + 1>>
  /\ stage = "stored" =>
       /\ given < MaxTicks /\ Pending < QueueSize - 1
       /\ queue.buffer[queue.write] = <<game, given + 1>>

\* Flags are given by callbacks that use the queue, in a game.
GivenInGame ==
  /\ stage \in {"packet", "stored"} \/ mutex = "spoke" => "queues" \in touches
  /\ main \in QueueStages => game # 0

----------------------------------------------------------------------------
(* The operators on the ring.                                               *)

LEMMA WrappedIsRemainder ==
  ASSUME NEW x \in 0 .. 2 * QueueSize - 1
  PROVE  x % QueueSize = Wrapped(x) /\ Wrapped(x) \in Places
<1> DEFINE n == QueueSize
<1>1. n \in Nat \ {0} BY QueueAssumption
<1>2. Wrapped(x) = (IF x < n THEN x ELSE x - n) /\ Places = 0 .. n - 1 /\ x \in 0 .. 2 * n - 1
  BY DEF Wrapped, Places
<1> HIDE DEF n
<1>3. CASE x < n
  <2>1. x = (n * 0) + x /\ x \in 0 .. n - 1 BY <1>1, <1>2, <1>3
  <2>2. x % n = x BY <1>1, <2>1, SMT
  <2>3. QED BY <1>2, <1>3, <2>1, <2>2 DEF n
<1>4. CASE ~(x < n)
  <2>1. x = (n * 1) + (x - n) /\ x - n \in 0 .. n - 1 BY <1>1, <1>2, <1>4
  <2>2. x % n = x - n BY <1>1, <2>1, SMT
  <2>3. QED BY <1>2, <1>4, <2>1, <2>2 DEF n
<1>5. QED BY <1>3, <1>4

LEMMA PlacesApart ==
  ASSUME NEW r \in Places, NEW i \in Places, NEW j \in Places
  PROVE  Wrapped(r + i) \in Places /\ (i # j => Wrapped(r + i) # Wrapped(r + j))
BY QueueAssumption DEF Wrapped, Places

\* The next place on.
LEMMA WrappedOn ==
  ASSUME NEW r \in Places, NEW i \in Places, i + 1 \in Places
  PROVE  /\ Wrapped(Wrapped(r + i) + 1) = Wrapped(r + i + 1)
         /\ Wrapped(Wrapped(r + 1) + i) = Wrapped(r + i + 1)
BY QueueAssumption DEF Wrapped, Places

LEMMA Counted ==
  ASSUME NEW q \in Ring, NEW n \in Places, q.write = Wrapped(q.read + n)
  PROVE  CountActionFlags(q) = n /\ AvailableCapacity(q) = QueueSize - 1 - n
<1>1. /\ QueueSize \in Nat \ {0, 1} /\ q.read \in Nat /\ q.read < QueueSize
      /\ n \in Nat /\ n < QueueSize
  BY QueueAssumption DEF Ring, Places
<1>2. q.write = Wrapped(q.read + n) OBVIOUS
<1> DEFINE x == QueueSize + q.write - q.read
<1>3. x \in {n, QueueSize + n} BY <1>1, <1>2 DEF Wrapped
<1>4. x \in 0 .. 2 * QueueSize - 1 BY <1>1, <1>3
<1>5. x % QueueSize = Wrapped(x) BY <1>4, WrappedIsRemainder
<1> HIDE DEF x
<1>6. x % QueueSize = n BY <1>1, <1>3, <1>5 DEF Wrapped
<1>7. CountActionFlags(q) = n BY <1>6 DEF CountActionFlags, x
<1>8. QED BY <1>7 DEF AvailableCapacity

LEMMA OneOn ==
  ASSUME NEW p \in Places
  PROVE  (p + 1) % QueueSize = Wrapped(p + 1) /\ Wrapped(p + 1) \in Places
<1>1. p + 1 \in 0 .. 2 * QueueSize - 1 BY QueueAssumption DEF Places
<1>2. QED BY <1>1, WrappedIsRemainder

LEMMA RingOperators ==
  ASSUME NEW q \in Ring, NEW f \in Nat \X Nat
  PROVE  /\ LET s == Stored(q, f)
            IN /\ s \in Ring /\ s.read = q.read /\ s.write = q.write
               /\ s.buffer[q.write] = f
               /\ \A p \in Places : p # q.write => s.buffer[p] = q.buffer[p]
         /\ LET s == Enqueued(q)
            IN /\ s \in Ring /\ s.read = q.read /\ s.buffer = q.buffer
               /\ s.write = Wrapped(q.write + 1)
         /\ LET s == Dequeued(q)
            IN /\ s \in Ring /\ s.write = q.write /\ s.buffer = q.buffer
               /\ s.read = Wrapped(q.read + 1)
         /\ LET s == ResetQueue(q)
            IN s \in Ring /\ s.write = 0 /\ s.read = 0
<1>1. /\ q.read \in Places /\ q.write \in Places /\ q.buffer \in [Places -> Nat \X Nat]
      /\ 0 \in Places
  BY QueueAssumption DEF Ring, Places
<1>2. /\ (q.write + 1) % QueueSize = Wrapped(q.write + 1) /\ Wrapped(q.write + 1) \in Places
      /\ (q.read + 1) % QueueSize = Wrapped(q.read + 1) /\ Wrapped(q.read + 1) \in Places
  BY <1>1, OneOn
<1>3. Stored(q, f) = [q EXCEPT !.buffer = [q.buffer EXCEPT ![q.write] = f]]
  BY <1>1 DEF Stored, Ring
<1>4. Enqueued(q) = [q EXCEPT !.write = Wrapped(q.write + 1)] BY <1>2 DEF Enqueued
<1>5. Dequeued(q) = [q EXCEPT !.read = Wrapped(q.read + 1)] BY <1>2 DEF Dequeued
<1>6. LET s == Stored(q, f)
      IN /\ s \in Ring /\ s.read = q.read /\ s.write = q.write
         /\ s.buffer[q.write] = f
         /\ \A p \in Places : p # q.write => s.buffer[p] = q.buffer[p]
  <2> DEFINE b == [q.buffer EXCEPT ![q.write] = f]
  <2>1. /\ b \in [Places -> Nat \X Nat] /\ b[q.write] = f
        /\ \A p \in Places : p # q.write => b[p] = q.buffer[p]
    BY <1>1
  <2> HIDE DEF b
  <2>2. QED BY <1>1, <1>3, <2>1 DEF Ring, b
<1>7. LET s == Enqueued(q)
      IN /\ s \in Ring /\ s.read = q.read /\ s.buffer = q.buffer
         /\ s.write = Wrapped(q.write + 1)
  BY <1>1, <1>2, <1>4 DEF Ring
<1>8. LET s == Dequeued(q)
      IN /\ s \in Ring /\ s.write = q.write /\ s.buffer = q.buffer
         /\ s.read = Wrapped(q.read + 1)
  BY <1>1, <1>2, <1>5 DEF Ring
<1>9. LET s == ResetQueue(q)
      IN s \in Ring /\ s.write = 0 /\ s.read = 0
  BY <1>1 DEF Ring, ResetQueue
<1>10. QED BY <1>6, <1>7, <1>8, <1>9

----------------------------------------------------------------------------
(* The steps.                                                               *)

\* The queue, and how far a callback or the main thread is with it.
Quietly ==
  /\ UNCHANGED <<queueVars, game, stage, touches, mutex>>
  /\ main' = main \/ main' # "taking"
  /\ main' \in QueueStages => main \in QueueStages

UsesQueue ==
  SyncQueues \/ ReadFlags \/ TakeFlags \/ PacketBegins \/ (\E t \in Task : TickBegins(t)) \/ Callback

LEMMA QuietSteps ==
  ASSUME [HubNext]_allVars
  PROVE  Quietly \/ (main # "crashed" /\ UsesQueue)
<1> USE DEF Quietly, QueueStages, HubStages, boundVars, taskVars, callVars
<1>1. CASE UNCHANGED allVars BY <1>1 DEF allVars, vars
<1>2. CASE Next
  <2>1. CASE \/ Gather \/ (\E n \in Name : JoinByName(n)) \/ JoinBySearch
             \/ Retarget \/ NetUpdateJoinState \/ ListeningChanges \/ Gathered
    BY <2>1 DEF Gather, JoinByName, JoinBySearch, Enter, Retarget, NetUpdateJoinState, TryHost,
       HostConnected, HostRefused, ListeningChanges, Gathered, joinRest
  <2>2. CASE SyncHub \/ SyncSpoke \/ SyncActive
    BY <2>2 DEF SyncHub, SyncSpoke, SyncActive, gameRest, MainGoes
  <2>3. CASE StopSpoke BY <2>3 DEF StopSpoke, endRest, MainGoes, LetGo
  <2>4. CASE UnSync
    BY <2>4 DEF UnSync, JoinTask, Clear, StopHub, endRest, MainGoes
  <2>5. CASE StopListening \/ NetExit \/ Crash
    BY <2>5 DEF StopListening, NetExit, CloseSocket, ResetInterface, exitRest, Crash, MainGoes
  <2>6. CASE \/ \E s \in Slot : PoolThread(s)
             \/ PacketArrives \/ ReceiverEnds \/ HubCompletes
             \/ \E t \in Task : TaskWakesUp(t)
    BY <2>6 DEF PoolThread, PacketArrives, ReceiverEnds, TaskWakesUp, WakesUp, HubCompletes,
       callRest, queueVars
  <2>7. main # "crashed" BY <1>2 DEF Next
  <2>8. QED BY <1>2, <2>1, <2>2, <2>3, <2>4, <2>5, <2>6, <2>7 DEF Next, UsesQueue, Sync
<1>3. CASE MainLoop
  BY <1>3 DEF MainLoop, WaitForGatherer, GetGameDataFromGatherer, GivesUp, SetupGathererGame,
     GatherJoiners, NetChangeMap, HubGoesOn, NetProcessMessagesInGame, GameIsOver, NextGame,
     Reset, sessionRest, MainGoes
<1>4. CASE Gatherer
  BY <1>4 DEF Gatherer, Asks, Sends, SendsGame, StartsGame, EndsGame, ChangesLevel, GoesAway,
     gathererRest, sessionRest
<1>5. QED BY <1>1, <1>2, <1>3, <1>4 DEF HubNext

QueueInv == RingTyped /\ RingHolds /\ GivenInGame

\* Where the queue stays as it is.
LEMMA RingStays ==
  ASSUME RingTyped, RingHolds, UNCHANGED <<queueVars, game>>,
         main' = "taking" => main = "taking",
         stage' = "stored" => stage = "stored"
  PROVE  RingTyped' /\ RingHolds'
BY DEF RingTyped, RingHolds, queueVars, Pending, PlaceOf

\* A callback uses the queue in a game only.
LEMMA InGameOnly ==
  ASSUME ThereInv, TheTasks, GivenInGame, main # "crashed",
         stage \in {"packet", "stored"} \/ mutex = "spoke"
  PROVE  main \in SpokeStages /\ game # 0
<1>1. mutex = "spoke" => Running("spoke")
  BY DEF TheTasks, ThereInv, CallersHoldTheMutex, Running
<1>2. "queues" \in touches BY DEF GivenInGame
<1>3. main \in SpokeStages BY <1>1, <1>2 DEF ThereInv, StagesOfMain, SpokeStages
<1>4. QED BY <1>3 DEF GivenInGame, SpokeStages, QueueStages, HubStages

LEMMA QueueIsReset ==
  ASSUME ThereInv, TheTasks, QueueInv, main # "crashed", SyncQueues
  PROVE  QueueInv'
<1>1. /\ queue' = ResetQueue(queue) /\ given' = 0 /\ taken' = <<>> /\ main' = "sync_hub"
      /\ game' = game + 1 /\ game < MaxGames /\ UNCHANGED <<stage, touches, mutex>>
      /\ main \in {"ready", "down"}
  BY DEF SyncQueues, taskVars, callVars
<1>2. stage # "stored" BY <1>1, InGameOnly DEF QueueInv, SpokeStages
<1>3. queue' \in Ring /\ queue'.read = 0 /\ queue'.write = 0
  <2>1. <<0, 0>> \in Nat \X Nat /\ queue \in Ring BY DEF QueueInv, RingTyped
  <2>2. QED BY <1>1, <2>1, RingOperators
<1>4. Len(taken') = 0 /\ taken' \in Seq(Nat \X Nat) BY <1>1
<1>5. RingTyped'
  BY <1>1, <1>3, <1>4, SessionAssumption DEF QueueInv, RingTyped
<1>6. Wrapped(0) = 0 BY QueueAssumption DEF Wrapped
<1>7. RingHolds' BY <1>1, <1>2, <1>3, <1>4, <1>6, QueueAssumption DEF RingHolds, Pending
<1>8. GivenInGame' BY <1>1 DEF QueueInv, GivenInGame, RingTyped
<1>9. QED BY <1>5, <1>7, <1>8 DEF QueueInv

LEMMA FlagsAreStored ==
  ASSUME ThereInv, TheTasks, QueueInv, main # "crashed", Store
  PROVE  QueueInv'
<1> DEFINE f == <<game, given + 1>>
<1>1. /\ queue' = Stored(queue, f) /\ stage' = "stored"
      /\ given < MaxTicks /\ AvailableCapacity(queue) > 0
      /\ UNCHANGED <<main, game, given, taken, inHand, touches, mutex>>
      /\ stage = "packet" \/ mutex = "spoke"
  BY DEF Store, callRest, boundVars, taskVars
<1>2. /\ queue \in Ring /\ f \in Nat \X Nat /\ given \in Nat /\ Len(taken) \in Nat
      /\ Pending \in Nat /\ Pending <= QueueSize - 1
      /\ queue.write = Wrapped(queue.read + Pending)
  BY DEF QueueInv, RingTyped, RingHolds, Pending
<1>3. Pending \in Places BY <1>2, QueueAssumption DEF Places
<1>4. Pending < QueueSize - 1 BY <1>1, <1>2, <1>3, Counted, QueueAssumption
<1>5. /\ queue' \in Ring /\ queue'.read = queue.read /\ queue'.write = queue.write
      /\ queue'.buffer[queue.write] = f
      /\ \A p \in Places : p # queue.write => queue'.buffer[p] = queue.buffer[p]
  BY <1>1, <1>2, RingOperators
<1>6. ASSUME NEW i \in Len(taken) + 1 .. given
      PROVE  PlaceOf(i) \in Places /\ PlaceOf(i) # queue.write
  <2> DEFINE j == i - Len(taken) - 1
  <2>1. j \in Places /\ j # Pending
    <3>1. i \in Int /\ Len(taken) + 1 <= i /\ i <= given BY <1>2
    <3>2. j \in Nat /\ j < given - Len(taken) BY <1>2, <3>1
    <3>3. j < Pending BY <3>2 DEF Pending
    <3> HIDE DEF j
    <3>4. QED BY <1>2, <3>2, <3>3, QueueAssumption DEF Places
  <2>2. queue.read \in Places BY <1>2 DEF Ring
  <2>3. PlaceOf(i) = Wrapped(queue.read + j) BY DEF PlaceOf
  <2> HIDE DEF j
  <2>4. QED BY <1>2, <1>3, <2>1, <2>2, <2>3, PlacesApart
<1>7. RingTyped' BY <1>1, <1>5 DEF QueueInv, RingTyped
<1>8. RingHolds'
  <2>1. Pending' = Pending /\ Len(taken') = Len(taken) BY <1>1 DEF Pending
  <2>2. \A i \in Len(taken) + 1 .. given : queue'.buffer[PlaceOf(i)'] = <<game, i>>
    <3>1. \A i \in Len(taken) + 1 .. given : PlaceOf(i)' = PlaceOf(i) BY <1>1, <1>5 DEF PlaceOf
    <3>2. QED BY <1>5, <1>6, <3>1 DEF QueueInv, RingHolds
  <2>3. QED BY <1>1, <1>4, <1>5, <2>1, <2>2 DEF QueueInv, RingHolds
<1>9. GivenInGame' BY <1>1 DEF QueueInv, GivenInGame
<1>10. QED BY <1>7, <1>8, <1>9 DEF QueueInv

LEMMA FlagsAreGiven ==
  ASSUME ThereInv, TheTasks, QueueInv, main # "crashed", Finish, stage = "stored"
  PROVE  QueueInv' /\ UNCHANGED <<game, taken>> /\ given' = given + 1
<1>1. /\ queue' = Enqueued(queue) /\ given' = given + 1
      /\ stage' = "none" /\ touches' = {} /\ mutex' = Nobody
      /\ UNCHANGED <<main, game, taken, inHand>>
  BY DEF Finish, Returns, ReturnsFrom, Releases, callRest, boundVars
<1>2. /\ queue \in Ring /\ given \in Nat /\ Len(taken) \in Nat
      /\ Pending \in Nat /\ Pending < QueueSize - 1 /\ given < MaxTicks
      /\ queue.write = Wrapped(queue.read + Pending)
      /\ queue.buffer[queue.write] = <<game, given + 1>>
  BY DEF QueueInv, RingTyped, RingHolds, Pending
<1>3. Pending \in Places /\ Pending + 1 \in Places BY <1>2, QueueAssumption DEF Places
<1>4. <<0, 0>> \in Nat \X Nat OBVIOUS
<1>5. /\ queue' \in Ring /\ queue'.read = queue.read /\ queue'.buffer = queue.buffer
      /\ queue'.write = Wrapped(queue.write + 1)
  BY <1>1, <1>2, <1>4, RingOperators
<1>6. queue'.write = Wrapped(queue.read + Pending + 1)
  <2>1. queue.read \in Places BY <1>2 DEF Ring
  <2>2. QED BY <1>2, <1>3, <1>5, <2>1, WrappedOn
<1>7. RingTyped' BY <1>1, <1>2, <1>5, SessionAssumption DEF QueueInv, RingTyped
<1>8. Pending' = Pending + 1 BY <1>1, <1>2 DEF Pending
<1>9. \A i \in Len(taken) + 1 .. given + 1 : queue.buffer[PlaceOf(i)] = <<game, i>>
  <2>1. given + 1 - Len(taken) - 1 = Pending BY <1>2 DEF Pending
  <2>2. PlaceOf(given + 1) = queue.write BY <1>2, <2>1 DEF PlaceOf
  <2>3. \A i \in Len(taken) + 1 .. given + 1 : i \in Len(taken) + 1 .. given \/ i = given + 1
    BY <1>2
  <2>4. QED BY <1>2, <2>2, <2>3 DEF QueueInv, RingHolds
<1>10. RingHolds'
  <2>1. \A i : PlaceOf(i)' = PlaceOf(i) BY <1>1, <1>5 DEF PlaceOf
  <2>2. Pending + 1 > 0 /\ Pending + 1 <= QueueSize - 1 BY <1>2, QueueAssumption
  <2>3. Len(taken) <= given + 1 BY <1>2 DEF QueueInv, RingHolds
  <2>4. queue'.write = Wrapped(queue'.read + (Pending + 1))
    BY <1>2, <1>3, <1>5, <1>6 DEF Ring, Places
  <2>5. QED BY <1>1, <1>5, <1>8, <1>9, <2>1, <2>2, <2>3, <2>4 DEF QueueInv, RingHolds
<1>11. GivenInGame' BY <1>1 DEF QueueInv, GivenInGame, Nobody
<1>12. QED BY <1>1, <1>7, <1>10, <1>11 DEF QueueInv

LEMMA FlagsAreRead ==
  ASSUME QueueInv, ReadFlags
  PROVE  QueueInv'
<1>1. /\ CountActionFlags(queue) > 0 /\ inHand' = Front(queue) /\ main = "playing"
      /\ UNCHANGED <<queue, game, given, taken, stage, touches, mutex>>
  BY DEF ReadFlags, MainGoes, playRest, boundVars, taskVars, callVars
<1>2. /\ queue \in Ring /\ given \in Nat /\ Len(taken) \in Nat
      /\ Pending \in Nat /\ Pending <= QueueSize - 1
      /\ queue.write = Wrapped(queue.read + Pending)
  BY DEF QueueInv, RingTyped, RingHolds, Pending
<1>3. Pending \in Places BY <1>2, QueueAssumption DEF Places
<1>4. Pending > 0 BY <1>1, <1>2, <1>3, Counted
<1>5. inHand' = <<game, Len(taken) + 1>>
  <2>1. Len(taken) + 1 \in Len(taken) + 1 .. given BY <1>2, <1>4 DEF Pending
  <2>2. Len(taken) + 1 - Len(taken) - 1 = 0 BY <1>2
  <2>3. queue.read \in Nat /\ queue.read < QueueSize BY <1>2, QueueAssumption DEF Ring, Places
  <2>4. PlaceOf(Len(taken) + 1) = queue.read BY <2>2, <2>3 DEF PlaceOf, Wrapped
  <2>5. QED BY <1>1, <2>1, <2>4 DEF QueueInv, RingHolds, Front
<1>6. RingTyped' BY <1>1 DEF QueueInv, RingTyped
<1>7. RingHolds' BY <1>1, <1>4, <1>5 DEF QueueInv, RingHolds, Pending, PlaceOf
<1>8. GivenInGame' BY <1>1 DEF QueueInv, GivenInGame, QueueStages, HubStages
<1>9. QED BY <1>6, <1>7, <1>8 DEF QueueInv

LEMMA FlagsAreTaken ==
  ASSUME QueueInv, TakeFlags
  PROVE  /\ QueueInv' /\ UNCHANGED <<game, given>>
         /\ taken' = Append(taken, <<game, Len(taken) + 1>>) /\ Len(taken) < given
<1>1. /\ queue' = Dequeued(queue) /\ taken' = Append(taken, inHand) /\ main = "taking"
      /\ main' = "playing" /\ UNCHANGED <<game, given, stage, touches, mutex>>
  BY DEF TakeFlags, MainGoes, playRest, boundVars, taskVars, callVars
<1>2. /\ queue \in Ring /\ given \in Nat /\ game \in Nat
      /\ taken \in Seq(Nat \X Nat) /\ Len(taken) \in Nat
      /\ Pending \in Nat /\ Pending <= QueueSize - 1 /\ Pending > 0
      /\ queue.write = Wrapped(queue.read + Pending)
      /\ inHand = <<game, Len(taken) + 1>>
  BY <1>1 DEF QueueInv, RingTyped, RingHolds, Pending
<1>3. /\ inHand \in Nat \X Nat
      /\ taken' \in Seq(Nat \X Nat) /\ Len(taken') = Len(taken) + 1
  BY <1>1, <1>2
<1>4. Len(taken) < given /\ Pending' = Pending - 1 BY <1>1, <1>2, <1>3 DEF Pending
<1>5. /\ queue' \in Ring /\ queue'.write = queue.write /\ queue'.buffer = queue.buffer
      /\ queue'.read = Wrapped(queue.read + 1)
  BY <1>1, <1>2, <1>3, RingOperators
<1>6. queue.read \in Places /\ QueueSize \in Nat BY <1>2, QueueAssumption DEF Ring
<1>7. ASSUME NEW j \in Nat, j + 1 <= Pending
      PROVE  Wrapped(queue'.read + j) = Wrapped(queue.read + (j + 1))
  <2>1. j \in Places /\ j + 1 \in Places BY <1>2, <1>6, <1>7 DEF Places
  <2>2. queue.read + j + 1 = queue.read + (j + 1) BY <1>6, <1>7 DEF Places
  <2>3. QED BY <1>5, <1>6, <2>1, <2>2, WrappedOn
<1>8. queue'.write = Wrapped(queue'.read + (Pending - 1))
  <2>1. Pending - 1 \in Nat /\ Pending - 1 + 1 = Pending BY <1>2
  <2>2. QED BY <1>2, <1>5, <1>7, <2>1
<1>9. ASSUME NEW i \in Len(taken) + 2 .. given PROVE PlaceOf(i)' = PlaceOf(i)
  <2> DEFINE j == i - Len(taken) - 2
  <2>1. j \in Nat /\ j + 1 <= Pending /\ i - Len(taken) - 1 = j + 1
        /\ i - (Len(taken) + 1) - 1 = j
    <3>1. i \in Int /\ Len(taken) + 2 <= i /\ i <= given BY <1>2
    <3>2. QED BY <1>2, <3>1 DEF Pending
  <2> HIDE DEF j
  <2>2. PlaceOf(i)' = Wrapped(queue'.read + j) BY <1>3, <2>1 DEF PlaceOf
  <2>3. PlaceOf(i) = Wrapped(queue.read + (j + 1)) BY <2>1 DEF PlaceOf
  <2>4. QED BY <1>7, <2>1, <2>2, <2>3
<1>10. RingTyped' BY <1>1, <1>3, <1>5 DEF QueueInv, RingTyped
<1>11. RingHolds'
  <2>1. Len(taken') <= given /\ Pending' <= QueueSize - 1
    BY <1>2, <1>3, <1>4, <1>6
  <2>2. queue'.write = Wrapped(queue'.read + Pending') BY <1>4, <1>8
  <2>3. \A i \in Len(taken') + 1 .. given : queue'.buffer[PlaceOf(i)'] = <<game, i>>
    <3>1. \A i \in Len(taken') + 1 .. given : /\ i \in Len(taken) + 1 .. given
                                              /\ i \in Len(taken) + 2 .. given
      BY <1>2, <1>3
    <3>2. QED BY <1>5, <1>9, <3>1 DEF QueueInv, RingHolds
  <2>4. stage' = "stored" =>
          /\ given < MaxTicks /\ Pending' < QueueSize - 1
          /\ queue'.buffer[queue'.write] = <<game, given + 1>>
    BY <1>1, <1>2, <1>4, <1>5, <1>6 DEF QueueInv, RingHolds
  <2>5. QED BY <1>1, <2>1, <2>2, <2>3, <2>4 DEF RingHolds
<1>12. GivenInGame' BY <1>1 DEF QueueInv, GivenInGame, QueueStages, HubStages
<1>13. QED BY <1>1, <1>2, <1>4, <1>10, <1>11, <1>12 DEF QueueInv

\* The other steps of callbacks: which of them may give flags.
LEMMA CallbacksWithoutFlags ==
  ASSUME TheTasks, QueueInv,
         \/ PacketBegins \/ (\E t \in Task : TickBegins(t)) \/ Deliver \/ GiveUpHub
         \/ (Finish /\ stage # "stored")
  PROVE  QueueInv' /\ UNCHANGED <<queueVars, game>>
<1> USE DEF callRest, boundVars, queueVars
<1>1. UNCHANGED <<queueVars, game, main>> /\ stage' # "stored"
  BY DEF PacketBegins, TickBegins, Deliver, GiveUpHub, Finish, Returns
<1>2. RingTyped' /\ RingHolds' BY <1>1, RingStays DEF QueueInv
<1>3. stage' \in {"packet", "stored"} \/ mutex' = "spoke" => "queues" \in touches'
  <2>1. CASE PacketBegins BY <2>1 DEF PacketBegins, Takes
  <2>2. CASE \E t \in Task : TickBegins(t)
    BY <2>2 DEF TheTasks, TickBegins, Calls, Takes, OfSpoke
  <2>3. CASE Deliver BY <2>3 DEF QueueInv, GivenInGame, Deliver, taskVars, OfSpoke
  <2>4. CASE GiveUpHub \/ Finish
    BY <2>4 DEF GiveUpHub, Finish, Returns, ReturnsFrom, Releases, Nobody
  <2>5. QED BY <2>1, <2>2, <2>3, <2>4
<1>4. GivenInGame' BY <1>1, <1>3 DEF QueueInv, GivenInGame
<1>5. QED BY <1>1, <1>2, <1>4 DEF QueueInv

----------------------------------------------------------------------------
(* The queue implements a fifo.                                             *)

\* What was given, as the abstract queue has it.
Gave == [i \in 1 .. given |-> <<game, i>>]

LEMMA QueueStarts == HubInit => QueueInv
<1> SUFFICES ASSUME HubInit PROVE QueueInv OBVIOUS
<1>1. /\ queue = EmptyRing /\ given = 0 /\ taken = <<>> /\ game = 0
      /\ main = "out" /\ mutex = Nobody /\ stage = "none"
  BY DEF HubInit, Init, TasksInit
<1>2. queue \in Ring /\ queue.read = 0 /\ queue.write = 0
  BY <1>1, QueueAssumption DEF EmptyRing, Ring, Places, NoFlags
<1>3. Len(taken) = 0 /\ taken \in Seq(Nat \X Nat) BY <1>1
<1>4. RingTyped BY <1>1, <1>2, <1>3, SessionAssumption DEF RingTyped
<1>5. Wrapped(0) = 0 BY QueueAssumption DEF Wrapped
<1>6. RingHolds BY <1>1, <1>2, <1>3, <1>5, QueueAssumption DEF RingHolds, Pending
<1>7. GivenInGame BY <1>1 DEF GivenInGame, Nobody, QueueStages, HubStages
<1>8. QED BY <1>4, <1>6, <1>7 DEF QueueInv

LEMMA NothingGiven == ASSUME NEW g PROVE [i \in 1 .. 0 |-> <<g, i>>] = <<>>
OBVIOUS

LEMMA OneMoreGiven ==
  ASSUME NEW n \in Nat, NEW g
  PROVE  [i \in 1 .. n + 1 |-> <<g, i>>] = Append([i \in 1 .. n |-> <<g, i>>], <<g, n + 1>>)
<1> DEFINE s == [i \in 1 .. n |-> <<g, i>>]
           t == [i \in 1 .. n + 1 |-> <<g, i>>]
           S == {g} \X Nat
<1>1. s \in Seq(S) /\ Len(s) = n OBVIOUS
<1>2. t \in Seq(S) /\ Len(t) = n + 1 OBVIOUS
<1>3. <<g, n + 1>> \in S OBVIOUS
<1>4. /\ Append(s, <<g, n + 1>>) \in Seq(S) /\ Len(Append(s, <<g, n + 1>>)) = n + 1
      /\ \A i \in 1 .. n : Append(s, <<g, n + 1>>)[i] = s[i]
      /\ Append(s, <<g, n + 1>>)[n + 1] = <<g, n + 1>>
  <2> HIDE DEF s, S
  <2>1. QED BY <1>1, <1>3
<1>5. \A i \in 1 .. n + 1 : t[i] = Append(s, <<g, n + 1>>)[i]
  <2>1. \A i \in 1 .. n + 1 : i \in 1 .. n \/ i = n + 1 OBVIOUS
  <2>2. \A i \in 1 .. n : s[i] = t[i] OBVIOUS
  <2>3. t[n + 1] = <<g, n + 1>> OBVIOUS
  <2> HIDE DEF s, t
  <2>4. QED BY <1>4, <2>1, <2>2, <2>3
<1> HIDE DEF s, t, S
<1>6. t = Append(s, <<g, n + 1>>) BY <1>2, <1>4, <1>5, SeqEqual
<1>7. QED BY <1>6 DEF s, t

LEMMA QueueSteps ==
  ASSUME ThereInv, TheTasks, QueueInv, [HubNext]_allVars
  PROVE  QueueInv' /\ [QueueInOrder!Next]_(QueueInOrder!fifoVars)
<1> USE DEF QueueInOrder!fifoVars
<1>1. CASE Quietly
  <2>1. QueueInv'
    BY <1>1, RingStays DEF Quietly, QueueInv, GivenInGame
  <2>2. QED BY <1>1, <2>1 DEF Quietly, queueVars
<1>2. CASE main # "crashed" /\ SyncQueues
  <2>1. QueueInv' BY <1>2, QueueIsReset
  <2>2. given' = 0 /\ taken' = <<>> BY <1>2 DEF SyncQueues
  <2>3. Gave' = <<>> BY <2>2, NothingGiven DEF Gave
  <2>4. QueueInOrder!Start BY <2>2, <2>3 DEF QueueInOrder!Start, Gave
  <2>5. QED BY <2>1, <2>4 DEF QueueInOrder!Next
<1>3. CASE ReadFlags
  <2>1. UNCHANGED <<game, given, taken>> BY <1>3 DEF ReadFlags, playRest, boundVars
  <2>2. QED BY <1>3, <2>1, FlagsAreRead
<1>4. CASE TakeFlags
  <2>1. /\ QueueInv' /\ UNCHANGED <<game, given>>
        /\ taken' = Append(taken, <<game, Len(taken) + 1>>) /\ Len(taken) < given
    BY <1>4, FlagsAreTaken
  <2>2. given \in Nat /\ Len(taken) \in Nat BY DEF QueueInv, RingTyped
  <2>3. Len(Gave) = given /\ Gave[Len(taken) + 1] = <<game, Len(taken) + 1>> /\ Gave' = Gave
    BY <2>1, <2>2 DEF Gave
  <2>4. QueueInOrder!Take BY <2>1, <2>3 DEF QueueInOrder!Take, Gave
  <2>5. QED BY <2>1, <2>4 DEF QueueInOrder!Next
<1>5. CASE main # "crashed" /\ Store
  <2>1. QueueInv' BY <1>5, FlagsAreStored
  <2>2. UNCHANGED <<game, given, taken>> BY <1>5 DEF Store, callRest, boundVars
  <2>3. QED BY <2>1, <2>2
<1>6. CASE main # "crashed" /\ Finish /\ stage = "stored"
  <2>1. QueueInv' /\ UNCHANGED <<game, taken>> /\ given' = given + 1 BY <1>6, FlagsAreGiven
  <2>2. /\ given \in Nat /\ given < MaxTicks /\ game \in Nat /\ game <= MaxGames /\ game # 0
    BY <1>6, InGameOnly DEF QueueInv, RingTyped, RingHolds
  <2>3. <<game, given + 1>> \in (1 .. MaxGames) \X (1 .. MaxTicks) BY <2>2, SessionAssumption
  <2>4. Gave' = Append(Gave, <<game, given + 1>>) BY <2>1, <2>2, OneMoreGiven DEF Gave
  <2>5. \E v \in (1 .. MaxGames) \X (1 .. MaxTicks) : QueueInOrder!Give(v)
    BY <2>1, <2>3, <2>4 DEF QueueInOrder!Give, Gave
  <2>6. QED BY <2>1, <2>5, Zenon DEF QueueInOrder!Next
<1>7. CASE \/ PacketBegins \/ (\E t \in Task : TickBegins(t)) \/ Deliver \/ GiveUpHub
           \/ (Finish /\ stage # "stored")
  <2>1. QueueInv' /\ UNCHANGED <<queueVars, game>> BY <1>7, CallbacksWithoutFlags
  <2>2. QED BY <2>1 DEF queueVars
<1>8. QED
  BY <1>1, <1>2, <1>3, <1>4, <1>5, <1>6, <1>7, QuietSteps DEF UsesQueue, Callback

\* For every size of the ring and any number of ticks and levels: what the game
\* takes from the queue without a lock are the flags that were put into it,
\* each once and in order, and none of an earlier level, although callbacks
\* come and go while the main thread resets the queue and takes the game down.
THEOREM FlagsAreTakenInOrder == HubFairSpec => ImplementsFifo
<1> DEFINE Inv == ThereInv /\ QueueInv
<1>1. TheTasks BY SessionAssumption DEF TheTasks
<1>2. HubInit => Inv BY <1>1, ThereInit, QueueStarts DEF HubInit
<1>3. Inv /\ [HubNext]_allVars => Inv' /\ [QueueInOrder!Next]_(QueueInOrder!fifoVars)
  BY <1>1, ThereStep, QueueSteps
<1>4. HubInit => QueueInOrder!Init
  BY NothingGiven DEF HubInit, Init, QueueInOrder!Init
<1> HIDE DEF Inv
<1>5. QED
  BY <1>2, <1>3, <1>4, PTL DEF HubFairSpec, ImplementsFifo, QueueInOrder!Order
=============================================================================
