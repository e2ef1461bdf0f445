----------------------------- MODULE TimerTasks -----------------------------
(* The emulation of timer tasks (CSeries/mytm_sdl.cpp): a thread per task    *)
(* that sleeps for a period and calls the task's function with the mutex     *)
(* taken. Others take the mutex too, to keep the tasks out.                  *)
(*                                                                           *)
(* A thread is "sleeping", "due" when it has found for the second time that  *)
(* it should keep running and is about to take the mutex, "calling" or       *)
(* "ended". Periods and drift are left out, and that a function may ask not  *)
(* to be called again, which hub_tick and spoke_tick never do.               *)
EXTENDS Naturals

CONSTANT Task

VARIABLES
  task,             \* the thread and mKeepRunning of each myTMTask
  outstanding,      \* sOutstandingTasks
  mutex             \* who holds sTMTaskMutex

NoTask == [thread |-> "none", keepRunning |-> FALSE]
Nobody == "nobody"

TasksInit ==
  /\ task = [t \in Task |-> NoTask]
  /\ outstanding = {}
  /\ mutex = Nobody

\* take_mytm_mutex
Takes(holder) == mutex = Nobody /\ mutex' = holder
Releases(holder) == mutex = holder /\ mutex' = Nobody

----------------------------------------------------------------------------
(* thread_loop                                                              *)

GoesTo(t, from, to) ==
  /\ task[t].thread = from
  /\ task' = [task EXCEPT ![t].thread = to]

WakesUp(t) ==
  /\ GoesTo(t, "sleeping", IF task[t].keepRunning THEN "due" ELSE "ended")
  /\ UNCHANGED <<outstanding, mutex>>

Calls(t) == GoesTo(t, "due", "calling") /\ Takes(t) /\ UNCHANGED outstanding

ReturnsFrom(t) ==
  /\ GoesTo(t, "calling", IF task[t].keepRunning THEN "sleeping" ELSE "ended")
  /\ Releases(t)
  /\ UNCHANGED outstanding

----------------------------------------------------------------------------
(* myXTMSetup, myTMRemove and myTMCleanup                                   *)

SetUp(t) ==
  /\ task' = [task EXCEPT ![t] = [thread |-> "sleeping", keepRunning |-> TRUE]]
  /\ outstanding' = outstanding \cup {t}

Remove(t) == task' = [task EXCEPT ![t].keepRunning = FALSE] /\ UNCHANGED outstanding

\* myTMCleanup waits for the threads of the removed tasks and deletes these.
\* (Mutant: it does not wait.)
HaveEndedAnyway(tasks) == tasks \subseteq Task
HaveEnded(tasks) == \A t \in tasks : task[t].thread = "ended"

CleanUp ==
  LET dead == {t \in outstanding : ~task[t].keepRunning}
  IN /\ HaveEnded(dead)
     /\ outstanding' = outstanding \ dead
     /\ UNCHANGED task
=============================================================================
