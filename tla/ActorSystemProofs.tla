------------------------- MODULE ActorSystemProofs -------------------------
(***************************************************************************)
(* Proofs about ActorSystem, for any actors, names, worker threads and     *)
(* programs (any CONSTANTS that satisfy its assumptions).                  *)
(***************************************************************************)
EXTENDS ActorSystem, RegistryProofs, FiniteSetTheorems

(* Every step is a step of Registry or leaves its variables alone.         *)
LEMMA RegistryStep == RegistryTypeOK /\ [Next]_vars => [RegistryNext]_registryVars
  <1> SUFFICES ASSUME RegistryTypeOK, [Next]_vars
               PROVE  RegistryNext \/ UNCHANGED registryVars
    OBVIOUS
  <1>1. ASSUME NEW t \in Thread, ThreadStep(t)
        PROVE  RegistryNext \/ UNCHANGED registryVars
    <2>1. CASE Create(t)
      BY <2>1 DEF Create, RegistryNext
    <2>2. CASE Promote(t)
      BY <2>2 DEF Promote, RegistryNext
    <2>3. CASE Add(t)
      <3>1. PICK s \in Actor, w \in Actor : AddWorker(s, w)
        BY <2>3 DEF Add
      <3> QED
        BY <3>1 DEF RegistryNext
    <2>4. CASE Return(t)
      <3>1. current[t] \in created /\ Remove(current[t])
        BY <2>4 DEF Return, Remove
      <3> QED
        BY <3>1 DEF RegistryNext, RegistryTypeOK
    <2>5. CASE CrashRemove(t)
      <3>1. current[t] \in created /\ Remove(current[t])
        BY <2>5 DEF CrashRemove, Remove
      <3> QED
        BY <3>1 DEF RegistryNext, RegistryTypeOK
    <2>6. CASE Schedule(t) \/ Send(t) \/ WriteRef(t) \/ Shutdown(t) \/ BlockInCtor(t)
               \/ ReceiveBlock(t) \/ Swap(t) \/ Throw(t) \/ CtorReturn(t)
      BY <2>6 DEF Schedule, Send, WriteRef, Shutdown, BlockInCtor, ReceiveBlock, Swap, Throw,
         CtorReturn
    <2>7. CASE CrashRestart(t) \/ CrashEscalate(t) \/ RestartWorker(t) \/ WorkersRestarted(t)
      BY <2>7 DEF CrashRestart, CrashEscalate, RestartWorker, WorkersRestarted
    <2>8. CASE Loop(t)
      BY <2>8 DEF Loop, PerformActorRemovals, HandleSend, HandleResume, HandleNew,
         HandleFree, Resume, StartReceive, FindNothing, CheckShutdown
    <2>9. CASE TouchFreed(t)
      BY <2>9 DEF TouchFreed
    <2> QED
      BY <1>1, <2>1, <2>2, <2>3, <2>4, <2>5, <2>6, <2>7, <2>8, <2>9
      DEF ThreadStep, Php, CrashHandling
  <1>2. ASSUME NEW t \in Worker, WorkerEnds(t)
        PROVE  RegistryNext \/ UNCHANGED registryVars
    BY <1>2 DEF WorkerEnds, FinalRemovals
  <1>3. CASE MainStep
    BY <1>3 DEF MainStep, ScriptEnds, SchedulerEnds, Join, RegistryNext
  <1>4. CASE ScriptFails
    BY <1>4 DEF ScriptFails
  <1>5. CASE UNCHANGED vars
    BY <1>5 DEF vars
  <1> QED
    BY <1>1, <1>2, <1>3, <1>4, <1>5 DEF Next

LEMMA RegistryTypesAlways == Spec => []RegistryTypeOK
  <1>1. Init => RegistryTypeOK
    BY ForestInit DEF Init, Forest
  <1>2. RegistryTypeOK /\ [Next]_vars => RegistryTypeOK'
    BY RegistryStep, TypesKept
  <1> QED
    BY <1>1, <1>2, PTL DEF Spec

(* The threads use the shared tables only as Registry says, so all that is *)
(* proved of Registry holds in the whole system.                           *)
THEOREM ImplementsRegistry == Spec => RegistrySpec
  <1>1. Init => RegistryInit
    BY DEF Init
  <1> QED
    BY <1>1, RegistryStep, RegistryTypesAlways, PTL DEF Spec, RegistrySpec

-----------------------------------------------------------------------------
(* Types.  A thread that runs an actor, or handles its crash, has one.     *)
Running == {"ctor", "workers", "start", "receive", "swap", "resume", "crash"}
HasCurrent == \A t \in Thread : pc[t] \in Running => current[t] \in Actor

LocalTypes == ObjectTypes /\ QueueTypes /\ ThreadTypes /\ BoundTypes /\ RestTypes

LEMMA InitTypes == Init => LocalTypes /\ HasCurrent
  <1> SUFFICES ASSUME Init PROVE LocalTypes /\ HasCurrent
    OBVIOUS
  <1>1. ObjectTypes
    BY DEF Init, ActorsInit, ObjectTypes, State, Context
  <1>2. QueueTypes
    BY ThreadAssumption DEF Init, ActorsInit, ThreadsInit, QueueTypes
  <1>3. ThreadTypes /\ HasCurrent
    BY DEF Init, ThreadsInit, ThreadTypes, PC, HasCurrent, Running
  <1>4. BoundTypes
    BY BoundAssumption DEF Init, BoundTypes
  <1>5. RestTypes
    BY DEF Init, ThreadsInit, RestTypes, Fault
  <1> QED
    BY <1>1, <1>2, <1>3, <1>4, <1>5 DEF LocalTypes

(* The helpers that several actions share.                                 *)
LEMMA TasksAreTasks ==
    /\ \A a \in Actor : /\ <<ResumeTask(a)>> \in Seq(Task)
                        /\ <<NewTask(a)>> \in Seq(Task)
                        /\ <<FreeTask(a)>> \in Seq(Task)
                        /\ <<FreeTask(a), NewTask(a)>> \in Seq(Task)
    /\ \A to \in Actor \cup Name, m \in Message : <<SendTask(to, m)>> \in Seq(Task)
  BY DEF Task, ResumeTask, NewTask, FreeTask, SendTask

LEMMA EnqueueTypes ==
    ASSUME QueueTypes, NEW t \in Thread, NEW s \in Seq(Task), Enqueue(t, s)
    PROVE  tasks' \in [Thread -> Seq(Task)]
  BY DEF QueueTypes, Enqueue

LEMMA DequeueTypes ==
    ASSUME QueueTypes, NEW t \in Thread, tasks[t] # <<>>
    PROVE  /\ Head(tasks[t]) \in Task
           /\ Tail(tasks[t]) \in Seq(Task)
           /\ Dequeue(t) => tasks' \in [Thread -> Seq(Task)]
  <1>1. tasks[t] \in Seq(Task)
    BY DEF QueueTypes
  <1>2. Head(tasks[t]) \in Task /\ Tail(tasks[t]) \in Seq(Task)
    BY <1>1
  <1> QED
    BY <1>2 DEF QueueTypes, Dequeue

LEMMA TaskFields ==
    ASSUME NEW task \in Task
    PROVE  IF task.type = "SEND_MESSAGE"
           THEN task.to \in Actor \cup Name /\ task.message \in Message
           ELSE task.actor \in Actor
  BY DEF Task

LEMMA GotoTypes ==
    ASSUME ThreadTypes, NEW t \in Thread, NEW label \in PC, Goto(t, label)
    PROVE  /\ pc' \in [Thread -> PC]
           /\ pc'[t] = label
           /\ \A u \in Thread : u # t => pc'[u] = pc[u]
  BY DEF ThreadTypes, Goto

LEMMA GotoKeepsCurrent ==
    ASSUME ThreadTypes, HasCurrent, NEW t \in Thread, NEW label \in PC, Goto(t, label),
           pc[t] \in Running \/ label \notin Running, current' = current
    PROVE  HasCurrent'
  BY GotoTypes DEF HasCurrent

LEMMA RestTypesKept ==
    ASSUME ThreadTypes, HasCurrent, NEW t \in Thread, Rest(t, "loop")
    PROVE  /\ pc' \in [Thread -> PC]
           /\ current' \in [Thread -> Actor \cup {NoActor}]
           /\ HasCurrent'
  <1>1. /\ pc' = [pc EXCEPT ![t] = "loop"]
        /\ current' = [current EXCEPT ![t] = NoActor]
    BY DEF Rest, Goto
  <1> QED
    BY <1>1 DEF ThreadTypes, HasCurrent, Running, PC

LEMMA MarkTypes ==
    ASSUME ObjectTypes, QueueTypes, RestTypes, NEW S \in SUBSET Actor, MarkForRemoval(S)
    PROVE  /\ state' \in [Actor -> State]
           /\ actor_removals' \in [Worker -> SUBSET Actor]
           /\ raced' \subseteq Actor
  BY DEF ObjectTypes, QueueTypes, RestTypes, MarkForRemoval, ToFree, State

LEMMA OneForOneTypes ==
    ASSUME ObjectTypes, QueueTypes, RestTypes, NEW w \in Actor, OneForOne(w)
    PROVE  /\ state' \in [Actor -> State]
           /\ context' \in [Actor -> Context]
           /\ tasks' \in [Thread -> Seq(Task)]
           /\ raced' \subseteq Actor
  <1>1. RestartTasks(w) \in Seq(Task)
    BY TasksAreTasks DEF RestartTasks
  <1>2. RestartThread(w) \in Thread
    BY DEF RestartThread, QueueTypes, Thread
  <1>3. tasks' \in [Thread -> Seq(Task)]
    BY <1>1, <1>2, EnqueueTypes DEF OneForOne
  <1> QED
    BY <1>3 DEF OneForOne, ObjectTypes, RestTypes, State, Context

LEMMA GoneTypes ==
    ASSUME RegistryTypeOK, NEW a \in Actor
    PROVE  Gone(a) \in SUBSET Actor
  BY SubtreeClosed DEF Gone, RegistryTypeOK

LEMMA CrashTypes ==
    ASSUME TypeOK, HasCurrent, NEW t \in Thread, NEW a \in Actor, Crash(t, a)
    PROVE  /\ state' \in [Actor -> State]
           /\ pc' \in [Thread -> PC]
           /\ current' \in [Thread -> Actor \cup {NoActor}]
           /\ boss' \in [Thread -> Actor \cup {NoActor}]
           /\ HasCurrent'
  <1>1. state' \in [Actor -> State]
    BY DEF Crash, Terminated, TypeOK, ObjectTypes, State
  <1>2. /\ pc' = [pc EXCEPT ![t] = "crash"]
        /\ current' = [current EXCEPT ![t] = a]
        /\ boss' = [boss EXCEPT ![t] = supervisor[a]]
    BY DEF Crash, Goto
  <1> QED
    BY <1>1, <1>2 DEF TypeOK, ThreadTypes, HasCurrent, RegistryTypeOK, PC

LEMMA PhpTypes ==
    ASSUME TypeOK, HasCurrent, NEW t \in Thread, Php(t)
    PROVE  LocalTypes' /\ HasCurrent'
  <1> USE DEF TypeOK, LocalTypes
  <1>1. CASE Create(t)
    <2>1. ObjectTypes'
      BY <1>1 DEF Create, ObjectTypes
    <2>2. ThreadTypes' /\ HasCurrent'
      BY <1>1 DEF Create, ThreadTypes, HasCurrent
    <2>3. UNCHANGED <<queueVars, boundVars, restVars>>
      BY <1>1 DEF Create
    <2> QED
      BY <2>1, <2>2, <2>3
      DEF queueVars, boundVars, restVars, QueueTypes, BoundTypes, RestTypes
  <1>2. CASE Schedule(t)
    <2>1. PICK a \in Actor, o \in Worker :
            /\ thread_offset' = [thread_offset EXCEPT ![a] = o]
            /\ Enqueue(o, <<NewTask(a)>>)
            /\ newborn' = [newborn EXCEPT ![t] = NoActor]
            /\ new_actor_ref' = [new_actor_ref EXCEPT ![t] = a]
            /\ UNCHANGED <<objectVars, mailbox, actor_removals, pc, current, boss, todo,
                           boundVars, shutdown, raced, fault>>
      BY <1>2 DEF Schedule
    <2>2. tasks' \in [Thread -> Seq(Task)]
      BY <2>1, TasksAreTasks, EnqueueTypes DEF Thread
    <2>3. QueueTypes'
      BY <2>1, <2>2 DEF QueueTypes
    <2>4. ThreadTypes' /\ HasCurrent'
      BY <2>1 DEF ThreadTypes, HasCurrent
    <2> QED
      BY <2>1, <2>3, <2>4 DEF objectVars, boundVars, ObjectTypes, BoundTypes, RestTypes
  <1>3. CASE Promote(t) \/ WriteRef(t) \/ Shutdown(t) \/ BlockInCtor(t)
    <2>1. UNCHANGED <<objectVars, queueVars, threadVars, boundVars>>
      BY <1>3 DEF Promote, WriteRef, Shutdown, BlockInCtor
    <2>2. RestTypes'
      BY <1>3 DEF Promote, WriteRef, Shutdown, BlockInCtor, restVars, RestTypes, Fault
    <2> QED
      BY <2>1, <2>2 DEF objectVars, queueVars, threadVars, boundVars, ObjectTypes,
         QueueTypes, ThreadTypes, BoundTypes, HasCurrent
  <1>10. CASE Add(t)
    <2>1. /\ pc' = pc \/ Goto(t, "walking")
          /\ UNCHANGED <<objectVars, queueVars, current, boss, todo, newborn, boundVars,
                         restVars>>
      BY <1>10 DEF Add
    <2>2. pc' \in [Thread -> PC]
      BY <2>1, GotoTypes DEF ThreadTypes, PC
    <2>3. HasCurrent'
      BY <2>1, GotoTypes DEF HasCurrent, Running, PC
    <2> QED
      BY <2>1, <2>2, <2>3 DEF objectVars, queueVars, boundVars, restVars, ObjectTypes,
         QueueTypes, ThreadTypes, BoundTypes, RestTypes
  <1>4. CASE Send(t)
    <2>1. PICK to \in Actor \cup Name :
            /\ sent < MaxSends
            /\ sent' = sent + 1
            /\ Enqueue(Main, <<SendTask(to, sent + 1)>>)
            /\ UNCHANGED <<objectVars, mailbox, actor_removals, thread_offset,
                           threadVars, crashes, restVars>>
      BY <1>4 DEF Send
    <2>2. sent + 1 \in Message /\ sent' \in 0 .. MaxSends
      BY <2>1, BoundAssumption DEF BoundTypes, Message
    <2>3. tasks' \in [Thread -> Seq(Task)]
      BY <2>1, <2>2, TasksAreTasks, EnqueueTypes DEF Thread
    <2>4. QueueTypes' /\ BoundTypes'
      BY <2>1, <2>2, <2>3 DEF QueueTypes, BoundTypes
    <2> QED
      BY <2>1, <2>4 DEF objectVars, threadVars, restVars, ObjectTypes, ThreadTypes,
         RestTypes, HasCurrent
  <1>5. CASE ReceiveBlock(t)
    <2> DEFINE a == current[t]
    <2>1. a \in Actor
      BY <1>5 DEF ReceiveBlock, RegistryTypeOK
    <2>2. ObjectTypes'
      BY <1>5, <2>1 DEF ReceiveBlock, ObjectTypes, State
    <2>3. BlockTasks(a) \in Seq(Task) /\ thread_offset[a] \in Thread
      BY <2>1, TasksAreTasks DEF BlockTasks, QueueTypes, Thread
    <2>4. tasks' \in [Thread -> Seq(Task)]
      BY <1>5, <2>3, EnqueueTypes DEF ReceiveBlock
    <2>5. QueueTypes'
      BY <1>5, <2>4 DEF ReceiveBlock, QueueTypes
    <2>6. Goto(t, "swap") /\ pc[t] \in Running /\ UNCHANGED <<current, boss, todo, newborn>>
      BY <1>5 DEF ReceiveBlock, At, Running
    <2>7. ThreadTypes' /\ HasCurrent'
      BY <2>6, GotoTypes, GotoKeepsCurrent DEF ThreadTypes, PC
    <2> QED
      BY <1>5, <2>2, <2>5, <2>7
      DEF ReceiveBlock, boundVars, restVars, BoundTypes, RestTypes
  <1>6. CASE Swap(t)
    <2>1. ObjectTypes'
      BY <1>6 DEF Swap, ObjectTypes, Context
    <2>2. Rest(t, "loop") /\ UNCHANGED <<queueVars, boss, todo, newborn, boundVars, restVars>>
      BY <1>6 DEF Swap
    <2>3. ThreadTypes' /\ HasCurrent'
      BY <2>2, RestTypesKept DEF ThreadTypes
    <2> QED
      BY <2>1, <2>2, <2>3
      DEF queueVars, boundVars, restVars, QueueTypes, BoundTypes, RestTypes
  <1>7. CASE Throw(t)
    <2>1. /\ Crash(t, current[t])
          /\ current[t] \in Actor
          /\ crashes < MaxCrashes /\ crashes' = crashes + 1
          /\ UNCHANGED <<streak, context, heap, queueVars, todo, newborn, sent, restVars>>
      BY <1>7 DEF Throw, At, HasCurrent, Running
    <2>2. BoundTypes'
      BY <2>1, BoundAssumption DEF BoundTypes
    <2>3. ObjectTypes' /\ ThreadTypes' /\ HasCurrent'
      BY <2>1, CrashTypes DEF ObjectTypes, ThreadTypes
    <2> QED
      BY <2>1, <2>2, <2>3 DEF queueVars, restVars, QueueTypes, RestTypes
  <1>8. CASE CtorReturn(t)
    <2>1. /\ pc[t] = "ctor" /\ (Goto(t, "workers") \/ Goto(t, "start"))
          /\ UNCHANGED <<objectVars, queueVars, current, boss, newborn, boundVars, restVars>>
          /\ todo' = todo \/ todo' = [todo EXCEPT ![t] = workers[current[t]]]
      BY <1>8 DEF CtorReturn, At
    <2>2. current[t] \in Actor
      BY <1>8 DEF CtorReturn, At, HasCurrent, Running
    <2>3. todo' \in [Thread -> SUBSET Actor]
      BY <2>1, <2>2 DEF ThreadTypes, RegistryTypeOK
    <2>4. pc' \in [Thread -> PC] /\ HasCurrent'
      BY <1>8, <2>1, GotoTypes, GotoKeepsCurrent DEF CtorReturn, At, PC, Running
    <2>5. ThreadTypes'
      BY <2>1, <2>3, <2>4 DEF ThreadTypes
    <2> QED
      BY <2>1, <2>4, <2>5 DEF objectVars, queueVars, boundVars, restVars, ObjectTypes,
         QueueTypes, BoundTypes, RestTypes
  <1>9. CASE Return(t)
    <2>1. /\ MarkForRemoval(Gone(current[t]))
          /\ Rest(t, "loop")
          /\ UNCHANGED <<streak, context, heap, mailbox, tasks, thread_offset, boss, todo,
                         newborn, boundVars, new_actor_ref, shutdown, fault>>
          /\ current[t] \in Actor
      BY <1>9 DEF Return, At, HasCurrent, Running
    <2>2. Gone(current[t]) \in SUBSET Actor
      BY <2>1, GoneTypes
    <2>3. ObjectTypes' /\ QueueTypes' /\ RestTypes'
      BY <2>1, <2>2, MarkTypes DEF ObjectTypes, QueueTypes, RestTypes
    <2>4. ThreadTypes' /\ HasCurrent'
      BY <2>1, RestTypesKept DEF ThreadTypes
    <2> QED
      BY <2>1, <2>3, <2>4 DEF boundVars, BoundTypes
  <1> QED
    BY <1>1, <1>2, <1>3, <1>4, <1>5, <1>6, <1>7, <1>8, <1>9, <1>10 DEF Php

LEMMA CrashHandlingTypes ==
    ASSUME TypeOK, HasCurrent, NEW t \in Thread, CrashHandling(t)
    PROVE  LocalTypes' /\ HasCurrent'
  <1> USE DEF TypeOK, LocalTypes
  <1> DEFINE a == current[t]
  <1>0. a \in Actor
    BY DEF CrashHandling, CrashRemove, CrashRestart, CrashEscalate, RestartWorker,
       WorkersRestarted, At, HasCurrent, Running
  <1>1. CASE CrashRemove(t)
    <2>1. /\ MarkForRemoval(Gone(a))
          /\ Rest(t, "loop")
          /\ UNCHANGED <<streak, context, heap, mailbox, tasks, thread_offset, boss, todo,
                         newborn, boundVars, new_actor_ref, shutdown, fault>>
      BY <1>1 DEF CrashRemove
    <2>2. ObjectTypes' /\ QueueTypes' /\ RestTypes'
      BY <1>0, <2>1, GoneTypes, MarkTypes DEF ObjectTypes, QueueTypes, RestTypes
    <2>3. ThreadTypes' /\ HasCurrent'
      BY <2>1, RestTypesKept DEF ThreadTypes
    <2> QED
      BY <2>1, <2>2, <2>3 DEF boundVars, BoundTypes
  <1>2. CASE CrashRestart(t)
    <2>1. /\ OneForOne(a)
          /\ Rest(t, "loop")
          /\ boss' = [boss EXCEPT ![t] = NoActor]
          /\ streak' = [streak EXCEPT ![a] = @ + 1]
          /\ UNCHANGED <<heap, mailbox, actor_removals, thread_offset, todo, newborn,
                         boundVars, new_actor_ref, shutdown, fault>>
      BY <1>2 DEF CrashRestart
    <2>2. ObjectTypes' /\ QueueTypes' /\ RestTypes'
      BY <1>0, <2>1, OneForOneTypes DEF ObjectTypes, QueueTypes, RestTypes
    <2>3. ThreadTypes' /\ HasCurrent'
      BY <2>1, RestTypesKept DEF ThreadTypes
    <2> QED
      BY <2>1, <2>2, <2>3 DEF boundVars, BoundTypes
  <1>3. CASE CrashEscalate(t)
    <2>1. /\ boss[t] \in Actor
          /\ Crash(t, boss[t])
          /\ streak' = [streak EXCEPT ![a] = @ + 1]
          /\ UNCHANGED <<context, heap, queueVars, todo, newborn, boundVars, restVars>>
      BY <1>3 DEF CrashEscalate, ThreadTypes
    <2>2. ObjectTypes' /\ ThreadTypes' /\ HasCurrent'
      BY <1>0, <2>1, CrashTypes DEF ObjectTypes, ThreadTypes
    <2> QED
      BY <2>1, <2>2 DEF queueVars, boundVars, restVars, QueueTypes, BoundTypes, RestTypes
  <1>4. CASE RestartWorker(t)
    <2>1. PICK w \in todo[t] \cap workers[a] :
            /\ OneForOne(w)
            /\ todo' = [todo EXCEPT ![t] = @ \ {w}]
      BY <1>4 DEF RestartWorker
    <2>2. UNCHANGED <<streak, heap, mailbox, actor_removals, thread_offset, pc, current,
                      boss, newborn, boundVars, new_actor_ref, shutdown, fault>>
      BY <1>4 DEF RestartWorker
    <2>3. w \in Actor
      BY <1>0, <2>1 DEF RegistryTypeOK
    <2>4. ObjectTypes' /\ QueueTypes' /\ RestTypes'
      BY <2>1, <2>2, <2>3, OneForOneTypes DEF ObjectTypes, QueueTypes, RestTypes
    <2>5. ThreadTypes' /\ HasCurrent'
      BY <2>1, <2>2 DEF ThreadTypes, HasCurrent
    <2> QED
      BY <2>2, <2>4, <2>5 DEF boundVars, BoundTypes
  <1>5. CASE WorkersRestarted(t)
    <2>1. /\ pc[t] \in Running
          /\ Goto(t, "start")
          /\ todo' = [todo EXCEPT ![t] = {}]
          /\ UNCHANGED <<objectVars, queueVars, current, boss, newborn, boundVars, restVars>>
      BY <1>5 DEF WorkersRestarted, At, Running
    <2>2. ThreadTypes' /\ HasCurrent'
      BY <2>1, GotoTypes, GotoKeepsCurrent DEF ThreadTypes, PC
    <2> QED
      BY <2>1, <2>2 DEF objectVars, queueVars, boundVars, restVars, ObjectTypes, QueueTypes,
         BoundTypes, RestTypes
  <1> QED
    BY <1>1, <1>2, <1>3, <1>4, <1>5 DEF CrashHandling

LEMMA LoopTypes ==
    ASSUME TypeOK, HasCurrent, NEW t \in Thread, Loop(t)
    PROVE  LocalTypes' /\ HasCurrent'
  <1> USE DEF TypeOK, LocalTypes
  <1> DEFINE task == Head(tasks[t])
  <1>0. tasks[t] # <<>> => /\ task \in Task
                           /\ task.type # "SEND_MESSAGE" => task.actor \in Actor
    BY DequeueTypes, TaskFields
  <1>1. CASE PerformActorRemovals(t)
    <2>1. ObjectTypes' /\ QueueTypes'
      BY <1>1 DEF PerformActorRemovals, FreeActors, ObjectTypes, QueueTypes
    <2>2. Goto(t, "pop") /\ UNCHANGED <<current, boss, todo, newborn, boundVars, restVars>>
      BY <1>1 DEF PerformActorRemovals
    <2>3. ThreadTypes' /\ HasCurrent'
      BY <2>2, GotoTypes, GotoKeepsCurrent DEF ThreadTypes, PC, Running
    <2> QED
      BY <2>1, <2>2, <2>3 DEF boundVars, restVars, BoundTypes, RestTypes
  <1>2. CASE HandleSend(t)
    <2> DEFINE a == Lookup(task.to)
    <2>1. /\ task.to \in Actor \cup Name /\ task.message \in Message
          /\ tasks[t] # <<>>
      BY <1>0, <1>2, TaskFields DEF HandleSend, Pops
    <2>2. UNCHANGED <<actor_removals, thread_offset, current, boss, todo, newborn,
                      objectVars, boundVars, restVars>> /\ Goto(t, "loop")
      BY <1>2 DEF HandleSend
    <2>3. ASSUME a = NoActor PROVE QueueTypes'
      BY <1>2, <2>1, <2>2, <2>3, DequeueTypes DEF HandleSend, QueueTypes
    <2>4. ASSUME a # NoActor PROVE QueueTypes'
      <3>1. a \in Actor
        BY <2>1, <2>4 DEF Lookup, RegistryTypeOK
      <3>2. mailbox' = [mailbox EXCEPT ![a] = Append(@, task.message)]
        BY <1>2, <2>4 DEF HandleSend, Pushed
      <3>3. mailbox' \in [Actor -> Seq(Message)]
        BY <2>1, <3>1, <3>2 DEF QueueTypes
      <3>4. WakeTasks(a) \in Seq(Task)
        BY <3>1, TasksAreTasks DEF WakeTasks
      <3>5. \A u \in Thread :
              ((IF u = t THEN Tail(tasks[u]) ELSE tasks[u])
               \o (IF u = thread_offset[a] THEN WakeTasks(a) ELSE <<>>)) \in Seq(Task)
        <4> SUFFICES ASSUME NEW u \in Thread
                     PROVE  ((IF u = t THEN Tail(tasks[u]) ELSE tasks[u])
                             \o (IF u = thread_offset[a] THEN WakeTasks(a) ELSE <<>>))
                            \in Seq(Task)
          OBVIOUS
        <4>1. (IF u = t THEN Tail(tasks[u]) ELSE tasks[u]) \in Seq(Task)
          BY <2>1, DequeueTypes DEF QueueTypes
        <4>2. (IF u = thread_offset[a] THEN WakeTasks(a) ELSE <<>>) \in Seq(Task)
          BY <3>4
        <4> HIDE DEF a
        <4> QED
          BY <4>1, <4>2
      <3>6. tasks' = [u \in Thread |->
                        (IF u = t THEN Tail(tasks[u]) ELSE tasks[u])
                        \o (IF u = thread_offset[a] THEN WakeTasks(a) ELSE <<>>)]
        BY <1>2, <2>4 DEF HandleSend
      <3>7. tasks' \in [Thread -> Seq(Task)]
        BY <3>5, <3>6
      <3> QED
        BY <2>2, <3>3, <3>7 DEF QueueTypes
    <2>5. ThreadTypes' /\ HasCurrent'
      BY <2>2, GotoTypes, GotoKeepsCurrent DEF ThreadTypes, PC, Running
    <2>6. QueueTypes'
      BY <2>3, <2>4
    <2> QED
      BY <2>2, <2>5, <2>6 DEF objectVars, boundVars, restVars, ObjectTypes, BoundTypes,
         RestTypes
  <1>3. CASE HandleResume(t)
    <2>1. /\ task.actor \in Actor
          /\ tasks[t] # <<>> /\ Dequeue(t)
          /\ fault' = JumpFault(task.actor)
          /\ \/ /\ context' = [context EXCEPT ![task.actor] = "stale"]
                /\ current' = [current EXCEPT ![t] = task.actor]
                /\ Goto(t, "resume")
             \/ UNCHANGED <<context, current, pc>>
          /\ UNCHANGED <<state, streak, heap, mailbox, actor_removals, thread_offset, boss,
                         todo, newborn, boundVars, new_actor_ref, shutdown, raced>>
      BY <1>0, <1>3 DEF HandleResume, Pops
    <2>2. ObjectTypes'
      BY <2>1 DEF ObjectTypes, Context
    <2>3. QueueTypes'
      BY <2>1, DequeueTypes DEF QueueTypes
    <2>4. ThreadTypes' /\ HasCurrent'
      BY <2>1 DEF ThreadTypes, HasCurrent, Goto, PC
    <2>5. RestTypes'
      BY <2>1 DEF RestTypes, JumpFault, Fault
    <2> QED
      BY <2>1, <2>2, <2>3, <2>4, <2>5 DEF boundVars, BoundTypes
  <1>4. CASE Resume(t)
    <2> DEFINE a == current[t]
    <2>1. /\ state' = [state EXCEPT ![a] = "ACTIVE"]
          /\ Goto(t, "receive") /\ pc[t] \in Running
          /\ UNCHANGED <<streak, context, heap, tasks, actor_removals, thread_offset,
                         current, boss, todo, newborn, boundVars, new_actor_ref, shutdown, raced>>
      BY <1>4 DEF Resume, At, Running
    <2>2. fault' \in {"nullMessage", fault}
      BY <1>4 DEF Resume
    <2>3. mailbox' \in [Actor -> Seq(Message)]
      <3>1. CASE mailbox[a] = <<>>
        BY <1>4, <3>1 DEF Resume, QueueTypes
      <3>2. CASE mailbox[a] # <<>>
        <4>1. mailbox' = [mailbox EXCEPT ![a] = Tail(@)]
          BY <1>4, <3>2 DEF Resume
        <4>2. a \in Actor
          BY <2>1 DEF HasCurrent
        <4>3. Tail(mailbox[a]) \in Seq(Message)
          BY <3>2, <4>2 DEF QueueTypes
        <4> QED
          BY <4>1, <4>2, <4>3 DEF QueueTypes
      <3> QED
        BY <3>1, <3>2
    <2>4. ObjectTypes'
      BY <2>1 DEF ObjectTypes, State
    <2>5. ThreadTypes' /\ HasCurrent'
      BY <2>1, GotoTypes, GotoKeepsCurrent DEF ThreadTypes, PC
    <2>6. RestTypes' /\ QueueTypes'
      BY <2>1, <2>2, <2>3 DEF RestTypes, Fault, QueueTypes
    <2> QED
      BY <2>1, <2>4, <2>5, <2>6 DEF boundVars, BoundTypes
  <1>5. CASE HandleNew(t)
    <2>1. /\ task.actor \in Actor
          /\ tasks[t] # <<>> /\ Dequeue(t)
          /\ \/ /\ context' = [context EXCEPT ![task.actor] = "blank"]
                /\ current' = [current EXCEPT ![t] = task.actor]
                /\ Goto(t, "ctor")
             \/ UNCHANGED <<context, current>> /\ Goto(t, "loop")
          /\ UNCHANGED <<state, streak, heap, mailbox, actor_removals, thread_offset, boss,
                         todo, newborn, boundVars, restVars>>
      BY <1>0, <1>5 DEF HandleNew, WithNewInternal, Pops
    <2>2. ObjectTypes'
      BY <2>1 DEF ObjectTypes, Context
    <2>3. QueueTypes'
      BY <2>1, DequeueTypes DEF QueueTypes
    <2>4. ThreadTypes' /\ HasCurrent'
      BY <2>1 DEF ThreadTypes, HasCurrent, Goto, PC, Running
    <2> QED
      BY <2>1, <2>2, <2>3, <2>4 DEF boundVars, restVars, BoundTypes, RestTypes
  <1>6. CASE HandleFree(t)
    <2>1. /\ tasks[t] # <<>> /\ Dequeue(t)
          /\ fault' \in {"none", "useAfterFree"}
          /\ Goto(t, "loop")
          /\ UNCHANGED <<objectVars, mailbox, actor_removals, thread_offset, current, boss,
                         todo, newborn, boundVars, new_actor_ref, shutdown, raced>>
      BY <1>6 DEF HandleFree, Pops
    <2>2. QueueTypes'
      BY <2>1, DequeueTypes DEF QueueTypes
    <2>3. ThreadTypes' /\ HasCurrent'
      BY <2>1, GotoTypes, GotoKeepsCurrent DEF ThreadTypes, PC, Running
    <2>4. RestTypes'
      BY <2>1 DEF RestTypes, Fault
    <2> QED
      BY <2>1, <2>2, <2>3, <2>4 DEF objectVars, boundVars, ObjectTypes, BoundTypes
  <1>7. CASE StartReceive(t)
    <2>1. /\ state' = [state EXCEPT ![current[t]] = "ACTIVE"]
          /\ Goto(t, "receive") /\ pc[t] \in Running
          /\ UNCHANGED <<streak, context, heap, queueVars, current, boss, todo, newborn,
                         boundVars, restVars>>
      BY <1>7 DEF StartReceive, At, Running
    <2>2. ObjectTypes'
      BY <2>1 DEF ObjectTypes, State
    <2>3. ThreadTypes' /\ HasCurrent'
      BY <2>1, GotoTypes, GotoKeepsCurrent DEF ThreadTypes, PC
    <2> QED
      BY <2>1, <2>2, <2>3
      DEF queueVars, boundVars, restVars, QueueTypes, BoundTypes, RestTypes
  <1>8. CASE FindNothing(t) \/ CheckShutdown(t)
    <2>1. PICK label \in {"check", "spin", "loop"} : Goto(t, label)
      BY <1>8 DEF FindNothing, CheckShutdown
    <2>2. UNCHANGED <<objectVars, queueVars, current, boss, todo, newborn, boundVars, restVars>>
      BY <1>8 DEF FindNothing, CheckShutdown
    <2>3. ThreadTypes' /\ HasCurrent'
      BY <2>1, <2>2, GotoTypes, GotoKeepsCurrent DEF ThreadTypes, PC, Running
    <2> QED
      BY <2>2, <2>3 DEF objectVars, queueVars, boundVars, restVars, ObjectTypes, QueueTypes,
         BoundTypes, RestTypes
  <1> QED
    BY <1>1, <1>2, <1>3, <1>4, <1>5, <1>6, <1>7, <1>8 DEF Loop

LEMMA EndTypes ==
    ASSUME TypeOK, HasCurrent, NEW t \in Thread,
           TouchFreed(t) \/ (t \in Worker /\ WorkerEnds(t)) \/ MainStep \/ ScriptFails
    PROVE  LocalTypes' /\ HasCurrent'
  <1> USE DEF TypeOK, LocalTypes
  <1>0. Main \in Thread
    BY DEF Thread
  <1>1. CASE TouchFreed(t) \/ ScriptFails
    <2>1. UNCHANGED <<objectVars, queueVars, threadVars, boundVars, new_actor_ref, shutdown, raced>>
      BY <1>1 DEF TouchFreed, ScriptFails
    <2>2. fault' \in Fault
      BY <1>1 DEF TouchFreed, ScriptFails, Fault
    <2> QED
      BY <2>1, <2>2 DEF objectVars, queueVars, threadVars, boundVars, ObjectTypes,
         QueueTypes, ThreadTypes, BoundTypes, RestTypes, HasCurrent
  <1>2. CASE t \in Worker /\ WorkerEnds(t)
    <2>1. FreeActors(t) /\ Goto(t, "ended")
      BY <1>2 DEF WorkerEnds, FinalRemovals
    <2>2. UNCHANGED <<state, streak, context, mailbox, tasks, thread_offset, current, boss,
                      todo, newborn, boundVars, restVars>>
      BY <1>2 DEF WorkerEnds, FinalRemovals
    <2>3. ObjectTypes' /\ QueueTypes'
      BY <2>1, <2>2 DEF FreeActors, ObjectTypes, QueueTypes
    <2>4. ThreadTypes' /\ HasCurrent'
      BY <2>1, <2>2, GotoTypes, GotoKeepsCurrent DEF ThreadTypes, PC, Running
    <2> QED
      BY <2>2, <2>3, <2>4 DEF boundVars, restVars, BoundTypes, RestTypes
  <1>3. CASE ScriptEnds \/ Join
    <2>1. PICK label \in {"loop", "ended"} : Goto(Main, label)
      BY <1>3 DEF ScriptEnds, Join
    <2>2. UNCHANGED <<objectVars, queueVars, current, boss, todo, newborn, boundVars, restVars>>
      BY <1>3 DEF ScriptEnds, Join
    <2>3. ThreadTypes' /\ HasCurrent'
      BY <1>0, <2>1, <2>2, GotoTypes, GotoKeepsCurrent DEF ThreadTypes, PC, Running
    <2> QED
      BY <2>2, <2>3 DEF objectVars, queueVars, boundVars, restVars, ObjectTypes, QueueTypes,
         BoundTypes, RestTypes
  <1>4. CASE SchedulerEnds
    <2>1. /\ MarkForRemoval(by_ref)
          /\ fault' \in {"none", "useAfterFree"}
          /\ Goto(Main, "join")
          /\ UNCHANGED <<streak, context, heap, mailbox, tasks, thread_offset, current, boss,
                         todo, newborn, boundVars, new_actor_ref, shutdown>>
      BY <1>4 DEF SchedulerEnds, DestroyFaults
    <2>2. by_ref \in SUBSET Actor
      BY DEF RegistryTypeOK
    <2>3. ObjectTypes' /\ QueueTypes' /\ RestTypes'
      BY <2>1, <2>2, MarkTypes DEF ObjectTypes, QueueTypes, RestTypes, Fault
    <2>4. ThreadTypes' /\ HasCurrent'
      BY <1>0, <2>1, GotoTypes, GotoKeepsCurrent DEF ThreadTypes, PC, Running
    <2> QED
      BY <2>1, <2>3, <2>4 DEF boundVars, BoundTypes
  <1> QED
    BY <1>1, <1>2, <1>3, <1>4 DEF MainStep

LEMMA StepTypes == TypeOK /\ HasCurrent /\ [Next]_vars => TypeOK' /\ HasCurrent'
  <1> SUFFICES ASSUME TypeOK, HasCurrent, [Next]_vars
               PROVE  LocalTypes' /\ HasCurrent'
    BY RegistryStep, TypesKept DEF TypeOK, LocalTypes
  <1>1. CASE Next
    <2>1. Main \in Thread /\ Worker \subseteq Thread
      BY DEF Thread
    <2> QED
      BY <1>1, <2>1, PhpTypes, CrashHandlingTypes, LoopTypes, EndTypes DEF Next, ThreadStep
  <1>2. CASE UNCHANGED vars
    BY <1>2 DEF vars, objectVars, queueVars, threadVars, boundVars, restVars, TypeOK,
       LocalTypes, ObjectTypes, QueueTypes, ThreadTypes, BoundTypes, RestTypes, HasCurrent
  <1> QED
    BY <1>1, <1>2

LEMMA TypesAlways == Spec => [](TypeOK /\ HasCurrent)
  <1>1. Init => TypeOK /\ HasCurrent
    BY InitTypes, ForestInit DEF Init, TypeOK, LocalTypes, Forest
  <1> QED
    BY <1>1, StepTypes, PTL DEF Spec

(* Type correctness of the whole system: every task that is queued is one  *)
(* of the four kinds and names an actor, or a message that was sent.       *)
THEOREM TypeCorrect == Spec => []TypeOK
  BY TypesAlways, PTL

-----------------------------------------------------------------------------
(* No lost wake-up.  Four actions concern an actor that waits: it goes to  *)
(* sleep, gets a message, has its resume task popped, and wakes up.  Every *)
(* other action is quiet.                                                  *)
NoNewIdle == \A a \in Actor : state'[a] = "IDLE" => state[a] = "IDLE"
KeepsWakes == \A t \in Thread, a \in Actor :
                 Queued(t, ResumeTask(a)) => Queued(t, ResumeTask(a))'
KeepsResumes == \A t \in Thread : pc[t] = "resume" => pc'[t] = "resume" /\ current'[t] = current[t]
Quiet ==
    /\ NoNewIdle /\ KeepsWakes /\ KeepsResumes
    /\ mailbox' = mailbox
    /\ fault' = "none" => fault = "none"

LEMMA QuietSteps ==
    ASSUME NoLostWakeup, Quiet
    PROVE  NoLostWakeup'
  <1> SUFFICES ASSUME NEW a \in Actor, state'[a] = "IDLE", mailbox'[a] # <<>>, fault' = "none"
               PROVE  \E t \in Thread : Queued(t, ResumeTask(a))'
                                       \/ (pc'[t] = "resume" /\ current'[t] = a)
    BY DEF NoLostWakeup
  <1>1. state[a] = "IDLE" /\ mailbox[a] # <<>> /\ fault = "none"
    BY DEF Quiet, NoNewIdle
  <1>2. PICK t \in Thread : Queued(t, ResumeTask(a)) \/ (pc[t] = "resume" /\ current[t] = a)
    BY <1>1 DEF NoLostWakeup
  <1> QED
    BY <1>2 DEF Quiet, KeepsWakes, KeepsResumes

LEMMA EnqueueKeepsWakes ==
    ASSUME QueueTypes, NEW u \in Thread, NEW s \in Seq(Task), Enqueue(u, s)
    PROVE  /\ \A t \in Thread, task \in Task : Queued(t, task) => Queued(t, task)'
           /\ \A i \in DOMAIN s : Queued(u, s[i])'
  <1>1. tasks' = [tasks EXCEPT ![u] = @ \o s] /\ tasks \in [Thread -> Seq(Task)]
    BY DEF Enqueue, QueueTypes
  <1>2. ASSUME NEW t \in Thread, NEW task \in Task, Queued(t, task)
        PROVE  Queued(t, task)'
    <2>1. PICK i \in DOMAIN tasks[t] : tasks[t][i] = task
      BY <1>2 DEF Queued
    <2>2. tasks[t] \in Seq(Task)
      BY <1>1
    <2>3. CASE t # u
      BY <1>1, <2>1, <2>3 DEF Queued
    <2>4. CASE t = u
      <3>1. tasks'[t] = tasks[t] \o s
        BY <1>1, <2>4
      <3>2. i \in DOMAIN tasks'[t] /\ tasks'[t][i] = task
        BY <2>1, <2>2, <3>1
      <3> QED
        BY <3>2 DEF Queued
    <2> QED
      BY <2>3, <2>4
  <1>3. ASSUME NEW i \in DOMAIN s
        PROVE  Queued(u, s[i])'
    <2>1. tasks'[u] = tasks[u] \o s /\ tasks[u] \in Seq(Task)
      BY <1>1
    <2>2. /\ Len(tasks[u]) + i \in DOMAIN tasks'[u]
          /\ tasks'[u][Len(tasks[u]) + i] = s[i]
      BY <2>1
    <2> QED
      BY <2>2 DEF Queued
  <1> QED
    BY <1>2, <1>3

LEMMA TailKeeps ==
    ASSUME NEW q \in Seq(Task), q # <<>>, NEW i \in DOMAIN q, q[i] # Head(q)
    PROVE  \E j \in DOMAIN Tail(q) : Tail(q)[j] = q[i]
  <1>1. i # 1
    OBVIOUS
  <1>2. i - 1 \in DOMAIN Tail(q) /\ Tail(q)[i - 1] = q[i]
    BY <1>1
  <1> QED
    BY <1>2

LEMMA DequeueKeepsWakes ==
    ASSUME QueueTypes, NEW u \in Thread, tasks[u] # <<>>, Dequeue(u)
    PROVE  \A t \in Thread, task \in Task :
             Queued(t, task) /\ (t = u => task # Head(tasks[u])) => Queued(t, task)'
  <1> SUFFICES ASSUME NEW t \in Thread, NEW task \in Task, Queued(t, task),
                      t = u => task # Head(tasks[u])
               PROVE  Queued(t, task)'
    OBVIOUS
  <1>1. PICK i \in DOMAIN tasks[t] : tasks[t][i] = task
    BY DEF Queued
  <1>2. tasks' = [tasks EXCEPT ![u] = Tail(@)] /\ tasks \in [Thread -> Seq(Task)]
    BY DEF Dequeue, QueueTypes
  <1>3. CASE t # u
    BY <1>1, <1>2, <1>3 DEF Queued
  <1>4. CASE t = u
    BY <1>1, <1>2, <1>4, TailKeeps DEF Queued
  <1> QED
    BY <1>3, <1>4

LEMMA SameTasksKeepWakes ==
    ASSUME tasks' = tasks
    PROVE  KeepsWakes
  BY DEF KeepsWakes, Queued

LEMMA ResumeTasksAreTasks ==
    ASSUME NEW a \in Actor
    PROVE  ResumeTask(a) \in Task /\ ResumeTask(a).type = "RESUME_ACTOR"
  BY DEF ResumeTask, Task

LEMMA OthersResume ==
    ASSUME ThreadTypes, NEW t \in Thread,
           \/ pc' = pc /\ current' = current
           \/ /\ pc[t] # "resume"
              /\ \E label \in PC : Goto(t, label)
              /\ current' = current \/ \E x : current' = [current EXCEPT ![t] = x]
    PROVE  KeepsResumes
  BY DEF ThreadTypes, Goto, KeepsResumes

LEMMA MarkingIsNotIdle ==
    ASSUME NEW S, MarkForRemoval(S)
    PROVE  NoNewIdle
  BY DEF MarkForRemoval, NoNewIdle

LEMMA RestartIsQuiet ==
    ASSUME TypeOK, NEW w \in Actor, OneForOne(w)
    PROVE  NoNewIdle /\ KeepsWakes
  <1> USE DEF TypeOK
  <1>1. RestartTasks(w) \in Seq(Task)
    BY TasksAreTasks DEF RestartTasks
  <1>2. RestartThread(w) \in Thread
    BY DEF RestartThread, QueueTypes, Thread
  <1>3. KeepsWakes
    BY <1>1, <1>2, EnqueueKeepsWakes, ResumeTasksAreTasks DEF OneForOne, KeepsWakes
  <1> QED
    BY <1>3 DEF OneForOne, NoNewIdle, ObjectTypes

LEMMA CrashIsQuiet ==
    ASSUME TypeOK, NEW t \in Thread, pc[t] # "resume", NEW a \in Actor, Crash(t, a)
    PROVE  NoNewIdle /\ KeepsResumes
  <1>1. NoNewIdle
    BY DEF Crash, Terminated, NoNewIdle
  <1>2. KeepsResumes
    BY OthersResume DEF Crash, TypeOK, PC
  <1> QED
    BY <1>1, <1>2

LEMMA QuietPhp ==
    ASSUME TypeOK, HasCurrent, NEW t \in Thread, Php(t), ~ReceiveBlock(t)
    PROVE  Quiet
  <1> USE DEF TypeOK
  <1>1. CASE Create(t) \/ Promote(t) \/ WriteRef(t) \/ Shutdown(t) \/ BlockInCtor(t)
    <2>1. UNCHANGED <<state, mailbox, tasks, pc, current>> /\ (fault' = "none" => fault = "none")
      BY <1>1 DEF Create, Promote, WriteRef, Shutdown, BlockInCtor, objectVars, queueVars,
         threadVars, restVars
    <2> QED
      BY <2>1, OthersResume, SameTasksKeepWakes DEF Quiet, NoNewIdle
  <1>2. CASE Schedule(t)
    <2>1. PICK a \in Actor, o \in Worker :
            /\ Enqueue(o, <<NewTask(a)>>)
            /\ UNCHANGED <<state, mailbox, pc, current, fault>>
      BY <1>2 DEF Schedule, objectVars, restVars
    <2>2. KeepsWakes
      BY <2>1, TasksAreTasks, EnqueueKeepsWakes, ResumeTasksAreTasks DEF KeepsWakes, Thread
    <2> QED
      BY <2>1, <2>2, OthersResume DEF Quiet, NoNewIdle
  <1>3. CASE Send(t)
    <2>1. PICK to \in Actor \cup Name :
            /\ sent < MaxSends
            /\ Enqueue(Main, <<SendTask(to, sent + 1)>>)
            /\ UNCHANGED <<state, mailbox, pc, current, fault>>
      BY <1>3 DEF Send, objectVars, threadVars, restVars
    <2>2. sent + 1 \in Message
      BY <2>1, BoundAssumption DEF BoundTypes, Message
    <2>3. KeepsWakes
      BY <2>1, <2>2, TasksAreTasks, EnqueueKeepsWakes, ResumeTasksAreTasks
      DEF KeepsWakes, Thread
    <2> QED
      BY <2>1, <2>3, OthersResume DEF Quiet, NoNewIdle
  <1>4. CASE Swap(t) \/ CtorReturn(t)
    <2>1. /\ UNCHANGED <<state, mailbox, tasks, fault>>
          /\ pc[t] # "resume"
          /\ \E label \in PC : Goto(t, label)
          /\ current' = current \/ current' = [current EXCEPT ![t] = NoActor]
      BY <1>4 DEF Swap, CtorReturn, At, Rest, PC, objectVars, queueVars, restVars
    <2> QED
      BY <2>1, OthersResume, SameTasksKeepWakes DEF Quiet, NoNewIdle
  <1>5. CASE Throw(t)
    <2>1. /\ UNCHANGED <<mailbox, tasks, fault>>
          /\ Crash(t, current[t])
          /\ current[t] \in Actor
          /\ pc[t] # "resume"
      BY <1>5 DEF Throw, At, queueVars, restVars, HasCurrent, Running
    <2> QED
      BY <2>1, CrashIsQuiet, SameTasksKeepWakes DEF Quiet
  <1>6. CASE Return(t)
    <2>1. /\ UNCHANGED <<mailbox, tasks, fault>>
          /\ MarkForRemoval(Gone(current[t]))
          /\ pc[t] # "resume"
          /\ Rest(t, "loop")
      BY <1>6 DEF Return, At
    <2> QED
      BY <2>1, OthersResume, MarkingIsNotIdle, SameTasksKeepWakes DEF Quiet, Rest, PC
  <1>7. CASE Add(t)
    <2>1. UNCHANGED <<state, mailbox, tasks, fault, current>>
      BY <1>7 DEF Add, objectVars, queueVars, restVars
    <2>2. pc[t] # "resume" /\ (pc' = pc \/ Goto(t, "walking"))
      BY <1>7 DEF Add, RunsPhp
    <2> QED
      BY <2>1, <2>2, OthersResume, SameTasksKeepWakes DEF Quiet, NoNewIdle, PC
  <1> QED
    BY <1>1, <1>2, <1>3, <1>4, <1>5, <1>6, <1>7 DEF Php

LEMMA QuietCrashHandling ==
    ASSUME TypeOK, HasCurrent, NEW t \in Thread, CrashHandling(t)
    PROVE  Quiet
  <1> USE DEF TypeOK
  <1>0. current[t] \in Actor /\ pc[t] # "resume"
    BY DEF CrashHandling, CrashRemove, CrashRestart, CrashEscalate, RestartWorker,
       WorkersRestarted, At, HasCurrent, Running
  <1>1. CASE CrashRemove(t)
    <2>1. /\ UNCHANGED <<mailbox, tasks, fault>>
          /\ MarkForRemoval(Gone(current[t]))
          /\ Rest(t, "loop")
      BY <1>1 DEF CrashRemove
    <2> QED
      BY <1>0, <2>1, OthersResume, MarkingIsNotIdle, SameTasksKeepWakes DEF Quiet, Rest, PC
  <1>2. CASE CrashRestart(t)
    <2>1. UNCHANGED <<mailbox, fault>> /\ OneForOne(current[t]) /\ Rest(t, "loop")
      BY <1>2 DEF CrashRestart
    <2> QED
      BY <1>0, <2>1, OthersResume, RestartIsQuiet DEF Quiet, Rest, PC
  <1>3. CASE CrashEscalate(t)
    <2>1. /\ UNCHANGED <<mailbox, tasks, fault>>
          /\ Crash(t, boss[t])
          /\ boss[t] \in Actor
      BY <1>3 DEF CrashEscalate, queueVars, restVars, ThreadTypes
    <2> QED
      BY <1>0, <2>1, CrashIsQuiet, SameTasksKeepWakes DEF Quiet
  <1>4. CASE RestartWorker(t)
    <2>1. PICK w \in todo[t] \cap workers[current[t]] : OneForOne(w)
      BY <1>4 DEF RestartWorker
    <2>2. UNCHANGED <<mailbox, fault, pc, current>>
      BY <1>4 DEF RestartWorker
    <2>3. w \in Actor
      BY <1>0 DEF RegistryTypeOK
    <2> QED
      BY <2>1, <2>2, <2>3, OthersResume, RestartIsQuiet DEF Quiet
  <1>5. CASE WorkersRestarted(t)
    <2>1. UNCHANGED <<state, mailbox, tasks, fault, current>> /\ Goto(t, "start")
      BY <1>5 DEF WorkersRestarted, objectVars, queueVars, restVars
    <2> QED
      BY <1>0, <2>1, OthersResume, SameTasksKeepWakes DEF Quiet, NoNewIdle, PC
  <1> QED
    BY <1>1, <1>2, <1>3, <1>4, <1>5 DEF CrashHandling

LEMMA QuietLoop ==
    ASSUME TypeOK, NEW t \in Thread,
           \/ PerformActorRemovals(t) \/ HandleNew(t) \/ HandleFree(t)
           \/ StartReceive(t) \/ FindNothing(t) \/ CheckShutdown(t)
    PROVE  Quiet
  <1> USE DEF TypeOK
  <1>1. CASE PerformActorRemovals(t) \/ FindNothing(t) \/ CheckShutdown(t)
    <2>1. /\ UNCHANGED <<state, mailbox, tasks, fault, current>>
          /\ pc[t] # "resume"
          /\ \E label \in PC : Goto(t, label)
      BY <1>1 DEF PerformActorRemovals, FindNothing, CheckShutdown, At, PC, objectVars,
         queueVars, restVars
    <2> QED
      BY <2>1, OthersResume, SameTasksKeepWakes DEF Quiet, NoNewIdle
  <1>2. CASE HandleNew(t) \/ HandleFree(t)
    <2>1. /\ UNCHANGED <<state, mailbox>>
          /\ pc[t] # "resume" /\ fault = "none"
          /\ tasks[t] # <<>> /\ Dequeue(t)
          /\ Head(tasks[t]).type \in {"NEW_ACTOR", "FREE_VM_STACK"}
      BY <1>2 DEF HandleNew, HandleFree, Pops, At, Runs, objectVars
    <2>2. /\ \E label \in PC : Goto(t, label)
          /\ current' = current \/ current' = [current EXCEPT ![t] = Head(tasks[t]).actor]
      BY <1>2 DEF HandleNew, HandleFree, PC
    <2>3. KeepsWakes
      BY <2>1, DequeueKeepsWakes, ResumeTasksAreTasks DEF KeepsWakes
    <2> QED
      BY <2>1, <2>2, <2>3, OthersResume DEF Quiet, NoNewIdle
  <1>3. CASE StartReceive(t)
    <2>1. /\ UNCHANGED <<mailbox, tasks, fault, current>>
          /\ state' = [state EXCEPT ![current[t]] = "ACTIVE"]
          /\ pc[t] # "resume" /\ Goto(t, "receive")
      BY <1>3 DEF StartReceive, At, queueVars, restVars
    <2>2. NoNewIdle
      BY <2>1 DEF NoNewIdle, ObjectTypes
    <2> QED
      BY <2>1, <2>2, OthersResume, SameTasksKeepWakes DEF Quiet, PC
  <1> QED
    BY <1>1, <1>2, <1>3

LEMMA QuietEnd ==
    ASSUME TypeOK, NEW t \in Thread,
           TouchFreed(t) \/ (t \in Worker /\ WorkerEnds(t)) \/ MainStep \/ ScriptFails
    PROVE  Quiet
  <1> USE DEF TypeOK
  <1>0. Main \in Thread
    BY DEF Thread
  <1>1. CASE TouchFreed(t) \/ ScriptFails
    <2>1. UNCHANGED <<state, mailbox, tasks, pc, current>> /\ fault' # "none"
      BY <1>1 DEF TouchFreed, ScriptFails, objectVars, queueVars, threadVars
    <2> QED
      BY <2>1, OthersResume, SameTasksKeepWakes DEF Quiet, NoNewIdle
  <1>2. CASE t \in Worker /\ WorkerEnds(t)
    <2>1. /\ UNCHANGED <<state, mailbox, tasks, fault, current>>
          /\ pc[t] # "resume" /\ Goto(t, "ended")
      BY <1>2 DEF WorkerEnds, FinalRemovals, At, restVars
    <2> QED
      BY <2>1, OthersResume, SameTasksKeepWakes DEF Quiet, NoNewIdle, PC
  <1>3. CASE ScriptEnds \/ Join
    <2>1. /\ UNCHANGED <<state, mailbox, tasks, fault, current>>
          /\ pc[Main] # "resume"
          /\ \E label \in PC : Goto(Main, label)
      BY <1>3 DEF ScriptEnds, Join, At, PC, objectVars, queueVars, restVars
    <2> QED
      BY <1>0, <2>1, OthersResume, SameTasksKeepWakes DEF Quiet, NoNewIdle
  <1>4. CASE SchedulerEnds
    <2>1. /\ UNCHANGED <<mailbox, tasks, current>>
          /\ fault = "none"
          /\ MarkForRemoval(by_ref)
          /\ pc[Main] # "resume" /\ Goto(Main, "join")
      BY <1>4 DEF SchedulerEnds, At, Runs
    <2> QED
      BY <1>0, <2>1, OthersResume, MarkingIsNotIdle, SameTasksKeepWakes DEF Quiet, PC
  <1> QED
    BY <1>1, <1>2, <1>3, <1>4 DEF MainStep

(* What NoLostWakeup asks for: a wake-up of a is queued or under way.      *)
Waking(a) == \E t \in Thread : Queued(t, ResumeTask(a)) \/ (pc[t] = "resume" /\ current[t] = a)

LEMMA WakesSurvive ==
    ASSUME NEW a \in Actor, Waking(a), KeepsWakes, KeepsResumes
    PROVE  Waking(a)'
  BY DEF Waking, KeepsWakes, KeepsResumes

LEMMA ReceiveBlockWakes ==
    ASSUME TypeOK, HasCurrent, NoLostWakeup, NEW t \in Thread, ReceiveBlock(t)
    PROVE  NoLostWakeup'
  <1> DEFINE a == current[t]
  <1>1. /\ a \in Actor /\ thread_offset[a] \in Thread
        /\ state' = [state EXCEPT ![a] = "IDLE"]
        /\ mailbox' = mailbox /\ fault' = fault /\ current' = current
        /\ pc[t] # "resume" /\ Goto(t, "swap")
        /\ Enqueue(thread_offset[a], BlockTasks(a))
    BY DEF ReceiveBlock, At, restVars, HasCurrent, Running, TypeOK, QueueTypes, Thread
  <1>2. BlockTasks(a) \in Seq(Task)
    BY <1>1, TasksAreTasks DEF BlockTasks
  <1>3. KeepsWakes
    BY <1>1, <1>2, EnqueueKeepsWakes, ResumeTasksAreTasks DEF KeepsWakes, TypeOK
  <1>4. KeepsResumes
    BY <1>1, OthersResume DEF TypeOK, PC
  <1>5. mailbox[a] # <<>> => Waking(a)'
    <2> SUFFICES ASSUME mailbox[a] # <<>> PROVE Waking(a)'
      OBVIOUS
    <2>1. BlockTasks(a) = <<ResumeTask(a)>>
      BY DEF BlockTasks
    <2>2. 1 \in DOMAIN BlockTasks(a) /\ BlockTasks(a)[1] = ResumeTask(a)
      BY <2>1
    <2> QED
      BY <1>1, <1>2, <2>2, EnqueueKeepsWakes DEF Waking, TypeOK
  <1>6. ASSUME NEW b \in Actor, state'[b] = "IDLE", mailbox'[b] # <<>>, fault' = "none"
        PROVE  Waking(b)'
    <2>1. CASE b = a
      BY <1>1, <1>5, <1>6, <2>1
    <2>2. CASE b # a
      <3>1. Waking(b)
        BY <1>1, <1>6, <2>2 DEF NoLostWakeup, Waking, TypeOK, ObjectTypes
      <3> QED
        BY <1>3, <1>4, <3>1, WakesSurvive
    <2> QED
      BY <2>1, <2>2
  <1> QED
    BY <1>6 DEF NoLostWakeup, Waking

LEMMA HandleSendWakes ==
    ASSUME TypeOK, NoLostWakeup, NEW t \in Thread, HandleSend(t)
    PROVE  NoLostWakeup'
  <1> DEFINE task == Head(tasks[t])
             a == Lookup(task.to)
  <1>1. /\ state' = state /\ fault' = fault /\ current' = current /\ Goto(t, "loop")
        /\ pc[t] # "resume"
        /\ tasks[t] # <<>> /\ task.type = "SEND_MESSAGE"
    BY DEF HandleSend, Pops, At, objectVars, restVars
  <1>2. KeepsResumes
    BY <1>1, OthersResume DEF TypeOK, PC
  <1>3. CASE a = NoActor
    <2>1. Dequeue(t) /\ mailbox' = mailbox
      BY <1>3 DEF HandleSend
    <2>2. KeepsWakes
      BY <1>1, <2>1, DequeueKeepsWakes, ResumeTasksAreTasks DEF KeepsWakes, TypeOK
    <2> QED
      BY <1>1, <1>2, <2>1, <2>2, QuietSteps DEF Quiet, NoNewIdle
  <1>4. CASE a # NoActor
    <2>1. task \in Task
      BY <1>1, DequeueTypes DEF TypeOK
    <2>2. a \in Actor
      BY <1>1, <1>4, <2>1, TaskFields DEF Lookup, TypeOK, RegistryTypeOK
    <2>3. mailbox' = [mailbox EXCEPT ![a] = Append(@, task.message)]
      BY <1>4 DEF HandleSend, Pushed
    <2> DEFINE rest(u) == IF u = t THEN Tail(tasks[u]) ELSE tasks[u]
               more(u) == IF u = thread_offset[a] THEN WakeTasks(a) ELSE <<>>
    <2>4. \A u \in Thread : tasks'[u] = rest(u) \o more(u)
      BY <1>4 DEF HandleSend
    <2>5. \A u \in Thread : rest(u) \in Seq(Task) /\ more(u) \in Seq(Task)
      BY <1>1, <2>2, DequeueTypes, TasksAreTasks DEF TypeOK, QueueTypes, WakeTasks
    <2>6. KeepsWakes
      <3> SUFFICES ASSUME NEW u \in Thread, NEW b \in Actor, Queued(u, ResumeTask(b))
                   PROVE  Queued(u, ResumeTask(b))'
        BY DEF KeepsWakes
      <3>1. PICK i \in DOMAIN tasks[u] : tasks[u][i] = ResumeTask(b)
        BY DEF Queued
      <3>2. tasks[u] \in Seq(Task)
        BY DEF TypeOK, QueueTypes
      <3>3. PICK j \in DOMAIN rest(u) : rest(u)[j] = ResumeTask(b)
        <4>1. CASE u # t
          BY <3>1, <4>1
        <4>2. CASE u = t
          <5>1. tasks[u][i] # Head(tasks[u])
            BY <1>1, <3>1, <4>2, ResumeTasksAreTasks
          <5> QED
            BY <1>1, <3>1, <3>2, <4>2, <5>1, TailKeeps
        <4> QED
          BY <4>1, <4>2
      <3> HIDE DEF rest, more, a
      <3>4. j \in DOMAIN (rest(u) \o more(u)) /\ (rest(u) \o more(u))[j] = ResumeTask(b)
        BY <2>5, <3>3
      <3> QED
        BY <2>4, <3>4 DEF Queued
    <2>7. ASSUME NEW b \in Actor, b = a, state[b] = "IDLE", mailbox[b] = <<>>
          PROVE  Waking(b)'
      <3> DEFINE o == thread_offset[a]
      <3>1. o \in Thread /\ more(o) = <<ResumeTask(b)>>
        BY <2>2, <2>7 DEF WakeTasks, TypeOK, QueueTypes, Thread
      <3>2. tasks'[o] = rest(o) \o <<ResumeTask(b)>> /\ rest(o) \in Seq(Task)
        BY <2>4, <2>5, <3>1
      <3> HIDE DEF rest, more, a, o
      <3>3. /\ Len(rest(o)) + 1 \in DOMAIN tasks'[o]
            /\ tasks'[o][Len(rest(o)) + 1] = ResumeTask(b)
        BY <3>2
      <3>4. \E u \in Thread : \E i \in DOMAIN tasks'[u] : tasks'[u][i] = ResumeTask(b)
        BY <3>1, <3>3
      <3> QED
        BY <3>4 DEF Waking, Queued
    <2>8. ASSUME NEW b \in Actor, state'[b] = "IDLE", mailbox'[b] # <<>>, fault' = "none"
          PROVE  Waking(b)'
      <3>1. CASE mailbox[b] = <<>>
        <4>1. b = a
          BY <2>3, <2>8, <3>1 DEF TypeOK, QueueTypes
        <4> QED
          BY <1>1, <2>7, <2>8, <3>1, <4>1
      <3>2. CASE mailbox[b] # <<>>
        <4>1. Waking(b)
          BY <1>1, <2>8, <3>2 DEF NoLostWakeup, Waking
        <4> QED
          BY <1>2, <2>6, <4>1, WakesSurvive
      <3> QED
        BY <3>1, <3>2
    <2> QED
      BY <2>8 DEF NoLostWakeup, Waking
  <1> QED
    BY <1>3, <1>4

LEMMA HandleResumeWakes ==
    ASSUME TypeOK, NoLostWakeup, NEW t \in Thread, HandleResume(t)
    PROVE  NoLostWakeup'
  <1> DEFINE a == Head(tasks[t]).actor
  <1> SUFFICES ASSUME NEW b \in Actor, state'[b] = "IDLE", mailbox'[b] # <<>>, fault' = "none"
               PROVE  Waking(b)'
    BY DEF NoLostWakeup, Waking
  <1>1. /\ state' = state /\ mailbox' = mailbox /\ fault = "none"
        /\ pc[t] # "resume" /\ tasks[t] # <<>> /\ Dequeue(t)
        /\ current' = [current EXCEPT ![t] = a] /\ Goto(t, "resume")
    BY DEF HandleResume, Pops, At, Runs
  <1>2. KeepsResumes
    BY <1>1, OthersResume DEF TypeOK, PC
  <1>3. Waking(b)
    BY <1>1 DEF NoLostWakeup, Waking
  <1>4. PICK u \in Thread :
          Queued(u, ResumeTask(b)) \/ (pc[u] = "resume" /\ current[u] = b)
    BY <1>3 DEF Waking
  <1>5. CASE pc[u] = "resume" /\ current[u] = b
    BY <1>2, <1>5 DEF KeepsResumes, Waking
  <1>6. CASE Queued(u, ResumeTask(b)) /\ (u = t => ResumeTask(b) # Head(tasks[t]))
    <2>1. Queued(u, ResumeTask(b))'
      BY <1>1, <1>6, DequeueKeepsWakes, ResumeTasksAreTasks DEF TypeOK
    <2> QED
      BY <2>1 DEF Waking
  <1>7. CASE ResumeTask(b) = Head(tasks[t])
    <2>1. a = b
      BY <1>7 DEF ResumeTask
    <2>2. pc'[t] = "resume" /\ current'[t] = b
      BY <1>1, <2>1 DEF TypeOK, ThreadTypes, Goto
    <2> QED
      BY <2>2 DEF Waking
  <1> QED
    BY <1>4, <1>5, <1>6, <1>7

LEMMA ResumeWakes ==
    ASSUME TypeOK, HasCurrent, NoLostWakeup, NEW t \in Thread, Resume(t)
    PROVE  NoLostWakeup'
  <1> DEFINE a == current[t]
  <1> SUFFICES ASSUME NEW b \in Actor, state'[b] = "IDLE", mailbox'[b] # <<>>, fault' = "none"
               PROVE  Waking(b)'
    BY DEF NoLostWakeup, Waking
  <1>1. /\ state' = [state EXCEPT ![a] = "ACTIVE"]
        /\ tasks' = tasks /\ current' = current /\ Goto(t, "receive")
        /\ fault = "none"
        /\ \/ mailbox' = mailbox
           \/ mailbox' = [mailbox EXCEPT ![a] = Tail(@)]
    BY DEF Resume, At, Runs
  <1>2. b # a
    BY <1>1 DEF TypeOK, ObjectTypes
  <1>3. state[b] = "IDLE" /\ mailbox[b] # <<>>
    BY <1>1, <1>2 DEF TypeOK, ObjectTypes, QueueTypes
  <1>4. PICK u \in Thread :
          Queued(u, ResumeTask(b)) \/ (pc[u] = "resume" /\ current[u] = b)
    BY <1>1, <1>3 DEF NoLostWakeup
  <1>5. CASE Queued(u, ResumeTask(b))
    BY <1>1, <1>5 DEF Waking, Queued
  <1>6. CASE pc[u] = "resume" /\ current[u] = b
    BY <1>1, <1>2, <1>6 DEF Waking, Goto, TypeOK, ThreadTypes
  <1> QED
    BY <1>4, <1>5, <1>6

(* An actor that waits with mail in its mailbox is about to be woken: no   *)
(* order of sends, receiveBlock() calls, crashes, restarts and removals,   *)
(* on any number of threads, loses the wake-up.                            *)
THEOREM WakeupNeverLost == Spec => []NoLostWakeup
  <1>1. Init => NoLostWakeup
    BY DEF Init, ActorsInit, NoLostWakeup
  <1>2. TypeOK /\ HasCurrent /\ NoLostWakeup /\ [Next]_vars => NoLostWakeup'
    <2> SUFFICES ASSUME TypeOK, HasCurrent, NoLostWakeup, [Next]_vars
                 PROVE  NoLostWakeup'
      OBVIOUS
    <2>1. CASE Next
      <3>1. Main \in Thread /\ Worker \subseteq Thread
        BY DEF Thread
      <3>2. CASE \E t \in Thread : Php(t)
        BY <3>2, QuietPhp, QuietSteps, ReceiveBlockWakes
      <3>3. CASE \E t \in Thread : CrashHandling(t)
        BY <3>3, QuietCrashHandling, QuietSteps
      <3>4. CASE \E t \in Thread : Loop(t)
        BY <3>4, QuietLoop, QuietSteps, HandleSendWakes, HandleResumeWakes, ResumeWakes
        DEF Loop
      <3>5. CASE \/ \E t \in Thread : TouchFreed(t)
                 \/ \E t \in Worker : WorkerEnds(t)
                 \/ MainStep \/ ScriptFails
        BY <3>1, <3>5, QuietEnd, QuietSteps
      <3> QED
        BY <2>1, <3>2, <3>3, <3>4, <3>5 DEF Next, ThreadStep
    <2>2. CASE UNCHANGED vars
      BY <2>2 DEF vars, objectVars, queueVars, threadVars, restVars, NoLostWakeup, Queued
    <2> QED
      BY <2>1, <2>2
  <1> QED
    BY <1>1, <1>2, TypesAlways, PTL DEF Spec

-----------------------------------------------------------------------------
(* Ownership.  An actor that has not been created has no owner yet.        *)
Unowned == \A a \in Actor \ created :
              heap[a] = "live" /\ \A t \in Worker : a \notin actor_removals[t]

Owned == OwnedOnce /\ Unowned

LEMMA GoneRegistered ==
    ASSUME RegistryTypeOK, LinksAgree, NEW a \in Actor
    PROVE  Gone(a) \subseteq by_ref
  <1> SUFFICES ASSUME NEW d \in Gone(a), a \in by_ref, d # a PROVE d \in by_ref
    BY DEF Gone
  <1>1. d \in Below(a)
    BY DEF Gone, Subtree
  <1>2. PICK x \in Subtree(a) : d \in workers[x]
    BY <1>1, BelowLeast DEF RegistryTypeOK
  <1>3. x \in Actor /\ d \in Actor
    BY <1>1, SubtreeClosed DEF RegistryTypeOK, Below
  <1> QED
    BY <1>2, <1>3 DEF LinksAgree

(* Out of the table, and into one thread's actor_removals.                 *)
LEMMA MarkKeepsOwned ==
    ASSUME TypeOK, Owned, NEW S \in SUBSET by_ref, MarkForRemoval(S),
           by_ref' = by_ref \ S, created' = created, heap' = heap
    PROVE  Owned'
  <1>1. /\ actor_removals \in [Worker -> SUBSET Actor]
        /\ \A a \in Actor : thread_offset[a] \in Worker
        /\ by_ref \subseteq created /\ created \subseteq Actor
    BY DEF TypeOK, QueueTypes, RegistryTypeOK
  <1>2. \A t \in Worker :
          actor_removals'[t] = actor_removals[t] \cup {a \in S : thread_offset[a] = t}
    BY DEF MarkForRemoval, ToFree, RemovalThread
  <1>3. OwnedOnce'
    <2> SUFFICES ASSUME NEW a \in Actor
                 PROVE  /\ \A t, u \in Worker :
                             a \in actor_removals'[t] \cap actor_removals'[u] => t = u
                        /\ a \in by_ref' => /\ heap'[a] = "live"
                                            /\ \A t \in Worker : a \notin actor_removals'[t]
                        /\ heap'[a] = "freed" => \A t \in Worker : a \notin actor_removals'[t]
                        /\ a \in created' => \/ a \in by_ref'
                                             \/ heap'[a] = "freed"
                                             \/ \E t \in Worker : a \in actor_removals'[t]
      BY DEF OwnedOnce
    <2>1. CASE a \in S
      <3>1. /\ heap[a] = "live" /\ \A t \in Worker : a \notin actor_removals[t]
            /\ a \notin by_ref'
        BY <2>1 DEF Owned, OwnedOnce
      <3>2. \A t \in Worker : a \in actor_removals'[t] <=> t = thread_offset[a]
        BY <1>2, <2>1, <3>1
      <3> QED
        BY <1>1, <3>1, <3>2
    <2>2. CASE a \notin S
      <3>1. \A t \in Worker : a \in actor_removals'[t] <=> a \in actor_removals[t]
        BY <1>2, <2>2
      <3> QED
        BY <2>2, <3>1 DEF Owned, OwnedOnce
    <2> QED
      BY <2>1, <2>2
  <1>4. Unowned'
    BY <1>1, <1>2 DEF Owned, Unowned
  <1> QED
    BY <1>3, <1>4 DEF Owned

(* Out of the thread's actor_removals, and freed.                          *)
LEMMA FreeKeepsOwned ==
    ASSUME TypeOK, Owned, NEW t \in Worker, FreeActors(t),
           by_ref' = by_ref, created' = created
    PROVE  Owned'
  <1>1. /\ \A u \in Worker : actor_removals'[u] = IF u = t THEN {} ELSE actor_removals[u]
        /\ \A a \in Actor : heap'[a] = IF a \in actor_removals[t] THEN "freed" ELSE heap[a]
    BY DEF FreeActors, TypeOK, QueueTypes
  <1> QED
    BY <1>1 DEF Owned, OwnedOnce, Unowned

LEMMA CreateKeepsOwned ==
    ASSUME TypeOK, Owned, NEW t \in Thread, Create(t)
    PROVE  Owned'
  <1>1. PICK a \in Actor, s \in Actor \cup {NoActor} :
          /\ Insert(a, s)
          /\ IF Refused(a, s)
             THEN heap' = [heap EXCEPT ![a] = "freed"]
             ELSE UNCHANGED heap
    BY DEF Create
  <1>2. actor_removals' = actor_removals
    BY DEF Create, queueVars
  <1>3. a \notin created /\ created' = created \cup {a}
    BY <1>1 DEF Insert
  <1>4. CASE Refused(a, s)
    <2>1. by_ref' = by_ref /\ heap' = [heap EXCEPT ![a] = "freed"] /\ a \notin by_ref
      BY <1>1, <1>3, <1>4 DEF Insert, TypeOK, RegistryTypeOK
    <2> QED
      BY <1>2, <1>3, <2>1 DEF Owned, OwnedOnce, Unowned, TypeOK, ObjectTypes
  <1>5. CASE ~Refused(a, s)
    <2>1. by_ref' = by_ref \cup {a} /\ heap' = heap
      BY <1>1, <1>5 DEF Insert
    <2> QED
      BY <1>2, <1>3, <2>1 DEF Owned, OwnedOnce, Unowned
  <1> QED
    BY <1>4, <1>5

LEMMA OwnersUnchanged ==
    ASSUME Owned, UNCHANGED <<created, by_ref, heap, actor_removals>>
    PROVE  Owned'
  BY DEF Owned, OwnedOnce, Unowned

LEMMA RemoveKeepsOwned ==
    ASSUME TypeOK, LinksAgree, Owned, NEW a \in Actor, Remove(a), MarkForRemoval(Gone(a)),
           heap' = heap
    PROVE  Owned'
  BY GoneRegistered, MarkKeepsOwned DEF Remove, TypeOK

LEMMA OwnedStep ==
    ASSUME TypeOK, HasCurrent, LinksAgree, Owned, Next
    PROVE  Owned'
  <1>1. ASSUME NEW t \in Thread, Php(t)
        PROVE  Owned'
    <2>1. CASE Create(t)
      BY <2>1, CreateKeepsOwned
    <2>2. CASE Return(t)
      <3>1. /\ current[t] \in Actor /\ Remove(current[t])
            /\ MarkForRemoval(Gone(current[t])) /\ heap' = heap
        BY <2>2 DEF Return, At, HasCurrent, Running
      <3> QED
        BY <3>1, RemoveKeepsOwned
    <2>3. CASE ~Create(t) /\ ~Return(t)
      <3>1. UNCHANGED <<created, by_ref, heap, actor_removals>>
        BY <1>1, <2>3 DEF Php, Schedule, Promote, Add, Send, WriteRef, Shutdown, BlockInCtor,
           ReceiveBlock, Swap, Throw, CtorReturn, SupervisorConstruct, AddWorker,
           registryVars, objectVars, queueVars
      <3> QED
        BY <3>1, OwnersUnchanged
    <2> QED
      BY <2>1, <2>2, <2>3
  <1>2. ASSUME NEW t \in Thread, CrashHandling(t)
        PROVE  Owned'
    <2>1. CASE CrashRemove(t)
      <3>1. /\ current[t] \in Actor /\ Remove(current[t])
            /\ MarkForRemoval(Gone(current[t])) /\ heap' = heap
        BY <2>1 DEF CrashRemove, At, HasCurrent, Running
      <3> QED
        BY <3>1, RemoveKeepsOwned
    <2>2. CASE ~CrashRemove(t)
      <3>1. UNCHANGED <<created, by_ref, heap, actor_removals>>
        BY <1>2, <2>2 DEF CrashHandling, CrashRestart, CrashEscalate, RestartWorker,
           WorkersRestarted, registryVars, objectVars, queueVars
      <3> QED
        BY <3>1, OwnersUnchanged
    <2> QED
      BY <2>1, <2>2
  <1>3. ASSUME NEW t \in Thread, Loop(t)
        PROVE  Owned'
    <2>1. CASE PerformActorRemovals(t) /\ t # Main
      <3>1. t \in Worker /\ FreeActors(t) /\ UNCHANGED <<created, by_ref>>
        BY <2>1 DEF PerformActorRemovals, registryVars, Thread
      <3> QED
        BY <3>1, FreeKeepsOwned
    <2>2. CASE ~PerformActorRemovals(t) \/ t = Main
      <3>1. UNCHANGED <<created, by_ref, heap, actor_removals>>
        BY <1>3, <2>2 DEF Loop, PerformActorRemovals, HandleSend, HandleResume, HandleNew,
           HandleFree, Resume, StartReceive, FindNothing, CheckShutdown, registryVars,
           objectVars, queueVars
      <3> QED
        BY <3>1, OwnersUnchanged
    <2> QED
      BY <2>1, <2>2
  <1>4. ASSUME NEW t \in Worker, WorkerEnds(t)
        PROVE  Owned'
    BY <1>4, FreeKeepsOwned DEF WorkerEnds, FinalRemovals, registryVars
  <1>5. CASE SchedulerEnds
    BY <1>5, MarkKeepsOwned DEF SchedulerEnds, DestroyTables
  <1>6. ASSUME NEW t \in Thread, TouchFreed(t) \/ ScriptEnds \/ Join \/ ScriptFails
        PROVE  Owned'
    <2>1. UNCHANGED <<created, by_ref, heap, actor_removals>>
      BY <1>6 DEF TouchFreed, ScriptEnds, Join, ScriptFails, registryVars, objectVars, queueVars
    <2> QED
      BY <2>1, OwnersUnchanged
  <1>7. Main \in Thread
    BY DEF Thread
  <1> QED
    BY <1>1, <1>2, <1>3, <1>4, <1>5, <1>6, <1>7 DEF Next, ThreadStep, MainStep

LEMMA OwnedAlways == Spec => []Owned
  <1>1. Init => Owned
    BY ThreadAssumption DEF Init, RegistryInit, ActorsInit, ThreadsInit, Owned, OwnedOnce, Unowned
  <1>2. TypeOK /\ HasCurrent /\ LinksAgree /\ Owned /\ [Next]_vars => Owned'
    <2>1. UNCHANGED vars /\ Owned => Owned'
      BY OwnersUnchanged DEF vars, registryVars, objectVars, queueVars
    <2> QED
      BY <2>1, OwnedStep
  <1>3. Spec => []LinksAgree
    BY ImplementsRegistry, LinksAlwaysAgree, PTL
  <1> QED
    BY <1>1, <1>2, <1>3, TypesAlways, PTL DEF Spec

(* An actor is freed at most once, never while it is registered, and never *)
(* forgotten: table, actor_removals and free store share it out exactly.   *)
THEOREM AlwaysOwnedOnce == Spec => []OwnedOnce
  <1>1. Owned => OwnedOnce
    BY DEF Owned
  <1> QED
    BY <1>1, OwnedAlways, PTL

-----------------------------------------------------------------------------
(* Which thread an actor is on: where its tasks are queued, who runs it    *)
(* and who frees it; and what is left when the threads have ended.         *)

(* An actor may be handed to a thread once its creator has written its     *)
(* thread_offset; one handed over earlier is in raced.                     *)
Started(a) == a \in created /\ (a \notin raced => a \notin Unscheduled)
Homely(a, t) == Started(a) /\ (a \notin raced => t = thread_offset[a])

RunsOn(a, t) == current[t] = a /\ pc[t] # "crash"
AwaitsFree(a, t) == t \in Worker /\ a \in actor_removals[t]
AwaitsTask(a, t) == \E task \in {ResumeTask(a), NewTask(a), FreeTask(a)} : Queued(t, task)

Confined == \A a \in Actor, t \in Thread :
    RunsOn(a, t) \/ AwaitsFree(a, t) \/ AwaitsTask(a, t) => Homely(a, t)

(* What Confined needs: the main thread wakes idle actors only, the actors *)
(* that threads point to have been created, and each has one creator.      *)
IdleStarted == \A a \in Actor : state[a] = "IDLE" => Started(a)
Known == \A t \in Thread : {current[t], boss[t], newborn[t]} \subseteq created \cup {NoActor}
OneCreator == \A t, u \in Thread : newborn[t] = newborn[u] /\ newborn[t] # NoActor => t = u

AtHome == Confined /\ IdleStarted /\ Known /\ OneCreator
Typed == TypeOK /\ HasCurrent /\ LinksAgree

(* Once in its place, an actor stays there.                                *)
Settled == /\ \A a \in Actor : Started(a) => Started(a)'
           /\ \A a \in Actor, t \in Thread : Homely(a, t) => Homely(a, t)'
NewRuns == \A a \in Actor, t \in Thread :
    RunsOn(a, t)' => RunsOn(a, t) \/ AwaitsTask(a, t) \/ Homely(a, t)'
NewRemovals == \A a \in Actor, t \in Worker :
    a \in actor_removals'[t] => a \in actor_removals[t] \/ Homely(a, t)'
NewTasks == \A a \in Actor, t \in Thread :
    AwaitsTask(a, t)' => AwaitsTask(a, t) \/ Homely(a, t)'

LEMMA StaysConfined ==
    ASSUME Confined, Settled, NewRuns, NewRemovals, NewTasks
    PROVE  Confined'
  <1> SUFFICES ASSUME NEW a \in Actor, NEW t \in Thread,
                      RunsOn(a, t)' \/ AwaitsFree(a, t)' \/ AwaitsTask(a, t)'
               PROVE  Homely(a, t)'
    BY DEF Confined
  <1>1. RunsOn(a, t)' => RunsOn(a, t) \/ AwaitsTask(a, t) \/ Homely(a, t)'
    BY DEF NewRuns
  <1>2. AwaitsFree(a, t)' => AwaitsFree(a, t) \/ Homely(a, t)'
    BY DEF NewRemovals, AwaitsFree
  <1>3. AwaitsTask(a, t)' => AwaitsTask(a, t) \/ Homely(a, t)'
    BY DEF NewTasks
  <1>4. Homely(a, t) => Homely(a, t)'
    BY DEF Settled
  <1>5. RunsOn(a, t) \/ AwaitsFree(a, t) \/ AwaitsTask(a, t) => Homely(a, t)
    BY DEF Confined
  <1> QED
    BY <1>1, <1>2, <1>3, <1>4, <1>5

-----------------------------------------------------------------------------
(* Who has been created, and whose thread_offset is written.               *)
LEMMA NothingMoves ==
    ASSUME TypeOK, created' = created, newborn' = newborn, thread_offset' = thread_offset,
           raced \subseteq raced'
    PROVE  Settled
  BY DEF Settled, Started, Homely, Unscheduled

LEMMA CreateSettles ==
    ASSUME TypeOK, Known, OneCreator, NEW t \in Thread, Create(t)
    PROVE  Settled /\ Known' /\ OneCreator'
  <1>1. PICK a \in Actor, s \in Actor \cup {NoActor} :
          /\ Insert(a, s)
          /\ newborn' = newborn \/ newborn' = [newborn EXCEPT ![t] = a]
    BY DEF Create
  <1>2. /\ a \notin created /\ created' = created \cup {a}
        /\ newborn \in [Thread -> Actor \cup {NoActor}]
        /\ UNCHANGED <<current, boss, thread_offset, raced>>
    BY <1>1 DEF Insert, Create, queueVars, restVars, TypeOK, ThreadTypes
  <1>3. Unscheduled' \subseteq Unscheduled \cup {a}
    BY <1>1, <1>2 DEF Unscheduled
  <1>4. \A b \in Actor : Started(b) => Started(b)'
    BY <1>2, <1>3 DEF Started
  <1>5. Settled
    BY <1>2, <1>4 DEF Settled, Homely
  <1>6. Known'
    BY <1>1, <1>2 DEF Known
  <1>7. OneCreator'
    BY <1>1, <1>2, ActorAssumption DEF OneCreator, Known
  <1> QED
    BY <1>5, <1>6, <1>7

LEMMA ScheduleSettles ==
    ASSUME TypeOK, Known, OneCreator, NEW t \in Thread,
           NEW a \in Actor, NEW o \in Worker, newborn[t] = a,
           thread_offset' = [thread_offset EXCEPT ![a] = o],
           newborn' = [newborn EXCEPT ![t] = NoActor],
           UNCHANGED <<created, current, boss, raced>>
    PROVE  Settled /\ Known' /\ OneCreator' /\ Homely(a, o)'
  <1>1. /\ newborn \in [Thread -> Actor \cup {NoActor}]
        /\ thread_offset \in [Actor -> Worker]
    BY DEF TypeOK, ThreadTypes, QueueTypes
  <1>2. a \in Unscheduled /\ a \in created
    BY ActorAssumption DEF Unscheduled, Known
  <1>3. Unscheduled' = Unscheduled \ {a}
    BY <1>1, ActorAssumption DEF Unscheduled, OneCreator
  <1>4. \A b \in Actor : Started(b) => Started(b)'
    BY <1>3 DEF Started
  <1>5. \A b \in Actor, u \in Thread : Homely(b, u) => Homely(b, u)'
    BY <1>1, <1>2, <1>4 DEF Homely, Started
  <1>6. Known' /\ OneCreator'
    BY <1>1, ActorAssumption DEF Known, OneCreator
  <1>7. Homely(a, o)'
    BY <1>1, <1>2, <1>3 DEF Homely, Started
  <1> QED
    BY <1>4, <1>5, <1>6, <1>7 DEF Settled
(* Every other step: at most t's own pointers change.                      *)
Pointers == created \cup {NoActor}
Steady(t) ==
    /\ created' = created /\ newborn' = newborn /\ thread_offset' = thread_offset
    /\ raced \subseteq raced'
    /\ current' = current \/ \E x \in Pointers : current' = [current EXCEPT ![t] = x]
    /\ boss' = boss \/ \E x \in Pointers : boss' = [boss EXCEPT ![t] = x]

LEMMA SteadySettles ==
    ASSUME TypeOK, Known, OneCreator, NEW t \in Thread, Steady(t)
    PROVE  Settled /\ Known' /\ OneCreator'
  <1>1. Settled
    BY NothingMoves DEF Steady
  <1>2. Known'
    BY DEF Steady, Known, Pointers, TypeOK, ThreadTypes
  <1>3. OneCreator'
    BY DEF Steady, OneCreator
  <1> QED
    BY <1>1, <1>2, <1>3

LEMMA BossesKnown ==
    ASSUME Typed, NEW a \in Actor
    PROVE  supervisor[a] \in Pointers
  <1>1. CASE supervisor[a] # NoActor
    <2>1. supervisor[a] \in Actor /\ a \in workers[supervisor[a]]
      BY <1>1 DEF Typed, TypeOK, RegistryTypeOK, LinksAgree
    <2> QED
      BY <2>1 DEF Typed, TypeOK, RegistryTypeOK, LinksAgree, Pointers
  <1> QED
    BY <1>1 DEF Pointers

LEMMA CrashSteady ==
    ASSUME Typed, NEW t \in Thread, NEW a \in Actor, a \in created, Crash(t, a),
           UNCHANGED <<created, newborn, thread_offset, raced>>
    PROVE  Steady(t)
  BY BossesKnown DEF Crash, Steady, Pointers

LEMMA PhpSteady ==
    ASSUME Typed, Known, NEW t \in Thread, Php(t), ~Create(t), ~Schedule(t)
    PROVE  Steady(t)
  <1>1. CASE Throw(t)
    <2>1. current[t] \in Actor /\ current[t] \in created
      BY <1>1, ActorAssumption DEF Throw, At, Typed, HasCurrent, Running, Known
    <2> QED
      BY <1>1, <2>1, CrashSteady DEF Throw, registryVars, queueVars, restVars
  <1>2. CASE Return(t)
    BY <1>2 DEF Return, Remove, MarkForRemoval, Rest, Steady, Pointers
  <1>3. CASE Swap(t)
    BY <1>3 DEF Swap, Rest, registryVars, queueVars, restVars, Steady, Pointers
  <1>4. CASE \/ Promote(t) \/ Add(t) \/ Send(t) \/ WriteRef(t) \/ Shutdown(t) \/ BlockInCtor(t)
             \/ ReceiveBlock(t) \/ CtorReturn(t)
    BY <1>4 DEF Promote, Add, Send, WriteRef, Shutdown, BlockInCtor, ReceiveBlock, CtorReturn,
       SupervisorConstruct, AddWorker, registryVars, queueVars, threadVars, restVars, Steady
  <1> QED
    BY <1>1, <1>2, <1>3, <1>4 DEF Php

LEMMA CrashHandlingSteady ==
    ASSUME Typed, Known, NEW t \in Thread, CrashHandling(t)
    PROVE  Steady(t)
  <1>1. CASE CrashRemove(t)
    BY <1>1 DEF CrashRemove, Remove, MarkForRemoval, Rest, Steady, Pointers
  <1>2. CASE CrashRestart(t)
    BY <1>2 DEF CrashRestart, OneForOne, Rest, registryVars, Steady, Pointers
  <1>3. CASE CrashEscalate(t)
    <2>1. boss[t] \in Actor /\ boss[t] \in created
      BY <1>3 DEF CrashEscalate, Known, Typed, TypeOK, ThreadTypes
    <2> QED
      BY <1>3, <2>1, CrashSteady DEF CrashEscalate, registryVars, queueVars, restVars
  <1>4. CASE RestartWorker(t) \/ WorkersRestarted(t)
    BY <1>4 DEF RestartWorker, WorkersRestarted, OneForOne, registryVars, queueVars,
       restVars, Steady
  <1> QED
    BY <1>1, <1>2, <1>3, <1>4 DEF CrashHandling

LEMMA LoopSteady ==
    ASSUME Typed, Known, NEW t \in Thread, Loop(t)
    PROVE  Steady(t)
  <1>1. by_ref \subseteq created
    BY DEF Typed, TypeOK, RegistryTypeOK
  <1>2. CASE HandleNew(t)
    BY <1>1, <1>2 DEF HandleNew, registryVars, restVars, Steady, Pointers
  <1>3. CASE HandleResume(t)
    BY <1>1, <1>3 DEF HandleResume, JumpFault, registryVars, Steady, Pointers
  <1>4. CASE \/ PerformActorRemovals(t) \/ HandleSend(t) \/ HandleFree(t) \/ Resume(t)
             \/ StartReceive(t) \/ FindNothing(t) \/ CheckShutdown(t)
    BY <1>4 DEF PerformActorRemovals, HandleSend, HandleFree, Resume, StartReceive,
       FindNothing, CheckShutdown, registryVars, queueVars, restVars, Steady
  <1> QED
    BY <1>2, <1>3, <1>4 DEF Loop

LEMMA EndSteady ==
    ASSUME NEW t \in Thread,
           TouchFreed(t) \/ WorkerEnds(t) \/ MainStep \/ ScriptFails
    PROVE  Steady(t)
  BY DEF TouchFreed, WorkerEnds, FinalRemovals, MainStep, ScriptEnds, SchedulerEnds, Join,
     ScriptFails, DestroyTables, MarkForRemoval, registryVars, queueVars, threadVars,
     restVars, Steady
-----------------------------------------------------------------------------
(* Who runs: a thread takes up an actor only from its own queue.           *)
LEMMA RunsKept ==
    ASSUME TypeOK, NEW t \in Thread,
           \/ pc' = pc /\ current' = current
           \/ pc[t] # "crash" /\ current' = current /\ \E label \in PC : Goto(t, label)
           \/ \E label \in PC : Rest(t, label)
           \/ \E a \in Actor : Crash(t, a)
    PROVE  NewRuns
  BY ActorAssumption DEF TypeOK, ThreadTypes, Goto, Rest, Crash, NewRuns, RunsOn

LEMMA HeadAwaits ==
    ASSUME TypeOK, NEW t \in Thread, tasks[t] # <<>>, NEW a \in Actor,
           Head(tasks[t]) \in {ResumeTask(a), NewTask(a), FreeTask(a)}
    PROVE  AwaitsTask(a, t)
  <1>1. tasks[t] \in Seq(Task)
    BY DEF TypeOK, QueueTypes
  <1>2. 1 \in DOMAIN tasks[t] /\ tasks[t][1] = Head(tasks[t])
    BY <1>1
  <1> QED
    BY <1>2 DEF AwaitsTask, Queued

LEMMA HeadIs ==
    ASSUME TypeOK, NEW t \in Thread, tasks[t] # <<>>
    PROVE  LET task == Head(tasks[t])
           IN  /\ task.type = "RESUME_ACTOR" => task = ResumeTask(task.actor)
               /\ task.type = "NEW_ACTOR" => task = NewTask(task.actor)
               /\ task.type # "SEND_MESSAGE" => task.actor \in Actor
  <1>1. Head(tasks[t]) \in Task
    BY DequeueTypes DEF TypeOK
  <1> QED
    BY <1>1 DEF Task, ResumeTask, NewTask

LEMMA PhpRuns ==
    ASSUME Typed, NEW t \in Thread, Php(t)
    PROVE  NewRuns
  <1>1. CASE Throw(t)
    BY <1>1, RunsKept DEF Throw, At, Typed, HasCurrent, Running
  <1>2. CASE Return(t) \/ Swap(t)
    BY <1>2, RunsKept DEF Return, Swap, Typed, PC
  <1>3. CASE ReceiveBlock(t) \/ CtorReturn(t) \/ Add(t)
    BY <1>3, RunsKept DEF ReceiveBlock, CtorReturn, Add, At, RunsPhp, Typed, PC
  <1>4. CASE \/ Create(t) \/ Schedule(t) \/ Promote(t) \/ Send(t) \/ WriteRef(t) \/ Shutdown(t)
             \/ BlockInCtor(t)
    BY <1>4, RunsKept DEF Create, Schedule, Promote, Send, WriteRef, Shutdown, BlockInCtor,
       threadVars, Typed
  <1> QED
    BY <1>1, <1>2, <1>3, <1>4 DEF Php

LEMMA CrashHandlingRuns ==
    ASSUME Typed, NEW t \in Thread, CrashHandling(t)
    PROVE  NewRuns
  <1>1. CASE CrashRemove(t) \/ CrashRestart(t)
    BY <1>1, RunsKept DEF CrashRemove, CrashRestart, Typed, PC
  <1>2. CASE CrashEscalate(t)
    BY <1>2, RunsKept DEF CrashEscalate, Typed, TypeOK, ThreadTypes
  <1>3. CASE RestartWorker(t) \/ WorkersRestarted(t)
    BY <1>3, RunsKept DEF RestartWorker, WorkersRestarted, At, Typed, PC
  <1> QED
    BY <1>1, <1>2, <1>3 DEF CrashHandling

LEMMA LoopRuns ==
    ASSUME Typed, NEW t \in Thread, Loop(t)
    PROVE  NewRuns
  <1>1. CASE HandleNew(t) \/ HandleResume(t)
    <2> DEFINE a == Head(tasks[t]).actor
    <2>1. a \in Actor /\ AwaitsTask(a, t)
      BY <1>1, HeadIs, HeadAwaits DEF HandleNew, HandleResume, Pops, Typed
    <2>2. \/ UNCHANGED <<current, pc>>
          \/ current' = current /\ Goto(t, "loop") /\ pc[t] # "crash"
          \/ current' = [current EXCEPT ![t] = a] /\ \E label \in PC : Goto(t, label)
      BY <1>1 DEF HandleNew, HandleResume, Pops, At, PC
    <2>3. CASE current' = current
      BY <2>2, <2>3, RunsKept, <1>1 DEF Typed, PC, HandleNew, HandleResume, Pops, At
    <2>4. CASE current' = [current EXCEPT ![t] = a] /\ \E label \in PC : Goto(t, label)
      <3> HIDE DEF a
      <3> QED
        BY <2>1, <2>4 DEF NewRuns, RunsOn, Goto, Typed, TypeOK, ThreadTypes
    <2> QED
      BY <2>2, <2>3, <2>4
  <1>2. CASE \/ PerformActorRemovals(t) \/ HandleSend(t) \/ HandleFree(t) \/ Resume(t)
             \/ StartReceive(t) \/ FindNothing(t) \/ CheckShutdown(t)
    <2>1. /\ current' = current /\ pc[t] # "crash"
          /\ \E label \in PC : Goto(t, label)
      BY <1>2 DEF PerformActorRemovals, HandleSend, HandleFree, Resume, StartReceive,
         FindNothing, CheckShutdown, Pops, At, PC
    <2> QED
      BY <2>1, RunsKept DEF Typed
  <1> QED
    BY <1>1, <1>2 DEF Loop

LEMMA EndRuns ==
    ASSUME Typed, NEW t \in Thread,
           TouchFreed(t) \/ WorkerEnds(t) \/ MainStep \/ ScriptFails
    PROVE  NewRuns
  <1>1. CASE TouchFreed(t) \/ ScriptFails
    BY <1>1, RunsKept DEF TouchFreed, ScriptFails, threadVars, Typed
  <1>2. CASE WorkerEnds(t)
    BY <1>2, RunsKept DEF WorkerEnds, FinalRemovals, At, Typed, PC
  <1>3. CASE MainStep
    <2>1. /\ current' = current /\ pc[Main] # "crash" /\ Main \in Thread
          /\ \E label \in PC : Goto(Main, label)
      BY <1>3 DEF MainStep, ScriptEnds, SchedulerEnds, Join, At, PC, Thread
    <2> QED
      BY <2>1, RunsKept DEF Typed
  <1> QED
    BY <1>1, <1>2, <1>3
-----------------------------------------------------------------------------
(* Who frees: an actor taken out of the table goes to its own thread.      *)
LEMMA FewerRemovals ==
    ASSUME TypeOK, \/ actor_removals' = actor_removals
                   \/ \E u \in Worker : FreeActors(u)
    PROVE  NewRemovals
  BY DEF TypeOK, QueueTypes, FreeActors, NewRemovals

LEMMA MarkedGoHome ==
    ASSUME Typed, NEW S \in SUBSET by_ref, MarkForRemoval(S),
           UNCHANGED <<created, newborn, thread_offset>>
    PROVE  NewRemovals
  <1> SUFFICES ASSUME NEW a \in Actor, NEW t \in Worker, a \in actor_removals'[t],
                      a \notin actor_removals[t]
               PROVE  Homely(a, t)'
    BY DEF NewRemovals
  <1>1. a \in S /\ thread_offset[a] = t
    BY DEF MarkForRemoval, ToFree, RemovalThread
  <1>2. a \in created
    BY <1>1 DEF Typed, TypeOK, RegistryTypeOK
  <1>3. raced' = raced \cup (S \cap Unscheduled)
    BY DEF MarkForRemoval
  <1> QED
    BY <1>1, <1>2, <1>3 DEF Homely, Started, Unscheduled

LEMMA RemovedGoHome ==
    ASSUME Typed, NEW a \in Actor, Remove(a), MarkForRemoval(Gone(a)),
           UNCHANGED <<newborn, thread_offset>>
    PROVE  NewRemovals
  <1>1. Gone(a) \subseteq by_ref
    BY GoneRegistered DEF Typed, TypeOK
  <1> QED
    BY <1>1, MarkedGoHome DEF Remove

LEMMA PhpRemovals ==
    ASSUME Typed, NEW t \in Thread, Php(t)
    PROVE  NewRemovals
  <1>1. CASE Return(t)
    BY <1>1, RemovedGoHome DEF Return, At, Typed, HasCurrent, Running
  <1>2. CASE ~Return(t)
    <2>1. actor_removals' = actor_removals
      BY <1>2 DEF Php, Create, Schedule, Promote, Add, Send, WriteRef, Shutdown, BlockInCtor,
         ReceiveBlock, Swap, Throw, CtorReturn, queueVars
    <2> QED
      BY <2>1, FewerRemovals DEF Typed
  <1> QED
    BY <1>1, <1>2

LEMMA CrashHandlingRemovals ==
    ASSUME Typed, NEW t \in Thread, CrashHandling(t)
    PROVE  NewRemovals
  <1>1. CASE CrashRemove(t)
    BY <1>1, RemovedGoHome DEF CrashRemove, At, Typed, HasCurrent, Running
  <1>2. CASE ~CrashRemove(t)
    <2>1. actor_removals' = actor_removals
      BY <1>2 DEF CrashHandling, CrashRestart, CrashEscalate, RestartWorker,
         WorkersRestarted, queueVars
    <2> QED
      BY <2>1, FewerRemovals DEF Typed
  <1> QED
    BY <1>1, <1>2

LEMMA LoopRemovals ==
    ASSUME Typed, NEW t \in Thread, Loop(t)
    PROVE  NewRemovals
  <1>1. CASE PerformActorRemovals(t)
    BY <1>1, FewerRemovals DEF PerformActorRemovals, Typed, Thread
  <1>2. CASE ~PerformActorRemovals(t)
    <2>1. actor_removals' = actor_removals
      BY <1>2 DEF Loop, HandleSend, HandleResume, HandleNew, HandleFree, Resume,
         StartReceive, FindNothing, CheckShutdown, queueVars
    <2> QED
      BY <2>1, FewerRemovals DEF Typed
  <1> QED
    BY <1>1, <1>2

LEMMA EndRemovals ==
    ASSUME Typed, NEW t \in Thread,
           TouchFreed(t) \/ (t \in Worker /\ WorkerEnds(t)) \/ MainStep \/ ScriptFails
    PROVE  NewRemovals
  <1>1. CASE SchedulerEnds
    BY <1>1, MarkedGoHome DEF SchedulerEnds, DestroyTables
  <1>2. CASE ~SchedulerEnds
    <2>1. actor_removals' = actor_removals \/ \E u \in Worker : FreeActors(u)
      BY <1>2 DEF TouchFreed, WorkerEnds, FinalRemovals, MainStep, ScriptEnds, Join,
         ScriptFails, queueVars
    <2> QED
      BY <2>1, FewerRemovals DEF Typed
  <1> QED
    BY <1>1, <1>2

-----------------------------------------------------------------------------
(* Who is queued: every task goes to the thread of its actor.              *)
LEMMA EnqueueAdds ==
    ASSUME TypeOK, NEW u \in Thread, NEW s \in Seq(Task), Enqueue(u, s)
    PROVE  \A t \in Thread : \A task : Queued(t, task)' =>
             Queued(t, task) \/ (t = u /\ \E i \in DOMAIN s : s[i] = task)
  <1> SUFFICES ASSUME NEW t \in Thread, NEW task, Queued(t, task)'
               PROVE  Queued(t, task) \/ (t = u /\ \E i \in DOMAIN s : s[i] = task)
    OBVIOUS
  <1>1. tasks' = [tasks EXCEPT ![u] = @ \o s] /\ tasks \in [Thread -> Seq(Task)]
    BY DEF Enqueue, TypeOK, QueueTypes
  <1>2. PICK i \in DOMAIN tasks'[t] : tasks'[t][i] = task
    BY DEF Queued
  <1>3. CASE t # u
    BY <1>1, <1>2, <1>3 DEF Queued
  <1>4. CASE t = u
    <2>1. tasks'[t] = tasks[u] \o s /\ tasks[u] \in Seq(Task)
      BY <1>1, <1>4
    <2>2. CASE i \in DOMAIN tasks[u]
      BY <1>2, <1>4, <2>1, <2>2 DEF Queued
    <2>3. CASE i \notin DOMAIN tasks[u]
      <3>1. i - Len(tasks[u]) \in DOMAIN s /\ s[i - Len(tasks[u])] = task
        BY <1>2, <2>1, <2>3
      <3> QED
        BY <1>4, <3>1
    <2> QED
      BY <2>2, <2>3
  <1> QED
    BY <1>3, <1>4

LEMMA DequeueRemoves ==
    ASSUME TypeOK, NEW u \in Thread, tasks[u] # <<>>, Dequeue(u)
    PROVE  \A t \in Thread : \A task : Queued(t, task)' => Queued(t, task)
  <1> SUFFICES ASSUME NEW t \in Thread, NEW task, Queued(t, task)'
               PROVE  Queued(t, task)
    OBVIOUS
  <1>1. tasks' = [tasks EXCEPT ![u] = Tail(@)] /\ tasks \in [Thread -> Seq(Task)]
    BY DEF Dequeue, TypeOK, QueueTypes
  <1>2. PICK i \in DOMAIN tasks'[t] : tasks'[t][i] = task
    BY DEF Queued
  <1>3. CASE t # u
    BY <1>1, <1>2, <1>3 DEF Queued
  <1>4. CASE t = u
    <2>1. i + 1 \in DOMAIN tasks[u] /\ tasks[u][i + 1] = task
      BY <1>1, <1>2, <1>4
    <2> QED
      BY <1>4, <2>1 DEF Queued
  <1> QED
    BY <1>3, <1>4

LEMMA NoNewTasks ==
    ASSUME \A t \in Thread : \A task : Queued(t, task)' => Queued(t, task)
    PROVE  NewTasks
  BY DEF NewTasks, AwaitsTask

(* Tasks of one actor, queued where it belongs.                            *)
Concerns(task, a) == task \in {ResumeTask(a), NewTask(a), FreeTask(a)}

LEMMA TasksGoHome ==
    ASSUME TypeOK, NEW a \in Actor, NEW u \in Thread, NEW s \in Seq(Task),
           \A t \in Thread : \A task : Queued(t, task)' =>
               Queued(t, task) \/ (t = u /\ \E i \in DOMAIN s : s[i] = task),
           \A i \in DOMAIN s : Concerns(s[i], a),
           s # <<>> => Homely(a, u)'
    PROVE  NewTasks
  <1> SUFFICES ASSUME NEW b \in Actor, NEW t \in Thread, AwaitsTask(b, t)',
                      ~AwaitsTask(b, t)
               PROVE  Homely(b, t)'
    BY DEF NewTasks
  <1>1. PICK task \in {ResumeTask(b), NewTask(b), FreeTask(b)} : Queued(t, task)'
    BY DEF AwaitsTask
  <1>2. ~Queued(t, task)
    BY <1>1 DEF AwaitsTask
  <1>3. PICK i \in DOMAIN s : s[i] = task
    BY <1>1, <1>2
  <1>4. a = b
    BY <1>1, <1>3 DEF Concerns, ResumeTask, NewTask, FreeTask
  <1>5. t = u /\ s # <<>>
    BY <1>1, <1>2, <1>3
  <1> QED
    BY <1>4, <1>5
LEMMA SameTasks ==
    ASSUME tasks' = tasks
    PROVE  NewTasks
  BY NoNewTasks DEF Queued

LEMMA RestartedGoHome ==
    ASSUME Typed, NEW w \in Actor, w \in created, OneForOne(w),
           UNCHANGED <<created, newborn, thread_offset>>
    PROVE  NewTasks
  <1> DEFINE s == RestartTasks(w)
  <1>1. s \in Seq(Task)
    BY TasksAreTasks DEF RestartTasks
  <1>2. \A i \in DOMAIN s : Concerns(s[i], w)
    BY DEF RestartTasks, Concerns
  <1>3. PICK u \in Thread : u = thread_offset[w]
    BY DEF Typed, TypeOK, QueueTypes, Thread
  <1>4. Enqueue(u, s) /\ raced' = raced \cup ({w} \cap Unscheduled)
    BY <1>3 DEF OneForOne, RestartThread
  <1> HIDE DEF s
  <1>5. Unscheduled' = Unscheduled
    BY DEF Unscheduled
  <1>6. Homely(w, u)'
    BY <1>3, <1>4, <1>5 DEF Homely, Started
  <1>7. \A t \in Thread : \A task : Queued(t, task)' =>
          Queued(t, task) \/ (t = u /\ \E i \in DOMAIN s : s[i] = task)
    BY <1>1, <1>4, EnqueueAdds DEF Typed
  <1> QED
    BY <1>1, <1>2, <1>6, <1>7, TasksGoHome DEF Typed
LEMMA PhpTasks ==
    ASSUME Typed, AtHome, NEW t \in Thread, Php(t)
    PROVE  NewTasks
  <1>1. CASE Schedule(t)
    <2>1. PICK a \in Actor, o \in Worker :
            /\ newborn[t] = a
            /\ thread_offset' = [thread_offset EXCEPT ![a] = o]
            /\ Enqueue(o, <<NewTask(a)>>)
            /\ newborn' = [newborn EXCEPT ![t] = NoActor]
            /\ UNCHANGED <<created, current, boss, raced>>
      BY <1>1 DEF Schedule, registryVars, restVars
    <2>2. Homely(a, o)'
      BY <2>1, ScheduleSettles DEF Typed, AtHome
    <2> DEFINE s == <<NewTask(a)>>
    <2>3. s \in Seq(Task) /\ o \in Thread /\ Enqueue(o, s)
      BY <2>1, TasksAreTasks DEF Thread
    <2>4. \A i \in DOMAIN s : Concerns(s[i], a)
      BY DEF Concerns
    <2> HIDE DEF s
    <2>5. \A u \in Thread : \A task : Queued(u, task)' =>
            Queued(u, task) \/ (u = o /\ \E i \in DOMAIN s : s[i] = task)
      BY <2>3, EnqueueAdds DEF Typed
    <2> QED
      BY <2>2, <2>3, <2>4, <2>5, TasksGoHome DEF Typed
  <1>2. CASE Send(t)
    <2>1. PICK to \in Actor \cup Name, m \in Message : Enqueue(Main, <<SendTask(to, m)>>)
      BY <1>2, BoundAssumption DEF Send, Typed, TypeOK, BoundTypes, Message
    <2> DEFINE s == <<SendTask(to, m)>>
    <2>2. s \in Seq(Task) /\ Main \in Thread /\ Enqueue(Main, s)
      BY <2>1, TasksAreTasks DEF Thread
    <2>3. \A a \in Actor : \A i \in DOMAIN s : ~Concerns(s[i], a)
      BY DEF Concerns, SendTask, ResumeTask, NewTask, FreeTask
    <2> HIDE DEF s
    <2>4. \A u \in Thread : \A task : Queued(u, task)' =>
            Queued(u, task) \/ (u = Main /\ \E i \in DOMAIN s : s[i] = task)
      BY <2>2, EnqueueAdds DEF Typed
    <2> QED
      BY <2>3, <2>4 DEF NewTasks, AwaitsTask, Concerns
  <1>3. CASE ReceiveBlock(t)
    <2>1. PICK a \in Actor : a = current[t]
      BY <1>3 DEF ReceiveBlock, At, Typed, HasCurrent, Running
    <2> DEFINE s == BlockTasks(a)
    <2>2. PICK u \in Thread : u = thread_offset[a]
      BY <2>1 DEF Typed, TypeOK, QueueTypes, Thread
    <2>3. s \in Seq(Task) /\ \A i \in DOMAIN s : Concerns(s[i], a)
      BY <2>1, TasksAreTasks DEF BlockTasks, Concerns
    <2>4. Homely(a, t)
      BY <1>3, <2>1 DEF AtHome, Confined, RunsOn, ReceiveBlock, At
    <2>5. Homely(a, u)
      BY <2>2, <2>4 DEF Homely
    <2>6. Settled
      BY <1>3, PhpSteady, SteadySettles DEF Typed, AtHome, Php, ReceiveBlock, Steady,
         registryVars, restVars
    <2>7. Homely(a, u)'
      BY <2>5, <2>6 DEF Settled
    <2>8. Enqueue(u, s)
      BY <1>3, <2>1, <2>2 DEF ReceiveBlock
    <2> HIDE DEF s
    <2>9. \A v \in Thread : \A task : Queued(v, task)' =>
            Queued(v, task) \/ (v = u /\ \E i \in DOMAIN s : s[i] = task)
      BY <2>3, <2>8, EnqueueAdds DEF Typed
    <2> QED
      BY <2>3, <2>7, <2>9, TasksGoHome DEF Typed
  <1>4. CASE ~Schedule(t) /\ ~Send(t) /\ ~ReceiveBlock(t)
    <2>1. tasks' = tasks
      BY <1>4 DEF Php, Create, Promote, Add, WriteRef, Shutdown, BlockInCtor, Swap, Throw, CtorReturn,
         Return, queueVars
    <2> QED
      BY <2>1, SameTasks
  <1> QED
    BY <1>1, <1>2, <1>3, <1>4

LEMMA CrashHandlingTasks ==
    ASSUME Typed, AtHome, NEW t \in Thread, CrashHandling(t)
    PROVE  NewTasks
  <1>1. CASE CrashRestart(t)
    <2>1. current[t] \in Actor /\ current[t] \in created
      BY <1>1, ActorAssumption DEF CrashRestart, At, Typed, HasCurrent, Running, AtHome, Known
    <2> QED
      BY <1>1, <2>1, RestartedGoHome DEF CrashRestart, registryVars
  <1>2. CASE RestartWorker(t)
    <2>1. current[t] \in Actor
      BY <1>2 DEF RestartWorker, At, Typed, HasCurrent, Running
    <2>2. PICK w \in workers[current[t]] : OneForOne(w)
      BY <1>2 DEF RestartWorker
    <2>3. w \in Actor /\ w \in created
      BY <2>1 DEF Typed, TypeOK, RegistryTypeOK, LinksAgree
    <2> QED
      BY <1>2, <2>2, <2>3, RestartedGoHome DEF RestartWorker, registryVars
  <1>3. CASE ~CrashRestart(t) /\ ~RestartWorker(t)
    <2>1. tasks' = tasks
      BY <1>3 DEF CrashHandling, CrashRemove, CrashEscalate, WorkersRestarted, queueVars
    <2> QED
      BY <2>1, SameTasks
  <1> QED
    BY <1>1, <1>2, <1>3

(* The main thread wakes the recipient, which is idle, in its own queue.   *)
LEMMA SendAdds ==
    ASSUME Typed, NEW t \in Thread, HandleSend(t)
    PROVE  \A u \in Thread : \A x : Queued(u, x)' =>
             \/ Queued(u, x)
             \/ \E a \in Actor : /\ u = thread_offset[a] /\ state[a] = "IDLE"
                                /\ x = ResumeTask(a)
  <1> DEFINE task == Head(tasks[t])
  <1>1. tasks[t] # <<>> /\ task.type = "SEND_MESSAGE" /\ task \in Task
    BY DequeueTypes DEF HandleSend, Pops, Typed, TypeOK
  <1>2. CASE Lookup(task.to) = NoActor
    BY <1>1, <1>2, DequeueRemoves DEF HandleSend, Typed
  <1>3. CASE Lookup(task.to) # NoActor
    <2>1. PICK a \in Actor : a = Lookup(task.to)
      BY <1>1, <1>3, TaskFields DEF Lookup, Typed, TypeOK, RegistryTypeOK
    <2> DEFINE rest == [u \in Thread |-> IF u = t THEN Tail(tasks[u]) ELSE tasks[u]]
               more == WakeTasks(a)
    <2>2. PICK o \in Thread : o = thread_offset[a]
      BY <2>1 DEF Typed, TypeOK, QueueTypes, Thread
    <2>3. \A u \in Thread : tasks'[u] = rest[u] \o (IF u = o THEN more ELSE <<>>)
      BY <1>3, <2>1, <2>2 DEF HandleSend
    <2>4. /\ \A u \in Thread : rest[u] \in Seq(Task)
          /\ more \in Seq(Task)
      BY <1>1, <2>1, DequeueTypes, TasksAreTasks DEF Typed, TypeOK, QueueTypes, WakeTasks
    <2>5. \A u \in Thread : \A i \in DOMAIN rest[u] : Queued(u, rest[u][i])
      <3> SUFFICES ASSUME NEW u \in Thread, NEW i \in DOMAIN rest[u]
                   PROVE  \E j \in DOMAIN tasks[u] : tasks[u][j] = rest[u][i]
        BY DEF Queued
      <3>1. tasks[u] \in Seq(Task)
        BY DEF Typed, TypeOK, QueueTypes
      <3>2. CASE u # t
        BY <3>2
      <3>3. CASE u = t
        <4>1. rest[u] = Tail(tasks[u]) /\ tasks[u] # <<>>
          BY <1>1, <3>3
        <4> HIDE DEF rest
        <4>2. i + 1 \in DOMAIN tasks[u] /\ tasks[u][i + 1] = rest[u][i]
          BY <3>1, <4>1
        <4> QED
          BY <4>2
      <3> QED
        BY <3>2, <3>3
    <2>6. \A i \in DOMAIN more : more[i] = ResumeTask(a) /\ state[a] = "IDLE"
      BY DEF WakeTasks
    <2> HIDE DEF rest, more
    <2> SUFFICES ASSUME NEW u \in Thread, NEW x, Queued(u, x)'
                 PROVE  Queued(u, x) \/ (u = o /\ \E i \in DOMAIN more : more[i] = x)
      BY <2>2, <2>6
    <2>7. PICK i \in DOMAIN tasks'[u] : tasks'[u][i] = x
      BY DEF Queued
    <2>8. CASE u # o
      <3>1. tasks'[u] = rest[u] \o <<>>
        BY <2>3, <2>8
      <3>2. \A q \in Seq(Task) : q \o <<>> = q
        OBVIOUS
      <3>3. tasks'[u] = rest[u]
        BY <2>4, <3>1, <3>2
      <3> QED
        BY <2>5, <2>7, <3>3
    <2>9. CASE u = o
      <3>1. tasks'[u] = rest[u] \o more
        BY <2>3, <2>9
      <3>2. CASE i \in DOMAIN rest[u]
        BY <2>4, <2>5, <2>7, <3>1, <3>2
      <3>3. CASE i \notin DOMAIN rest[u]
        <4>1. i - Len(rest[u]) \in DOMAIN more /\ more[i - Len(rest[u])] = x
          BY <2>4, <2>7, <3>1, <3>3
        <4> QED
          BY <2>9, <4>1
      <3> QED
        BY <3>2, <3>3
    <2> QED
      BY <2>8, <2>9
  <1> QED
    BY <1>2, <1>3

LEMMA WakesAtHome ==
    ASSUME Typed, AtHome, NEW t \in Thread, HandleSend(t), Settled
    PROVE  NewTasks
  <1> SUFFICES ASSUME NEW b \in Actor, NEW u \in Thread, AwaitsTask(b, u)',
                      ~AwaitsTask(b, u)
               PROVE  Homely(b, u)'
    BY DEF NewTasks
  <1>1. PICK task \in {ResumeTask(b), NewTask(b), FreeTask(b)} : Queued(u, task)'
    BY DEF AwaitsTask
  <1>2. ~Queued(u, task)
    BY <1>1 DEF AwaitsTask
  <1>3. PICK a \in Actor : u = thread_offset[a] /\ state[a] = "IDLE" /\ task = ResumeTask(a)
    BY <1>1, <1>2, SendAdds
  <1>4. a = b
    BY <1>1, <1>3 DEF ResumeTask, NewTask, FreeTask
  <1>5. Homely(b, u)
    BY <1>3, <1>4 DEF AtHome, IdleStarted, Homely
  <1> QED
    BY <1>5 DEF Settled

LEMMA LoopTasks ==
    ASSUME Typed, AtHome, NEW t \in Thread, Loop(t), Settled
    PROVE  NewTasks
  <1>1. CASE HandleSend(t)
    BY <1>1, WakesAtHome
  <1>2. CASE HandleResume(t) \/ HandleNew(t) \/ HandleFree(t)
    BY <1>2, DequeueRemoves, NoNewTasks DEF HandleResume, HandleNew, HandleFree, Pops, Typed
  <1>3. CASE \/ PerformActorRemovals(t) \/ Resume(t) \/ StartReceive(t) \/ FindNothing(t)
             \/ CheckShutdown(t)
    BY <1>3, SameTasks DEF PerformActorRemovals, Resume, StartReceive, FindNothing,
       CheckShutdown, queueVars
  <1> QED
    BY <1>1, <1>2, <1>3 DEF Loop

LEMMA EndTasks ==
    ASSUME NEW t \in Thread,
           TouchFreed(t) \/ WorkerEnds(t) \/ MainStep \/ ScriptFails
    PROVE  NewTasks
  BY SameTasks DEF TouchFreed, WorkerEnds, FinalRemovals, MainStep, ScriptEnds,
     SchedulerEnds, Join, ScriptFails, queueVars
-----------------------------------------------------------------------------
(* Who is idle: receiveBlock() is called by an actor that runs.            *)
LEMMA IdleKept ==
    ASSUME IdleStarted, Settled, NoNewIdle
    PROVE  IdleStarted'
  BY DEF IdleStarted, Settled, NoNewIdle

LEMMA PhpIdle ==
    ASSUME Typed, AtHome, Settled, NEW t \in Thread, Php(t)
    PROVE  IdleStarted'
  <1>1. CASE ReceiveBlock(t)
    <2>1. PICK a \in Actor : a = current[t]
      BY <1>1 DEF ReceiveBlock, At, Typed, HasCurrent, Running
    <2>2. Started(a)
      BY <1>1, <2>1 DEF ReceiveBlock, At, AtHome, Confined, RunsOn, Homely
    <2>3. state' = [state EXCEPT ![a] = "IDLE"]
      BY <1>1, <2>1 DEF ReceiveBlock
    <2> QED
      BY <2>2, <2>3 DEF AtHome, IdleStarted, Settled, Typed, TypeOK, ObjectTypes
  <1>2. CASE ~ReceiveBlock(t)
    BY <1>2, QuietPhp, IdleKept DEF Quiet, Typed, AtHome
  <1> QED
    BY <1>1, <1>2

LEMMA LoopIdle ==
    ASSUME Typed, AtHome, Settled, NEW t \in Thread, Loop(t)
    PROVE  IdleStarted'
  <1>1. CASE HandleSend(t) \/ HandleResume(t) \/ Resume(t)
    <2>1. NoNewIdle
      BY <1>1 DEF HandleSend, HandleResume, Resume, objectVars, NoNewIdle, Typed, TypeOK,
         ObjectTypes
    <2> QED
      BY <2>1, IdleKept DEF AtHome
  <1>2. CASE ~HandleSend(t) /\ ~HandleResume(t) /\ ~Resume(t)
    BY <1>2, QuietLoop, IdleKept DEF Loop, Quiet, Typed, AtHome
  <1> QED
    BY <1>1, <1>2

-----------------------------------------------------------------------------
LEMMA StaysAtHome ==
    ASSUME Typed, AtHome, [Next]_vars
    PROVE  AtHome' /\ Settled
  <1>1. ASSUME NEW t \in Thread, Php(t) PROVE AtHome' /\ Settled
    <2>1. Settled /\ Known' /\ OneCreator'
      <3>1. CASE Create(t)
        BY <3>1, CreateSettles DEF Typed, AtHome
      <3>2. CASE Schedule(t)
        <4>1. PICK a \in Actor, o \in Worker :
                /\ newborn[t] = a
                /\ thread_offset' = [thread_offset EXCEPT ![a] = o]
                /\ newborn' = [newborn EXCEPT ![t] = NoActor]
                /\ UNCHANGED <<created, current, boss, raced>>
          BY <3>2 DEF Schedule, registryVars, restVars
        <4> QED
          BY <4>1, ScheduleSettles DEF Typed, AtHome
      <3>3. CASE ~Create(t) /\ ~Schedule(t)
        BY <1>1, <3>3, PhpSteady, SteadySettles DEF Typed, AtHome
      <3> QED
        BY <3>1, <3>2, <3>3
    <2>2. Confined'
      BY <1>1, <2>1, PhpRuns, PhpRemovals, PhpTasks, StaysConfined DEF AtHome
    <2>3. IdleStarted'
      BY <1>1, <2>1, PhpIdle
    <2> QED
      BY <2>1, <2>2, <2>3 DEF AtHome
  <1>2. ASSUME NEW t \in Thread, CrashHandling(t) PROVE AtHome' /\ Settled
    <2>1. Settled /\ Known' /\ OneCreator'
      BY <1>2, CrashHandlingSteady, SteadySettles DEF Typed, AtHome
    <2>2. Confined'
      BY <1>2, <2>1, CrashHandlingRuns, CrashHandlingRemovals, CrashHandlingTasks, StaysConfined
      DEF AtHome
    <2>3. IdleStarted'
      BY <1>2, <2>1, QuietCrashHandling, IdleKept DEF Typed, Quiet, AtHome
    <2> QED
      BY <2>1, <2>2, <2>3 DEF AtHome
  <1>3. ASSUME NEW t \in Thread, Loop(t) PROVE AtHome' /\ Settled
    <2>1. Settled /\ Known' /\ OneCreator'
      BY <1>3, LoopSteady, SteadySettles DEF Typed, AtHome
    <2>2. Confined'
      BY <1>3, <2>1, LoopRuns, LoopRemovals, LoopTasks, StaysConfined DEF AtHome
    <2>3. IdleStarted'
      BY <1>3, <2>1, LoopIdle
    <2> QED
      BY <2>1, <2>2, <2>3 DEF AtHome
  <1>4. ASSUME NEW t \in Thread,
               TouchFreed(t) \/ (t \in Worker /\ WorkerEnds(t)) \/ MainStep \/ ScriptFails
        PROVE  AtHome' /\ Settled
    <2>1. Settled /\ Known' /\ OneCreator'
      BY <1>4, EndSteady, SteadySettles DEF Typed, AtHome
    <2>2. Confined'
      BY <1>4, <2>1, EndRuns, EndRemovals, EndTasks, StaysConfined DEF AtHome
    <2>3. IdleStarted'
      BY <1>4, <2>1, QuietEnd, IdleKept DEF Typed, Quiet, AtHome
    <2> QED
      BY <2>1, <2>2, <2>3 DEF AtHome
  <1>5. CASE UNCHANGED vars
    BY <1>5 DEF vars, registryVars, objectVars, queueVars, threadVars, restVars, AtHome,
       Confined, RunsOn, AwaitsFree, AwaitsTask, Queued, Homely, Started, Unscheduled,
       IdleStarted, Known, OneCreator, Settled
  <1>6. Main \in Thread /\ Worker \subseteq Thread
    BY DEF Thread
  <1> QED
    BY <1>1, <1>2, <1>3, <1>4, <1>5, <1>6 DEF Next, ThreadStep

LEMMA TypedAlways == Spec => []Typed
  <1>1. Spec => []LinksAgree
    BY ImplementsRegistry, LinksAlwaysAgree, PTL
  <1>2. TypeOK /\ HasCurrent /\ LinksAgree => Typed
    BY DEF Typed
  <1> QED
    BY <1>1, <1>2, TypesAlways, PTL

LEMMA AlwaysAtHome == Spec => []AtHome
  <1>1. Init => AtHome
    BY ThreadAssumption, ActorAssumption DEF Init, ActorsInit, ThreadsInit, AtHome, Confined,
       RunsOn, AwaitsFree, AwaitsTask, Queued, IdleStarted, Known, OneCreator
  <1>2. Typed /\ AtHome /\ [Next]_vars => AtHome'
    BY StaysAtHome
  <1> QED
    BY <1>1, <1>2, TypedAlways, PTL DEF Spec

(* However threads interleave, and whoever sends to, restarts or removes   *)
(* an actor, only its own thread is given tasks for it, runs it and frees  *)
(* it, unless its thread_offset was read before it had been written.       *)
THEOREM AlwaysPinned == Spec => []Pinned
  <1>1. AtHome => Pinned
    BY DEF AtHome, Confined, Homely, RunsOn, AwaitsFree, AwaitsTask, Pinned
  <1> QED
    BY <1>1, AlwaysAtHome, PTL
-----------------------------------------------------------------------------
(* Memory.  No actor is freed while PHP code runs it: a step either leaves *)
(* the heap alone, or frees what no other thread is running.               *)
AtWork == {"ctor", "workers", "start", "receive", "swap", "resume"}
KeepsHeap(t) ==
    /\ heap' = heap /\ raced \subseteq raced'
    /\ \A u \in Thread \ {t} : pc'[u] = pc[u] /\ current'[u] = current[u]
    /\ pc'[t] \in AtWork => \/ pc[t] \in AtWork /\ current'[t] = current[t]
                            \/ current'[t] \in by_ref

LEMMA KeptHeapIsSafe ==
    ASSUME Typed, OwnedOnce, RunningNotFreed, NEW t \in Thread, KeepsHeap(t)
    PROVE  RunningNotFreed'
  <1>1. \A a \in by_ref : heap[a] = "live"
    BY DEF OwnedOnce, Typed, TypeOK, RegistryTypeOK
  <1>2. ASSUME NEW u \in Thread, pc'[u] \in AtWork
        PROVE  current'[u] \in raced' \/ heap'[current'[u]] = "live"
    <2>1. CASE u = t
      BY <1>1, <1>2, <2>1 DEF KeepsHeap, RunningNotFreed, AtWork
    <2>2. CASE u # t
      BY <1>2, <2>2 DEF KeepsHeap, RunningNotFreed, AtWork
    <2> QED
      BY <2>1, <2>2
  <1> QED
    BY <1>2 DEF RunningNotFreed, AtWork

(* t frees what waits for it: an actor that runs elsewhere was raced.      *)
LEMMA FreeingIsSafe ==
    ASSUME Typed, AtHome, RunningNotFreed, NEW t \in Worker, FreeActors(t),
           NEW label \in PC \ AtWork, Goto(t, label), current' = current, raced' = raced
    PROVE  RunningNotFreed'
  <1> SUFFICES ASSUME NEW u \in Thread, pc'[u] \in AtWork
               PROVE  current'[u] \in raced' \/ heap'[current'[u]] = "live"
    BY DEF RunningNotFreed, AtWork
  <1>1. t \in Thread /\ u # t /\ pc[u] \in AtWork
    BY DEF Thread, Goto, Typed, TypeOK, ThreadTypes
  <1>2. PICK a \in Actor : a = current[u]
    BY <1>1 DEF AtWork, Typed, HasCurrent, Running
  <1>3. a \in raced \/ heap[a] = "live"
    BY <1>1, <1>2 DEF RunningNotFreed, AtWork
  <1>4. a \in actor_removals[t] => a \in raced
    <2> SUFFICES ASSUME a \in actor_removals[t] PROVE a \in raced
      OBVIOUS
    <2>1. RunsOn(a, u) /\ AwaitsFree(a, t)
      BY <1>1, <1>2 DEF RunsOn, AwaitsFree, AtWork
    <2>2. Homely(a, u) /\ Homely(a, t)
      BY <1>1, <2>1 DEF AtHome, Confined
    <2> QED
      BY <1>1, <2>2 DEF Homely
  <1>5. heap'[a] = IF a \in actor_removals[t] THEN "freed" ELSE heap[a]
    BY DEF FreeActors
  <1> QED
    BY <1>2, <1>3, <1>4, <1>5

LEMMA CreatingIsSafe ==
    ASSUME Typed, AtHome, RunningNotFreed, NEW t \in Thread, Create(t)
    PROVE  RunningNotFreed'
  <1>1. PICK a \in Actor : a \notin created /\ (heap' = heap \/ heap' = [heap EXCEPT ![a] = "freed"])
    BY DEF Create, Insert
  <1>2. UNCHANGED <<pc, current, raced>>
    BY DEF Create, restVars
  <1>3. \A u \in Thread : current[u] # a
    BY <1>1, ActorAssumption DEF AtHome, Known
  <1>4. \A u \in Thread : pc[u] \in AtWork => heap'[current[u]] = heap[current[u]]
    BY <1>1, <1>3 DEF AtWork, Typed, HasCurrent, Running, TypeOK, ObjectTypes
  <1> QED
    BY <1>2, <1>4 DEF RunningNotFreed, AtWork

LEMMA PhpKeepsHeap ==
    ASSUME Typed, NEW t \in Thread, Php(t), ~Create(t)
    PROVE  KeepsHeap(t)
  <1> USE DEF Typed, TypeOK, ThreadTypes, AtWork
  <1>1. CASE Throw(t)
    BY <1>1 DEF Throw, Crash, Goto, restVars, KeepsHeap
  <1>2. CASE Return(t) \/ Swap(t)
    BY <1>2 DEF Return, Swap, MarkForRemoval, Rest, Goto, restVars, KeepsHeap
  <1>3. CASE ReceiveBlock(t) \/ CtorReturn(t) \/ Add(t)
    BY <1>3 DEF ReceiveBlock, CtorReturn, Add, At, RunsPhp, Goto, objectVars, restVars, KeepsHeap
  <1>4. CASE \/ Schedule(t) \/ Promote(t) \/ Send(t) \/ WriteRef(t) \/ Shutdown(t) \/ BlockInCtor(t)
    BY <1>4 DEF Schedule, Promote, Send, WriteRef, Shutdown, BlockInCtor, threadVars, objectVars,
       restVars, KeepsHeap
  <1> QED
    BY <1>1, <1>2, <1>3, <1>4 DEF Php

LEMMA CrashHandlingKeepsHeap ==
    ASSUME Typed, NEW t \in Thread, CrashHandling(t)
    PROVE  KeepsHeap(t)
  <1> USE DEF Typed, TypeOK, ThreadTypes, AtWork
  <1>1. CASE CrashRemove(t)
    BY <1>1 DEF CrashRemove, MarkForRemoval, Rest, Goto, KeepsHeap
  <1>2. CASE CrashRestart(t)
    BY <1>2 DEF CrashRestart, OneForOne, Rest, Goto, KeepsHeap
  <1>3. CASE CrashEscalate(t)
    BY <1>3 DEF CrashEscalate, Crash, Goto, restVars, KeepsHeap
  <1>4. CASE RestartWorker(t) \/ WorkersRestarted(t)
    BY <1>4 DEF RestartWorker, WorkersRestarted, OneForOne, At, Goto, objectVars, restVars,
       KeepsHeap
  <1> QED
    BY <1>1, <1>2, <1>3, <1>4 DEF CrashHandling

LEMMA LoopKeepsHeap ==
    ASSUME Typed, NEW t \in Thread, Loop(t), t = Main \/ ~PerformActorRemovals(t)
    PROVE  KeepsHeap(t)
  <1> USE DEF Typed, TypeOK, ThreadTypes, AtWork
  <1>1. CASE HandleNew(t)
    BY <1>1 DEF HandleNew, Goto, restVars, KeepsHeap
  <1>2. CASE HandleResume(t)
    BY <1>2 DEF HandleResume, JumpFault, Pops, At, Goto, KeepsHeap
  <1>3. CASE PerformActorRemovals(t) \/ HandleSend(t) \/ HandleFree(t) \/ FindNothing(t)
    BY <1>3 DEF PerformActorRemovals, HandleSend, HandleFree, FindNothing, Goto,
       objectVars, restVars, KeepsHeap
  <1>4. CASE Resume(t) \/ StartReceive(t) \/ CheckShutdown(t)
    BY <1>4 DEF Resume, StartReceive, CheckShutdown, At, Goto, objectVars, restVars, KeepsHeap
  <1> QED
    BY <1>1, <1>2, <1>3, <1>4 DEF Loop

LEMMA EndKeepsHeap ==
    ASSUME Typed, NEW t \in Thread, TouchFreed(t) \/ MainStep \/ ScriptFails
    PROVE  \E u \in Thread : KeepsHeap(u)
  <1> USE DEF Typed, TypeOK, ThreadTypes, AtWork
  <1>1. CASE TouchFreed(t) \/ ScriptFails
    BY <1>1 DEF TouchFreed, ScriptFails, objectVars, threadVars, KeepsHeap
  <1>2. CASE MainStep
    <2>1. Main \in Thread
      BY DEF Thread
    <2>2. KeepsHeap(Main)
      BY <1>2, <2>1 DEF MainStep, ScriptEnds, SchedulerEnds, Join, MarkForRemoval, Goto,
         objectVars, restVars, KeepsHeap
    <2> QED
      BY <2>1, <2>2
  <1> QED
    BY <1>1, <1>2

(* An actor may be removed, by its own crash, its supervisor's, or the end *)
(* of the system, while PHP code runs it; it is freed only after that.     *)
THEOREM NeverFreedRunning == Spec => []RunningNotFreed
  <1>1. Init => RunningNotFreed
    BY DEF Init, ThreadsInit, RunningNotFreed
  <1>2. Typed /\ AtHome /\ OwnedOnce /\ RunningNotFreed /\ [Next]_vars => RunningNotFreed'
    <2> SUFFICES ASSUME Typed, AtHome, OwnedOnce, RunningNotFreed, [Next]_vars
                 PROVE  RunningNotFreed'
      OBVIOUS
    <2>1. ASSUME NEW t \in Thread, Php(t) PROVE RunningNotFreed'
      BY <2>1, CreatingIsSafe, PhpKeepsHeap, KeptHeapIsSafe
    <2>2. ASSUME NEW t \in Thread, CrashHandling(t) PROVE RunningNotFreed'
      BY <2>2, CrashHandlingKeepsHeap, KeptHeapIsSafe
    <2>3. ASSUME NEW t \in Thread, Loop(t) PROVE RunningNotFreed'
      <3>1. CASE PerformActorRemovals(t) /\ t # Main
        <4>1. /\ t \in Worker /\ FreeActors(t) /\ Goto(t, "pop") /\ "pop" \in PC \ AtWork
              /\ current' = current /\ raced' = raced
          BY <3>1 DEF PerformActorRemovals, Thread, restVars, PC, AtWork
        <4> QED
          BY <4>1, FreeingIsSafe
      <3>2. CASE ~PerformActorRemovals(t) \/ t = Main
        BY <2>3, <3>2, LoopKeepsHeap, KeptHeapIsSafe
      <3> QED
        BY <3>1, <3>2
    <2>4. ASSUME NEW t \in Worker, WorkerEnds(t) PROVE RunningNotFreed'
      <3>1. /\ FreeActors(t) /\ Goto(t, "ended") /\ "ended" \in PC \ AtWork
            /\ current' = current /\ raced' = raced
        BY <2>4 DEF WorkerEnds, FinalRemovals, restVars, PC, AtWork
      <3> QED
        BY <3>1, FreeingIsSafe
    <2>5. ASSUME NEW t \in Thread, TouchFreed(t) \/ MainStep \/ ScriptFails
          PROVE  RunningNotFreed'
      BY <2>5, EndKeepsHeap, KeptHeapIsSafe
    <2>6. CASE UNCHANGED vars
      BY <2>6 DEF vars, objectVars, threadVars, restVars, RunningNotFreed
    <2>7. Main \in Thread
      BY DEF Thread
    <2> QED
      BY <2>1, <2>2, <2>3, <2>4, <2>5, <2>6, <2>7 DEF Next, ThreadStep
  <1> QED
    BY <1>1, <1>2, TypedAlways, AlwaysAtHome, AlwaysOwnedOnce, PTL DEF Spec
-----------------------------------------------------------------------------
(* The end.  The main thread empties the tables when no worker runs PHP    *)
(* code any more, and only then do the workers free what they have left.   *)
Closing == pc[Main] \in {"join", "ended"}
InOrder ==
    /\ Closing => by_ref = {} /\ \A t \in Worker : pc[t] \in {"spin", "ended"}
    /\ \A t \in Worker : pc[t] = "ended" => Closing /\ actor_removals[t] = {}

(* Before the tables are destroyed no thread ends or joins.                *)
GoesOn == /\ actor_removals' = actor_removals \/ ~Closing
          /\ by_ref' = by_ref \/ ~Closing
          /\ \A u \in Thread : pc'[u] # pc[u] =>
                 pc'[u] \notin {"join", "ended"} /\ ~Closing

LEMMA GoingOnIsInOrder ==
    ASSUME InOrder, GoesOn
    PROVE  InOrder'
  <1>1. Main \in Thread /\ Worker \subseteq Thread
    BY DEF Thread
  <1>2. CASE Closing
    BY <1>1, <1>2 DEF InOrder, GoesOn, Closing
  <1>3. CASE ~Closing
    BY <1>1, <1>3 DEF InOrder, GoesOn, Closing
  <1> QED
    BY <1>2, <1>3

LEMMA BusyIsNotClosing ==
    ASSUME InOrder, NEW t \in Thread, pc[t] \notin {"spin", "join", "ended"}
    PROVE  ~Closing
  BY DEF InOrder, Closing, Thread

LEMMA StepsGoOn ==
    ASSUME Typed, InOrder, NEW t \in Thread,
           Php(t) \/ CrashHandling(t) \/ Loop(t) \/ TouchFreed(t) \/ ScriptEnds \/ ScriptFails
    PROVE  GoesOn
  <1> USE DEF Typed, TypeOK, ThreadTypes
  <1>1. CASE Schedule(t) \/ WriteRef(t) \/ TouchFreed(t) \/ ScriptFails
    BY <1>1 DEF Schedule, WriteRef, TouchFreed, ScriptFails, registryVars, queueVars,
       threadVars, GoesOn
  <1>2. CASE Php(t) /\ ~Schedule(t) /\ ~WriteRef(t)
    <2>1. pc[t] \in {"script", "ctor", "receive", "swap"}
      BY <1>2 DEF Php, Create, Promote, Add, Send, Shutdown, BlockInCtor, ReceiveBlock, Swap,
         Throw, CtorReturn, Return, RunsPhp, At
    <2>2. ~Closing
      BY <2>1, BusyIsNotClosing
    <2>3. \/ pc' = pc
          \/ \E label \in PC \ {"join", "ended"} : Goto(t, label)
      BY <1>2 DEF Php, Create, Promote, Add, Send, Shutdown, BlockInCtor, ReceiveBlock, Swap,
         Throw, Crash, CtorReturn, Return, Rest, threadVars, PC
    <2> QED
      BY <2>2, <2>3 DEF GoesOn, Goto
  <1>3. CASE CrashHandling(t)
    <2>1. pc[t] \in {"crash", "workers"}
      BY <1>3 DEF CrashHandling, CrashRemove, CrashRestart, CrashEscalate, RestartWorker,
         WorkersRestarted, At
    <2>2. ~Closing
      BY <2>1, BusyIsNotClosing
    <2>3. \/ pc' = pc
          \/ \E label \in PC \ {"join", "ended"} : Goto(t, label)
      BY <1>3 DEF CrashHandling, CrashRemove, CrashRestart, CrashEscalate, RestartWorker,
         WorkersRestarted, Crash, Rest, PC
    <2> QED
      BY <2>2, <2>3 DEF GoesOn, Goto
  <1>4. CASE Loop(t)
    <2>1. pc[t] \in {"loop", "pop", "check", "resume", "start"}
      BY <1>4 DEF Loop, PerformActorRemovals, HandleSend, HandleResume, HandleNew, HandleFree,
         Resume, StartReceive, FindNothing, CheckShutdown, Pops, At
    <2>2. ~Closing
      BY <2>1, BusyIsNotClosing
    <2>3. \/ pc' = pc
          \/ \E label \in PC \ {"join", "ended"} : Goto(t, label)
      BY <1>4 DEF Loop, PerformActorRemovals, HandleSend, HandleResume, HandleNew, HandleFree,
         Resume, StartReceive, FindNothing, CheckShutdown, PC
    <2> QED
      BY <2>2, <2>3 DEF GoesOn, Goto
  <1>5. CASE ScriptEnds
    <2>1. Main \in Thread /\ pc[Main] = "script" /\ Goto(Main, "loop")
      BY <1>5 DEF ScriptEnds, At, Thread
    <2>2. ~Closing
      BY <2>1 DEF Closing
    <2> QED
      BY <2>1, <2>2 DEF GoesOn, Goto
  <1> QED
    BY <1>1, <1>2, <1>3, <1>4, <1>5

LEMMA EndsInOrder ==
    ASSUME Typed, InOrder, [Next]_vars
    PROVE  InOrder'
  <1> USE DEF Typed, TypeOK, ThreadTypes
  <1>0. Main \in Thread /\ Worker \subseteq Thread /\ Main \notin Worker
    BY ThreadAssumption DEF Thread
  <1>1. ASSUME NEW t \in Thread, ThreadStep(t) PROVE InOrder'
    BY <1>1, StepsGoOn, GoingOnIsInOrder DEF ThreadStep
  <1>2. ASSUME NEW t \in Worker, FinalRemovals(t) PROVE InOrder'
    <2>1. Closing
      BY <1>0, <1>2 DEF FinalRemovals, AllThreadsFinished, FinishedThreads, Closing, Thread
    <2>2. /\ by_ref' = by_ref
          /\ pc' = [pc EXCEPT ![t] = "ended"]
          /\ actor_removals' = [actor_removals EXCEPT ![t] = {}]
      BY <1>2 DEF FinalRemovals, FreeActors, Goto, registryVars
    <2> QED
      BY <1>0, <2>1, <2>2 DEF InOrder, Closing, QueueTypes
  <1>3. CASE SchedulerEnds
    <2>1. /\ by_ref' = {} /\ pc' = [pc EXCEPT ![Main] = "join"] /\ pc[Main] = "spin"
          /\ \A t \in Worker : pc[t] \in {"spin", "ended"}
      BY <1>3, <1>0 DEF SchedulerEnds, DestroyTables, Goto, At, OtherThreadsFinished,
         FinishedThreads
    <2>2. \A t \in Worker : pc[t] # "ended"
      BY <2>1 DEF InOrder, Closing
    <2> QED
      BY <1>0, <2>1, <2>2 DEF InOrder, Closing
  <1>4. CASE Join
    <2>1. /\ by_ref' = by_ref /\ pc' = [pc EXCEPT ![Main] = "ended"] /\ pc[Main] = "join"
          /\ actor_removals' = actor_removals
      BY <1>4 DEF Join, Goto, At, registryVars, queueVars
    <2> QED
      BY <1>0, <2>1 DEF InOrder, Closing
  <1>5. CASE ScriptEnds \/ ScriptFails
    BY <1>0, <1>5, StepsGoOn, GoingOnIsInOrder
  <1>6. CASE UNCHANGED vars
    BY <1>6 DEF vars, registryVars, queueVars, threadVars, InOrder, Closing
  <1> QED
    BY <1>1, <1>2, <1>3, <1>4, <1>5, <1>6 DEF Next, WorkerEnds, MainStep

LEMMA InOrderAlways == Spec => []InOrder
  <1>1. Init => InOrder
    BY ThreadAssumption DEF Init, ThreadsInit, InOrder, Closing, Thread
  <1>2. Typed /\ InOrder /\ [Next]_vars => InOrder'
    BY EndsInOrder
  <1> QED
    BY <1>1, <1>2, TypedAlways, PTL DEF Spec

(* When all threads have ended, every actor that was ever created has been *)
(* freed: those still registered by their own threads, and none of them by *)
(* a thread that has not heard of it before it ended.                      *)
THEOREM NeverLeaks == Spec => []NothingLeaks
  <1>1. Typed /\ Owned /\ InOrder => NothingLeaks
    <2> SUFFICES ASSUME Typed, Owned, InOrder, Ended
                 PROVE  created = Freed
      BY DEF NothingLeaks
    <2>1. by_ref = {} /\ \A t \in Worker : actor_removals[t] = {}
      BY DEF Ended, InOrder, Closing, Thread
    <2>2. created \subseteq Freed
      BY <2>1 DEF Owned, OwnedOnce, Freed, Typed, TypeOK, RegistryTypeOK
    <2>3. Freed \subseteq created
      BY DEF Owned, Unowned, Freed
    <2> QED
      BY <2>2, <2>3
  <1> QED
    BY <1>1, InOrderAlways, TypedAlways, OwnedAlways, PTL

-----------------------------------------------------------------------------
(* Actors on their own.  What goes wrong in this system goes wrong when    *)
(* one actor is removed, terminated or restarted together with another     *)
(* one, which at that moment waits, runs, or is about to be resumed ...    *)
Alone == \A t \in Thread :
    /\ pc[t] # "workers" /\ ~CrashEscalate(t)
    /\ Throw(t) => current[t] \notin supervision
    /\ Return(t) \/ CrashRemove(t) => workers[current[t]] = {}

(* ... or when an actor has come and gone before its creator, which is     *)
(* still in ph_actor_ref_create, reads its reference.                      *)
CreatorsFirst == \A t, u \in Thread :
    Return(t) \/ CrashRemove(t) => new_actor_ref[u] # current[t]

(* Where an actor is that is left alone: created but not yet handed to a   *)
(* thread, queued once to be started, running on its own thread, or idle   *)
(* and, if it has mail, queued once to be resumed.                         *)
Place(t, x) == {i \in DOMAIN tasks[t] : tasks[t][i] = x}
TasksOf(a) == {ResumeTask(a), NewTask(a), FreeTask(a)}
Starting == {"SPAWNING", "RESTARTING"}
Fits(s, label) ==
    \/ label \in {"ctor", "workers", "start"} /\ s \in Starting
    \/ label = "walking" /\ s \in Starting \cup {"ACTIVE"}
    \/ label = "receive" /\ s = "ACTIVE"
    \/ label \in {"swap", "resume"} /\ s = "IDLE"
    \/ label = "crash" /\ s = "TERMINATED"
Ready(a) == a \in by_ref /\ a \notin Unscheduled

RunsRightly(a) == \A t \in Thread : current[t] = a =>
    /\ Ready(a) /\ t = thread_offset[a] /\ Fits(state[a], pc[t])
    /\ pc[t] = "resume" => mailbox[a] # <<>>
    /\ pc[t] = "crash" => boss[t] \in {NoActor, supervisor[a]}
StartsRightly(a) == \A t \in Thread : Place(t, NewTask(a)) # {} =>
    /\ Ready(a) /\ t = thread_offset[a] /\ state[a] \in Starting
    /\ \A u \in Thread : current[u] # a
FreesRightly(a) == \A t \in Thread : \A i \in Place(t, FreeTask(a)) :
    \E j \in Place(t, NewTask(a)) : i < j
WakesRightly(a) == \A t \in Thread : Place(t, ResumeTask(a)) # {} =>
    /\ Ready(a) /\ t = thread_offset[a] /\ state[a] = "IDLE" /\ mailbox[a] # <<>>
    /\ \A u \in Thread : current[u] = a => pc[u] = "swap"
QueuedOnce(a) == \A t \in Thread, x \in {NewTask(a), ResumeTask(a)} :
    \A i, j \in Place(t, x) : i = j
IdlesRightly(a) == state[a] = "IDLE" =>
    Ready(a) /\ (context[a] = "saved" \/ \E u \in Thread : current[u] = a)
BeginsRightly(a) ==
    /\ a \notin created \/ a \in Unscheduled => state[a] = "SPAWNING"
    /\ a \in Unscheduled => a \in by_ref

QueuedRightly(a) ==
    StartsRightly(a) /\ FreesRightly(a) /\ WakesRightly(a) /\ QueuedOnce(a)
Orderly(a) == RunsRightly(a) /\ QueuedRightly(a) /\ IdlesRightly(a) /\ BeginsRightly(a)

(* A step that does not concern a: its record, its thread and its tasks    *)
(* are what they were, but the tasks ahead of them in a queue.             *)
SameRecord(a) ==
    /\ a \in by_ref' <=> a \in by_ref
    /\ a \in Unscheduled' <=> a \in Unscheduled
    /\ a \in created => a \in created'
    /\ state'[a] = state[a] /\ context'[a] = context[a]
    /\ thread_offset'[a] = thread_offset[a]
    /\ mailbox[a] # <<>> => mailbox'[a] # <<>>
    /\ supervisor'[a] = supervisor[a] \/ supervisor[a] = NoActor
SameRunner(a) == \A u \in Thread :
    /\ current'[u] = a <=> current[u] = a
    /\ current[u] = a => pc'[u] = pc[u] /\ boss'[u] = boss[u]
SamePlaces(a) == \A t \in Thread : \E d \in Nat : \A x \in TasksOf(a) : \A i \in Int :
    i \in Place(t, x)' <=> i + d \in Place(t, x)
Stays(a) == SameRecord(a) /\ SameRunner(a) /\ SamePlaces(a)

LEMMA PlacesAreNumbers ==
    ASSUME QueueTypes, NEW t \in Thread, NEW x
    PROVE  Place(t, x) \subseteq Nat \ {0}
  BY DEF QueueTypes, Place

LEMMA SamePlacesQueue ==
    ASSUME QueueTypes, QueueTypes', NEW a \in Actor, SamePlaces(a),
           StartsRightly(a), FreesRightly(a), WakesRightly(a), QueuedOnce(a),
           SameRecord(a), SameRunner(a)
    PROVE  QueuedRightly(a)'
  <1>1. \A t \in Thread : \A x : Place(t, x) \subseteq Int /\ Place(t, x)' \subseteq Int
    BY DEF QueueTypes, Place
  <1>2. \A t \in Thread : \A x \in TasksOf(a) : Place(t, x)' # {} => Place(t, x) # {}
    BY <1>1 DEF SamePlaces
  <1>3. (Ready(a) <=> Ready(a)') /\ thread_offset'[a] = thread_offset[a]
        /\ state'[a] = state[a]
    BY DEF SameRecord, Ready
  <1>4. StartsRightly(a)'
    BY <1>2, <1>3 DEF StartsRightly, TasksOf, SameRunner
  <1>5. WakesRightly(a)'
    BY <1>2, <1>3 DEF WakesRightly, TasksOf, SameRunner, SameRecord
  <1>6. FreesRightly(a)'
    <2> SUFFICES ASSUME NEW t \in Thread, NEW i \in Place(t, FreeTask(a))'
                 PROVE  \E j \in Place(t, NewTask(a))' : i < j
      BY DEF FreesRightly
    <2>1. PICK d \in Nat : \A x \in TasksOf(a) : \A k \in Int :
             k \in Place(t, x)' <=> k + d \in Place(t, x)
      BY DEF SamePlaces
    <2>2. i \in Int
      BY <1>1
    <2>3. i + d \in Place(t, FreeTask(a))
      BY <2>1, <2>2 DEF TasksOf
    <2>4. PICK j \in Place(t, NewTask(a)) : i + d < j
      BY <2>3 DEF FreesRightly
    <2>5. j \in Int /\ (j - d) + d = j
      BY <1>1
    <2>6. j - d \in Place(t, NewTask(a))'
      BY <2>1, <2>5 DEF TasksOf
    <2> QED
      BY <2>2, <2>4, <2>5, <2>6
  <1>7. QueuedOnce(a)'
    <2> SUFFICES ASSUME NEW t \in Thread, NEW x \in {NewTask(a), ResumeTask(a)},
                        NEW i \in Place(t, x)', NEW j \in Place(t, x)'
                 PROVE  i = j
      BY DEF QueuedOnce
    <2>1. PICK d \in Nat : \A y \in TasksOf(a) : \A k \in Int :
             k \in Place(t, y)' <=> k + d \in Place(t, y)
      BY DEF SamePlaces
    <2>2. i \in Int /\ j \in Int
      BY <1>1
    <2>3. i + d \in Place(t, x) /\ j + d \in Place(t, x)
      BY <2>1, <2>2 DEF TasksOf
    <2>4. i + d = j + d
      BY <2>3 DEF QueuedOnce
    <2> QED
      BY <2>2, <2>4
  <1> QED
    BY <1>4, <1>5, <1>6, <1>7 DEF QueuedRightly

LEMMA StaysOrderly ==
    ASSUME QueueTypes, QueueTypes', NEW a \in Actor, Orderly(a), Stays(a)
    PROVE  Orderly(a)'
  <1>1. QueuedRightly(a)'
    BY SamePlacesQueue DEF Orderly, QueuedRightly, Stays
  <1>2. RunsRightly(a)'
    BY DEF RunsRightly, Orderly, Stays, SameRecord, SameRunner, Ready
  <1>3. IdlesRightly(a)' /\ BeginsRightly(a)'
    BY DEF IdlesRightly, BeginsRightly, Orderly, Stays, SameRecord, SameRunner, Ready
  <1> QED
    BY <1>1, <1>2, <1>3 DEF Orderly

-----------------------------------------------------------------------------
(* What a step does to a queue: it may drop the head and append tasks.     *)
LeftIn(t, d) == IF d = 1 THEN Tail(tasks[t]) ELSE tasks[t]
Moves(t, d, s) ==
    /\ d \in {0, 1} /\ s \in Seq(Task)
    /\ d = 1 => tasks[t] # <<>>
    /\ tasks'[t] = LeftIn(t, d) \o s

LEMMA MovedPlaces ==
    ASSUME QueueTypes, NEW t \in Thread, NEW d, NEW s, Moves(t, d, s), NEW x, NEW i \in Int
    PROVE  i \in Place(t, x)' <=>
             \/ i > 0 /\ i + d \in Place(t, x)
             \/ \E k \in DOMAIN s : i = Len(LeftIn(t, d)) + k /\ s[k] = x
  <1>1. tasks[t] \in Seq(Task) /\ LeftIn(t, d) \in Seq(Task)
    BY DEF QueueTypes, Moves, LeftIn
  <1>2. /\ s \in Seq(Task) /\ d \in {0, 1} /\ tasks'[t] = LeftIn(t, d) \o s
        /\ d = 0 => LeftIn(t, d) = tasks[t]
        /\ d = 1 => tasks[t] # <<>> /\ LeftIn(t, d) = Tail(tasks[t])
    BY DEF Moves, LeftIn
  <1>3. i \in DOMAIN (LeftIn(t, d) \o s) /\ (LeftIn(t, d) \o s)[i] = x <=>
             \/ i > 0 /\ i + d \in DOMAIN tasks[t] /\ tasks[t][i + d] = x
             \/ \E k \in DOMAIN s : i = Len(LeftIn(t, d)) + k /\ s[k] = x
    <2> DEFINE q == tasks[t]
               r == LeftIn(t, d)
    <2>0. q \in Seq(Task) /\ s \in Seq(Task) /\ r \in Seq(Task) /\ d \in {0, 1}
          /\ (d = 0 => r = q) /\ (d = 1 => q # <<>> /\ r = Tail(q))
      BY <1>1, <1>2
    <2> HIDE DEF q, r
    <2> SUFFICES i \in DOMAIN (r \o s) /\ (r \o s)[i] = x <=>
             \/ i > 0 /\ i + d \in DOMAIN q /\ q[i + d] = x
             \/ \E k \in DOMAIN s : i = Len(r) + k /\ s[k] = x
      BY DEF q, r
    <2>1. Len(r) \in Nat /\ Len(r) + d = Len(q) /\ Len(s) \in Nat /\ Len(q) \in Nat
      BY <2>0
    <2>2. \A k \in DOMAIN r : r[k] = q[k + d]
      BY <2>0
    <2>3. r \o s \in Seq(Task) /\ Len(r \o s) = Len(r) + Len(s)
      BY <2>0
    <2>4. DOMAIN (r \o s) = 1 .. (Len(r) + Len(s)) /\ DOMAIN r = 1 .. Len(r)
          /\ DOMAIN s = 1 .. Len(s) /\ DOMAIN q = 1 .. Len(q)
      BY <2>3
    <2>5. CASE i \in DOMAIN r
      <3>1. (r \o s)[i] = q[i + d]
        BY <2>2, <2>5
      <3>2. i > 0 /\ i + d \in DOMAIN q /\ i \in DOMAIN (r \o s)
        BY <2>0, <2>1, <2>4, <2>5
      <3>3. ~\E k \in DOMAIN s : i = Len(r) + k
        BY <2>1, <2>4, <2>5
      <3> QED
        BY <3>1, <3>2, <3>3
    <2>6. CASE i \notin DOMAIN r
      <3>1. ~(i > 0 /\ i + d \in DOMAIN q)
        BY <2>0, <2>1, <2>4, <2>6
      <3>2. i \in DOMAIN (r \o s) => i - Len(r) \in DOMAIN s /\ (r \o s)[i] = s[i - Len(r)]
        BY <2>1, <2>4, <2>6
      <3>3. i - Len(r) \in DOMAIN s => i \in DOMAIN (r \o s)
        BY <2>1, <2>4
      <3>4. \A k \in DOMAIN s : i = Len(r) + k <=> k = i - Len(r)
        BY <2>1, <2>4
      <3>5. (\E k \in DOMAIN s : i = Len(r) + k /\ s[k] = x)
            <=> i - Len(r) \in DOMAIN s /\ s[i - Len(r)] = x
        BY <3>4
      <3> QED
        BY <3>1, <3>2, <3>3, <3>5
    <2> QED
      BY <2>5, <2>6
  <1>4. i \in DOMAIN tasks'[t] /\ tasks'[t][i] = x <=>
             \/ i > 0 /\ i + d \in DOMAIN tasks[t] /\ tasks[t][i + d] = x
             \/ \E k \in DOMAIN s : i = Len(LeftIn(t, d)) + k /\ s[k] = x
    BY <1>2, <1>3
  <1> QED
    BY <1>4 DEF Place

(* The four kinds of tasks, told apart.                                    *)
LEMMA TasksDiffer ==
    ASSUME NEW a, NEW b
    PROVE  /\ a # b => TasksOf(a) \cap TasksOf(b) = {}
           /\ ResumeTask(a) # NewTask(b) /\ NewTask(a) # FreeTask(b)
           /\ ResumeTask(a) # FreeTask(b)
           /\ \A m : SendTask(b, m) \notin TasksOf(a)
  <1>1. /\ ResumeTask(a).type = "RESUME_ACTOR" /\ NewTask(a).type = "NEW_ACTOR"
        /\ FreeTask(a).type = "FREE_VM_STACK"
        /\ ResumeTask(b).type = "RESUME_ACTOR" /\ NewTask(b).type = "NEW_ACTOR"
        /\ FreeTask(b).type = "FREE_VM_STACK"
        /\ \A m : SendTask(b, m).type = "SEND_MESSAGE"
        /\ \A x \in TasksOf(a) : x.actor = a /\ x.type # "SEND_MESSAGE"
        /\ \A x \in TasksOf(b) : x.actor = b
    BY DEF ResumeTask, NewTask, FreeTask, SendTask, TasksOf
  <1> QED
    BY <1>1

LEMMA OthersTasks ==
    ASSUME NEW a, NEW b, a # b, NEW x \in TasksOf(a)
    PROVE  x \notin TasksOf(b)
  BY TasksDiffer

(* Nothing of a dropped, nothing of a appended.                            *)
Foreign(a, t, d, s) ==
    /\ \A k \in DOMAIN s : s[k] \notin TasksOf(a)
    /\ d = 1 => Head(tasks[t]) \notin TasksOf(a)

LEMMA ForeignMoves ==
    ASSUME QueueTypes, NEW a, NEW t \in Thread, NEW d, NEW s, Moves(t, d, s), Foreign(a, t, d, s)
    PROVE  \E e \in Nat : \A x \in TasksOf(a) : \A i \in Int :
             i \in Place(t, x)' <=> i + e \in Place(t, x)
  <1>1. d \in Nat /\ d \in {0, 1}
    BY DEF Moves
  <1> SUFFICES ASSUME NEW x \in TasksOf(a), NEW i \in Int
               PROVE  i \in Place(t, x)' <=> i + d \in Place(t, x)
    BY <1>1
  <1>2. i \in Place(t, x)' <=> i > 0 /\ i + d \in Place(t, x)
    BY MovedPlaces DEF Foreign
  <1>3. ASSUME i + d \in Place(t, x) PROVE i > 0
    <2>1. i + d \in Nat \ {0}
      BY <1>3, PlacesAreNumbers
    <2>2. CASE d = 0
      BY <2>1, <2>2
    <2>3. CASE d = 1
      <3>1. tasks[t] \in Seq(Task) /\ tasks[t] # <<>>
        BY <2>3 DEF QueueTypes, Moves
      <3>2. i + d # 1
        BY <1>3, <2>3, <3>1 DEF Place, Foreign
      <3> QED
        BY <2>1, <2>3, <3>2
    <2> QED
      BY <1>1, <2>2, <2>3
  <1> QED
    BY <1>2, <1>3

LEMMA UnmovedPlaces ==
    ASSUME tasks' = tasks, NEW a
    PROVE  SamePlaces(a)
  <1> SUFFICES ASSUME NEW t \in Thread
               PROVE  \E d \in Nat : \A x \in TasksOf(a) : \A i \in Int :
                        i \in Place(t, x)' <=> i + d \in Place(t, x)
    BY DEF SamePlaces
  <1>1. \A x \in TasksOf(a) : \A i \in Int : i \in Place(t, x)' <=> i + 0 \in Place(t, x)
    BY DEF Place
  <1> QED
    BY <1>1

(* Nothing moves in the queue of any other thread.                         *)
LEMMA OnlyQueueMoves ==
    ASSUME QueueTypes, NEW a, NEW t \in Thread, NEW d, NEW s, Moves(t, d, s), Foreign(a, t, d, s),
           \A u \in Thread \ {t} : tasks'[u] = tasks[u]
    PROVE  SamePlaces(a)
  <1> SUFFICES ASSUME NEW u \in Thread
               PROVE  \E e \in Nat : \A x \in TasksOf(a) : \A i \in Int :
                        i \in Place(u, x)' <=> i + e \in Place(u, x)
    BY DEF SamePlaces
  <1>1. CASE u = t
    BY <1>1, ForeignMoves
  <1>2. CASE u # t
    <2>1. \A x \in TasksOf(a) : \A i \in Int : i \in Place(u, x)' <=> i + 0 \in Place(u, x)
      BY <1>2 DEF Place
    <2> QED
      BY <2>1
  <1> QED
    BY <1>1, <1>2

LEMMA EnqueueMoves ==
    ASSUME QueueTypes, NEW t \in Thread, NEW s \in Seq(Task), Enqueue(t, s)
    PROVE  Moves(t, 0, s) /\ \A u \in Thread \ {t} : tasks'[u] = tasks[u]
  BY DEF Enqueue, QueueTypes, Moves, LeftIn

LEMMA DequeueMoves ==
    ASSUME QueueTypes, NEW t \in Thread, tasks[t] # <<>>, Dequeue(t)
    PROVE  Moves(t, 1, <<>>) /\ \A u \in Thread \ {t} : tasks'[u] = tasks[u]
  <1>1. tasks[t] \in Seq(Task) /\ Tail(tasks[t]) \in Seq(Task) /\ <<>> \in Seq(Task)
    BY DEF QueueTypes
  <1>2. tasks' = [tasks EXCEPT ![t] = Tail(@)]
    BY DEF Dequeue
  <1>3. tasks'[t] = Tail(tasks[t]) /\ \A u \in Thread \ {t} : tasks'[u] = tasks[u]
    BY <1>2 DEF QueueTypes
  <1>4. Tail(tasks[t]) = Tail(tasks[t]) \o <<>>
    BY <1>1
  <1> QED
    BY <1>1, <1>3, <1>4 DEF Moves, LeftIn

-----------------------------------------------------------------------------
(* The tasks of one actor: none, or those just queued for it.              *)
Untasked(a) == \A t \in Thread, x \in TasksOf(a) : Place(t, x) = {}
TasksAre(a, t, s) ==
    /\ \E n \in Int : \A x \in TasksOf(a) : \A i \in Int :
          i \in Place(t, x) <=> \E k \in DOMAIN s : i = n + k /\ s[k] = x
    /\ \A u \in Thread \ {t}, x \in TasksOf(a) : Place(u, x) = {}

LEMMA FirstTasks ==
    ASSUME QueueTypes, NEW a, Untasked(a), NEW t \in Thread, NEW d, NEW s, Moves(t, d, s),
           \A u \in Thread \ {t} : \E e : Moves(u, e, <<>>)
    PROVE  TasksAre(a, t, s)'
  <1>1. \A x \in TasksOf(a) : \A i \in Int :
          i \in Place(t, x)' <=> \E k \in DOMAIN s : i = Len(LeftIn(t, d)) + k /\ s[k] = x
    BY MovedPlaces DEF Untasked
  <1>2. Len(LeftIn(t, d)) \in Int
    BY DEF LeftIn, Moves, QueueTypes
  <1>3. ASSUME NEW u \in Thread \ {t}, NEW x \in TasksOf(a) PROVE Place(u, x)' = {}
    <2>1. PICK e : Moves(u, e, <<>>)
      BY <1>3
    <2>2. \A i \in Int : i \notin Place(u, x)'
      BY <2>1, MovedPlaces DEF Untasked
    <2>3. tasks'[u] \in Seq(Task)
      BY <2>1 DEF Moves, QueueTypes, LeftIn
    <2> QED
      BY <2>2, <2>3 DEF Place
  <1> QED
    BY <1>1, <1>2, <1>3 DEF TasksAre

LEMMA NothingQueued ==
    ASSUME NEW a, Untasked(a)'
    PROVE  QueuedRightly(a)'
  BY DEF Untasked, TasksOf, QueuedRightly, StartsRightly, FreesRightly, WakesRightly, QueuedOnce

LEMMA StillUntasked ==
    ASSUME NEW a, Untasked(a), tasks' = tasks
    PROVE  Untasked(a)'
  BY DEF Untasked, Place

LEMMA StartQueued ==
    ASSUME QueueTypes', NEW a, NEW t \in Thread, NEW s \in {<<NewTask(a)>>, <<FreeTask(a), NewTask(a)>>},
           TasksAre(a, t, s)', Ready(a)', t = thread_offset'[a], state'[a] \in Starting,
           \A u \in Thread : current'[u] # a
    PROVE  QueuedRightly(a)'
  <1>1. PICK n \in Int : \A x \in TasksOf(a) : \A i \in Int :
           i \in Place(t, x)' <=> \E k \in DOMAIN s : i = n + k /\ s[k] = x
    BY DEF TasksAre
  <1>2. \A x : Place(t, x)' \subseteq Int
    BY DEF Place, QueueTypes
  <1>3. /\ \A i \in Int : ~\E k \in DOMAIN s : i = n + k /\ s[k] = ResumeTask(a)
        /\ \A i \in Int : (\E k \in DOMAIN s : i = n + k /\ s[k] = NewTask(a)) <=> i = n + Len(s)
        /\ \A i \in Int : (\E k \in DOMAIN s : i = n + k /\ s[k] = FreeTask(a)) => i < n + Len(s)
        /\ n + Len(s) \in Int
    <2>1. CASE s = <<NewTask(a)>>
      BY <2>1, TasksDiffer
    <2>2. CASE s = <<FreeTask(a), NewTask(a)>>
      BY <2>2, TasksDiffer
    <2> QED
      BY <2>1, <2>2
  <1>4. /\ Place(t, ResumeTask(a))' = {}
        /\ Place(t, NewTask(a))' = {n + Len(s)}
        /\ \A i \in Place(t, FreeTask(a))' : i < n + Len(s)
    BY <1>1, <1>2, <1>3 DEF TasksOf
  <1>5. \A u \in Thread \ {t} : /\ Place(u, ResumeTask(a))' = {}
                                /\ Place(u, NewTask(a))' = {}
                                /\ Place(u, FreeTask(a))' = {}
    BY DEF TasksAre, TasksOf
  <1>6. StartsRightly(a)' /\ WakesRightly(a)'
    BY <1>4, <1>5 DEF StartsRightly, WakesRightly
  <1>7. FreesRightly(a)'
    BY <1>4, <1>5 DEF FreesRightly
  <1>8. QueuedOnce(a)'
    BY <1>4, <1>5 DEF QueuedOnce
  <1> QED
    BY <1>6, <1>7, <1>8 DEF QueuedRightly

LEMMA WakeQueued ==
    ASSUME QueueTypes', NEW a, NEW t \in Thread, TasksAre(a, t, <<ResumeTask(a)>>)',
           Ready(a)', t = thread_offset'[a], state'[a] = "IDLE", mailbox'[a] # <<>>,
           \A u \in Thread : current'[u] = a => pc'[u] = "swap"
    PROVE  QueuedRightly(a)'
  <1> DEFINE s == <<ResumeTask(a)>>
  <1>1. PICK n \in Int : \A x \in TasksOf(a) : \A i \in Int :
           i \in Place(t, x)' <=> \E k \in DOMAIN s : i = n + k /\ s[k] = x
    BY DEF TasksAre
  <1>2. \A x : Place(t, x)' \subseteq Int
    BY DEF Place, QueueTypes
  <1>3. \A i \in Int : /\ (\E k \in DOMAIN s : i = n + k /\ s[k] = ResumeTask(a)) <=> i = n + 1
                       /\ ~\E k \in DOMAIN s : i = n + k /\ s[k] = NewTask(a)
                       /\ ~\E k \in DOMAIN s : i = n + k /\ s[k] = FreeTask(a)
    BY TasksDiffer
  <1> HIDE DEF s
  <1>4. /\ Place(t, ResumeTask(a))' = {n + 1}
        /\ Place(t, NewTask(a))' = {}
        /\ Place(t, FreeTask(a))' = {}
    BY <1>1, <1>2, <1>3 DEF TasksOf
  <1>5. \A u \in Thread \ {t} : /\ Place(u, ResumeTask(a))' = {}
                                /\ Place(u, NewTask(a))' = {}
                                /\ Place(u, FreeTask(a))' = {}
    BY DEF TasksAre, TasksOf
  <1> QED
    BY <1>4, <1>5 DEF QueuedRightly, StartsRightly, WakesRightly, FreesRightly, QueuedOnce

LEMMA NothingAdded ==
    ASSUME QueueTypes', NEW a, NEW t \in Thread, TasksAre(a, t, <<>>)'
    PROVE  Untasked(a)'
  <1>1. \A x \in TasksOf(a) : \A i \in Int : i \notin Place(t, x)'
    BY DEF TasksAre
  <1>2. \A x : Place(t, x)' \subseteq Int
    BY DEF Place, QueueTypes
  <1> QED
    BY <1>1, <1>2 DEF Untasked, TasksAre

(* An actor that runs, runs on one thread, and is in nobody's queue.       *)
LEMMA RunsAlone ==
    ASSUME NEW a, NEW t \in Thread, Orderly(a), current[t] = a
    PROVE  /\ Ready(a) /\ t = thread_offset[a] /\ Fits(state[a], pc[t])
           /\ \A u \in Thread : current[u] = a => u = t
           /\ pc[t] # "swap" => Untasked(a)
  <1>1. Ready(a) /\ t = thread_offset[a] /\ Fits(state[a], pc[t])
        /\ \A u \in Thread : current[u] = a => u = t
    BY DEF Orderly, RunsRightly
  <1>2. \A u \in Thread : Place(u, NewTask(a)) = {}
    BY DEF Orderly, QueuedRightly, StartsRightly
  <1>3. \A u \in Thread : Place(u, FreeTask(a)) = {}
    BY <1>2 DEF Orderly, QueuedRightly, FreesRightly
  <1>4. pc[t] # "swap" => \A u \in Thread : Place(u, ResumeTask(a)) = {}
    BY DEF Orderly, QueuedRightly, WakesRightly
  <1> QED
    BY <1>1, <1>2, <1>3, <1>4 DEF Untasked, TasksOf

LEMMA UnreadyIsUntasked ==
    ASSUME NEW a, Orderly(a), ~Ready(a)
    PROVE  Untasked(a) /\ \A u \in Thread : current[u] # a
  BY DEF Orderly, RunsRightly, QueuedRightly, StartsRightly, FreesRightly, WakesRightly,
     Untasked, TasksOf

-----------------------------------------------------------------------------
(* One step at a time: t's own pointers and one actor at most.             *)
AllOrderly == \A a \in Actor : Orderly(a)
Local(t) == \A u \in Thread \ {t} :
    pc'[u] = pc[u] /\ current'[u] = current[u] /\ boss'[u] = boss[u]
QuietRecords == UNCHANGED <<registryVars, newborn, thread_offset, state, context, mailbox>>

LEMMA LocalSteps ==
    ASSUME ThreadTypes, NEW t \in Thread,
           pc' = pc \/ \E label \in PC : Goto(t, label),
           current' = current \/ \E x : current' = [current EXCEPT ![t] = x],
           boss' = boss \/ \E x : boss' = [boss EXCEPT ![t] = x]
    PROVE  Local(t)
  BY DEF Local, ThreadTypes, Goto

LEMMA OthersRun ==
    ASSUME NEW a, NEW t \in Thread, Local(t), current[t] # a, current'[t] # a
    PROVE  SameRunner(a)
  BY DEF SameRunner, Local

LEMMA NobodyRuns ==
    ASSUME UNCHANGED <<pc, current, boss>>, NEW a
    PROVE  SameRunner(a)
  BY DEF SameRunner

LEMMA QuietRecord ==
    ASSUME QuietRecords, NEW a
    PROVE  SameRecord(a)
  BY DEF QuietRecords, SameRecord, registryVars, treeVars, Unscheduled

LEMMA IdleThread ==
    ASSUME AllOrderly, NEW t \in Thread,
           pc[t] \notin {"ctor", "workers", "start", "walking", "receive", "swap", "resume", "crash"}
    PROVE  \A a \in Actor : current[t] # a
  BY DEF AllOrderly, Orderly, RunsRightly, Fits

(* Steps of a thread that runs no actor, and of the script.                *)
LEMMA IdleSteps ==
    ASSUME QueueTypes, QueueTypes', AllOrderly, NEW t \in Thread, Local(t), QuietRecords,
           \A a \in Actor : current[t] # a, current' = current, tasks' = tasks
    PROVE  AllOrderly'
  <1> SUFFICES ASSUME NEW a \in Actor PROVE Orderly(a)'
    BY DEF AllOrderly
  <1>1. SameRunner(a) /\ SameRecord(a) /\ SamePlaces(a)
    BY OthersRun, QuietRecord, UnmovedPlaces
  <1> QED
    BY <1>1, StaysOrderly DEF Stays, AllOrderly

(* The actor t runs goes on to its next label.                             *)
LEMMA RunnerGoesOn ==
    ASSUME NEW a, NEW t \in Thread, Orderly(a), current[t] = a, pc[t] # "swap",
           tasks' = tasks, current' = current, thread_offset'[a] = thread_offset[a],
           a \in by_ref', a \in created', a \notin Unscheduled',
           Fits(state'[a], pc'[t]), state'[a] # "IDLE",
           pc'[t] = "crash" => boss'[t] \in {NoActor, supervisor'[a]}
    PROVE  Orderly(a)'
  <1>1. Untasked(a) /\ t = thread_offset[a] /\ \A u \in Thread : current[u] = a => u = t
    BY RunsAlone
  <1>2. QueuedRightly(a)'
    BY <1>1, StillUntasked, NothingQueued
  <1>3. pc'[t] # "resume"
    BY DEF Fits, Starting
  <1>4. RunsRightly(a)'
    BY <1>1, <1>3 DEF RunsRightly, Ready
  <1>5. IdlesRightly(a)' /\ BeginsRightly(a)'
    BY DEF IdlesRightly, BeginsRightly
  <1> QED
    BY <1>2, <1>4, <1>5 DEF Orderly

(* The actor leaves the thread, and perhaps the table; nothing is queued.  *)
LEMMA RunnerLeaves ==
    ASSUME NEW a, NEW t \in Thread, Orderly(a), current[t] = a, pc[t] # "swap",
           tasks' = tasks, Local(t), current'[t] # a,
           a \in created', a \notin Unscheduled', state'[a] # "IDLE"
    PROVE  Orderly(a)'
  <1>1. Untasked(a) /\ \A u \in Thread : current[u] = a => u = t
    BY RunsAlone
  <1>2. QueuedRightly(a)'
    BY <1>1, StillUntasked, NothingQueued
  <1>3. \A u \in Thread : current'[u] # a
    BY <1>1 DEF Local
  <1>4. RunsRightly(a)'
    BY <1>3 DEF RunsRightly
  <1>5. IdlesRightly(a)' /\ BeginsRightly(a)'
    BY DEF IdlesRightly, BeginsRightly
  <1> QED
    BY <1>2, <1>4, <1>5 DEF Orderly

LEMMA CreateOrderly ==
    ASSUME Typed, Typed', AllOrderly, NEW t \in Thread, Create(t)
    PROVE  AllOrderly'
  <1>1. PICK a \in Actor, s \in Actor \cup {NoActor} :
          /\ newborn[t] = NoActor
          /\ Insert(a, s)
          /\ IF Refused(a, s) THEN newborn' = newborn
             ELSE newborn' = [newborn EXCEPT ![t] = a]
          /\ UNCHANGED <<state, context, mailbox, tasks, thread_offset, pc, current, boss>>
    BY DEF Create, RunsPhp, queueVars
  <1>2. a \notin created /\ created' = created \cup {a} /\ by_ref \subseteq created
        /\ a \notin by_ref
    BY <1>1 DEF Insert, Typed, TypeOK, RegistryTypeOK
  <1>3. /\ by_ref' = IF Refused(a, s) THEN by_ref ELSE by_ref \cup {a}
        /\ \A x \in Actor : x # a => supervisor'[x] = supervisor[x]
    BY <1>1 DEF Insert, Attach, treeVars, Typed, TypeOK, RegistryTypeOK
  <1>4. Orderly(a) /\ ~Ready(a) /\ a \notin Unscheduled
    BY <1>2 DEF AllOrderly, Ready, Orderly, BeginsRightly
  <1>5. /\ \A x \in Actor : x # a => (x \in Unscheduled' <=> x \in Unscheduled)
        /\ a \in Unscheduled' => a \in by_ref'
    <2>1. CASE Refused(a, s)
      BY <1>1, <1>4, <2>1 DEF Unscheduled
    <2>2. CASE ~Refused(a, s)
      BY <1>1, <1>3, <2>2 DEF Unscheduled, Typed, TypeOK, ThreadTypes
    <2> QED
      BY <2>1, <2>2
  <1>6. Untasked(a) /\ (\A u \in Thread : current[u] # a) /\ state[a] = "SPAWNING"
    BY <1>2, <1>4, UnreadyIsUntasked DEF Orderly, BeginsRightly
  <1>7. Orderly(a)'
    <2>1. QueuedRightly(a)'
      BY <1>1, <1>6, StillUntasked, NothingQueued
    <2>2. state' = state /\ current' = current
      BY <1>1
    <2> QED
      BY <1>5, <1>6, <2>1, <2>2 DEF Orderly, RunsRightly, IdlesRightly, BeginsRightly
  <1>8. ASSUME NEW x \in Actor, x # a PROVE Stays(x)
    <2>1. SameRunner(x) /\ SamePlaces(x)
      BY <1>1, NobodyRuns, UnmovedPlaces
    <2>2. SameRecord(x)
      BY <1>1, <1>2, <1>3, <1>5, <1>8 DEF SameRecord
    <2> QED
      BY <2>1, <2>2 DEF Stays
  <1> QED
    BY <1>7, <1>8, StaysOrderly DEF AllOrderly, Typed, TypeOK

LEMMA ScheduleOrderly ==
    ASSUME Typed, Typed', AtHome, AllOrderly, NEW t \in Thread, Schedule(t)
    PROVE  AllOrderly'
  <1>1. PICK a \in Actor, o \in Worker :
          /\ newborn[t] = a
          /\ thread_offset' = [thread_offset EXCEPT ![a] = o]
          /\ Enqueue(o, <<NewTask(a)>>)
          /\ newborn' = [newborn EXCEPT ![t] = NoActor]
          /\ UNCHANGED <<registryVars, state, context, mailbox, pc, current, boss>>
    BY DEF Schedule, objectVars
  <1>2. o \in Thread /\ <<NewTask(a)>> \in Seq(Task)
    BY TasksAreTasks DEF Thread
  <1>3. QueueTypes /\ QueueTypes' /\ ThreadTypes
    BY DEF Typed, TypeOK
  <1>4. Moves(o, 0, <<NewTask(a)>>) /\ \A u \in Thread \ {o} : tasks'[u] = tasks[u]
    BY <1>1, <1>2, <1>3, EnqueueMoves
  <1>5. Orderly(a) /\ a \in Unscheduled /\ a \in by_ref /\ state[a] = "SPAWNING"
    <2>1. a \in Unscheduled
      BY <1>1, ActorAssumption DEF Unscheduled
    <2> QED
      BY <2>1 DEF AllOrderly, Orderly, BeginsRightly
  <1>6. Untasked(a) /\ \A u \in Thread : current[u] # a
    BY <1>5, UnreadyIsUntasked DEF Ready
  <1>7. Unscheduled' = Unscheduled \ {a}
    BY <1>1, <1>3, ActorAssumption DEF Unscheduled, ThreadTypes, AtHome, OneCreator
  <1>8. Orderly(a)'
    <2>1. \A u \in Thread \ {o} : Moves(u, 0, <<>>)
      BY <1>3, <1>4 DEF Moves, LeftIn, QueueTypes
    <2>2. TasksAre(a, o, <<NewTask(a)>>)'
      BY <1>2, <1>3, <1>4, <1>6, <2>1, FirstTasks
    <2>3. Ready(a)' /\ o = thread_offset'[a] /\ state'[a] = "SPAWNING"
          /\ \A u \in Thread : current'[u] # a
      BY <1>1, <1>3, <1>5, <1>6, <1>7 DEF Ready, registryVars, QueueTypes
    <2>4. QueuedRightly(a)'
      BY <1>2, <1>3, <2>2, <2>3, StartQueued DEF Starting
    <2>5. a \in created'
      BY <1>1, <1>5 DEF registryVars, Typed, TypeOK, RegistryTypeOK
    <2> QED
      BY <2>3, <2>4, <2>5 DEF Orderly, RunsRightly, IdlesRightly, BeginsRightly, Ready
  <1>9. ASSUME NEW x \in Actor, x # a PROVE Stays(x)
    <2>1. SameRunner(x)
      BY <1>1, NobodyRuns
    <2>2. Foreign(x, o, 0, <<NewTask(a)>>)
      <3>1. NewTask(a) \in TasksOf(a)
        BY DEF TasksOf
      <3> QED
        BY <1>9, <3>1, OthersTasks DEF Foreign
    <2>3. SamePlaces(x)
      BY <1>2, <1>3, <1>4, <2>2, OnlyQueueMoves
    <2>4. SameRecord(x)
      BY <1>1, <1>3, <1>7, <1>9 DEF SameRecord, registryVars, treeVars, QueueTypes
    <2> QED
      BY <2>1, <2>3, <2>4 DEF Stays
  <1> QED
    BY <1>3, <1>8, <1>9, StaysOrderly DEF AllOrderly

-----------------------------------------------------------------------------
(* What PHP code does on a thread.                                         *)
LEMMA PromoteOrderly ==
    ASSUME Typed, Typed', AllOrderly, NEW t \in Thread, Promote(t)
    PROVE  AllOrderly'
  <1>1. UNCHANGED <<created, by_ref, supervisor, newborn, thread_offset, state, context,
                    mailbox, tasks, pc, current, boss>>
    BY DEF Promote, SupervisorConstruct, objectVars, queueVars, threadVars
  <1> SUFFICES ASSUME NEW a \in Actor PROVE Stays(a)
    BY StaysOrderly DEF AllOrderly, Typed, TypeOK
  <1>2. SameRecord(a)
    BY <1>1 DEF SameRecord, Unscheduled
  <1> QED
    BY <1>1, <1>2, NobodyRuns, UnmovedPlaces DEF Stays

LEMMA AddOrderly ==
    ASSUME Typed, Typed', TreeNumbers, AllOrderly, NEW t \in Thread, Add(t)
    PROVE  AllOrderly'
  <1>1. PICK s \in Actor, w \in Actor :
          /\ RunsPhp(t)
          /\ AddWorker(s, w)
          /\ (lock' = "walking" /\ Goto(t, "walking")) \/ pc' = pc
          /\ UNCHANGED <<state, context, mailbox, tasks, thread_offset, newborn, current, boss>>
    BY DEF Add, objectVars, queueVars
  <1>2. created' = created /\ by_ref' = by_ref
    BY <1>1 DEF AddWorker
  <1>3. \A x \in Actor : supervisor'[x] = supervisor[x] \/ supervisor[x] = NoActor
    <2>1. CASE UNCHANGED treeVars
      BY <2>1 DEF treeVars
    <2>2. CASE CanAdd(s, w) /\ Attach(s, w)
      <3>1. supervisor[w] = NoActor
        BY <2>2 DEF CanAdd, LinksAgree, TreeNumbers, RegistryTypeOK, Typed, TypeOK
      <3> QED
        BY <2>2, <3>1 DEF Attach, RegistryTypeOK, Typed, TypeOK
    <2> QED
      BY <1>1, <2>1, <2>2 DEF AddWorker
  <1>4. Local(t)
    BY <1>1, LocalSteps DEF Typed, TypeOK, PC
  <1>5. \A x \in Actor : SameRecord(x) /\ SamePlaces(x)
    BY <1>1, <1>2, <1>3, UnmovedPlaces DEF SameRecord, Unscheduled
  <1>6. ASSUME NEW x \in Actor, current[t] # x \/ pc' = pc PROVE Orderly(x)'
    <2>1. SameRunner(x)
      BY <1>1, <1>4, <1>6, OthersRun, NobodyRuns
    <2> QED
      BY <1>5, <2>1, StaysOrderly DEF Stays, AllOrderly, Typed, TypeOK
  <1>7. ASSUME NEW a \in Actor, current[t] = a, Goto(t, "walking") PROVE Orderly(a)'
    <2>1. Orderly(a) /\ pc[t] \in {"script", "ctor", "receive"} /\ pc'[t] = "walking"
      BY <1>1, <1>7 DEF AllOrderly, RunsPhp, Goto, Typed, TypeOK, ThreadTypes
    <2>2. Ready(a) /\ Fits(state[a], pc[t])
      BY <1>7, <2>1, RunsAlone
    <2>3. Fits(state'[a], pc'[t]) /\ state'[a] # "IDLE"
      BY <1>1, <2>1, <2>2 DEF Fits, Starting
    <2>4. a \in by_ref' /\ a \in created' /\ a \notin Unscheduled'
      BY <1>1, <1>2, <2>2 DEF Ready, Unscheduled, Typed, TypeOK, RegistryTypeOK
    <2> QED
      BY <1>1, <1>7, <2>1, <2>3, <2>4, RunnerGoesOn
  <1> QED
    BY <1>1, <1>6, <1>7 DEF AllOrderly

LEMMA SendOrderly ==
    ASSUME Typed, Typed', AllOrderly, NEW t \in Thread, Send(t)
    PROVE  AllOrderly'
  <1>1. PICK to \in Actor \cup Name :
          /\ sent < MaxSends
          /\ Enqueue(Main, <<SendTask(to, sent + 1)>>)
          /\ QuietRecords /\ UNCHANGED <<pc, current, boss>>
    BY DEF Send, QuietRecords, objectVars, threadVars
  <1>2. QueueTypes /\ QueueTypes' /\ Main \in Thread
    BY DEF Typed, TypeOK, Thread
  <1>3. <<SendTask(to, sent + 1)>> \in Seq(Task)
    <2>1. sent + 1 \in Message
      BY <1>1, BoundAssumption DEF Typed, TypeOK, BoundTypes, Message
    <2> QED
      BY <2>1, TasksAreTasks
  <1>4. Moves(Main, 0, <<SendTask(to, sent + 1)>>)
        /\ \A u \in Thread \ {Main} : tasks'[u] = tasks[u]
    BY <1>1, <1>2, <1>3, EnqueueMoves
  <1> SUFFICES ASSUME NEW a \in Actor PROVE Stays(a)
    BY <1>2, StaysOrderly DEF AllOrderly
  <1>5. Foreign(a, Main, 0, <<SendTask(to, sent + 1)>>)
    BY TasksDiffer DEF Foreign
  <1>6. SamePlaces(a)
    BY <1>2, <1>4, <1>5, OnlyQueueMoves
  <1> QED
    BY <1>1, <1>6, QuietRecord, NobodyRuns DEF Stays

LEMMA ReceiveBlockOrderly ==
    ASSUME Typed, Typed', AllOrderly, NEW t \in Thread, ReceiveBlock(t)
    PROVE  AllOrderly'
  <1>0. PICK a \in Actor : a = current[t]
    BY DEF ReceiveBlock, Typed, TypeOK, RegistryTypeOK
  <1>s. PICK s : s = BlockTasks(a)
    OBVIOUS
  <1>1. /\ pc[t] = "receive" /\ a \in by_ref /\ current[t] = a
        /\ state' = [state EXCEPT ![a] = "IDLE"]
        /\ Enqueue(thread_offset[a], s)
        /\ Goto(t, "swap")
        /\ UNCHANGED <<registryVars, context, mailbox, thread_offset, newborn, current, boss>>
    BY <1>0, <1>s DEF ReceiveBlock, At
  <1>2. a \in Actor /\ Orderly(a)
    BY DEF AllOrderly
  <1>3. QueueTypes /\ QueueTypes' /\ ThreadTypes /\ ObjectTypes
    BY DEF Typed, TypeOK
  <1>4. Ready(a) /\ t = thread_offset[a] /\ Untasked(a) /\ \A u \in Thread : current[u] = a => u = t
    BY <1>1, <1>2, RunsAlone
  <1>5. s \in Seq(Task) /\ (mailbox[a] = <<>> => s = <<>>)
        /\ (mailbox[a] # <<>> => s = <<ResumeTask(a)>>)
    BY <1>s, TasksAreTasks DEF BlockTasks
  <1>6. Moves(t, 0, s) /\ \A u \in Thread \ {t} : tasks'[u] = tasks[u]
    BY <1>1, <1>3, <1>4, <1>5, EnqueueMoves
  <1>7. Local(t) /\ pc'[t] = "swap"
    BY <1>1, <1>3, LocalSteps DEF PC, Goto, ThreadTypes
  <1>8. Orderly(a)'
    <2>1. \A u \in Thread \ {t} : Moves(u, 0, <<>>)
      BY <1>3, <1>6 DEF Moves, LeftIn, QueueTypes
    <2>2. TasksAre(a, t, s)'
      BY <1>3, <1>4, <1>6, <2>1, FirstTasks
    <2>3. Ready(a)' /\ t = thread_offset'[a] /\ state'[a] = "IDLE" /\ mailbox' = mailbox
      BY <1>1, <1>2, <1>3, <1>4 DEF Ready, Unscheduled, registryVars, ObjectTypes
    <2>4. \A u \in Thread : current'[u] = a => u = t /\ pc'[u] = "swap"
      BY <1>1, <1>4, <1>7
    <2>5. QueuedRightly(a)'
      <3>1. CASE mailbox[a] = <<>>
        BY <1>3, <1>5, <2>2, <3>1, NothingAdded, NothingQueued
      <3>2. CASE mailbox[a] # <<>>
        <4>1. TasksAre(a, t, <<ResumeTask(a)>>)'
          BY <1>5, <2>2, <3>2
        <4> QED
          BY <1>3, <2>3, <2>4, <3>2, <4>1, WakeQueued
      <3> QED
        BY <3>1, <3>2
    <2>6. RunsRightly(a)'
      BY <2>3, <2>4 DEF RunsRightly, Fits
    <2>7. IdlesRightly(a)'
      BY <1>1, <2>3 DEF IdlesRightly
    <2>8. BeginsRightly(a)'
      BY <2>3 DEF BeginsRightly, Ready, Typed, TypeOK, RegistryTypeOK
    <2> QED
      BY <2>5, <2>6, <2>7, <2>8 DEF Orderly
  <1>9. ASSUME NEW x \in Actor, x # a PROVE Stays(x)
    <2>1. SameRunner(x)
      BY <1>1, <1>7, <1>9, OthersRun
    <2>2. Foreign(x, t, 0, s)
      <3>1. ResumeTask(a) \in TasksOf(a)
        BY DEF TasksOf
      <3> QED
        BY <1>5, <1>9, <3>1, OthersTasks DEF Foreign
    <2>3. SamePlaces(x)
      BY <1>3, <1>6, <2>2, OnlyQueueMoves
    <2>4. SameRecord(x)
      BY <1>1, <1>3, <1>9 DEF SameRecord, registryVars, treeVars, Unscheduled, ObjectTypes
    <2> QED
      BY <2>1, <2>3, <2>4 DEF Stays
  <1> QED
    BY <1>2, <1>3, <1>8, <1>9, StaysOrderly DEF AllOrderly

LEMMA SwapOrderly ==
    ASSUME Typed, Typed', AllOrderly, NEW t \in Thread, Swap(t)
    PROVE  AllOrderly'
  <1>0. PICK a \in Actor : a = current[t]
    BY DEF Swap, At, Typed, HasCurrent, Running
  <1>1. /\ pc[t] = "swap" /\ current[t] = a
        /\ context' = [context EXCEPT ![a] = "saved"]
        /\ pc' = [pc EXCEPT ![t] = "loop"] /\ current' = [current EXCEPT ![t] = NoActor]
        /\ UNCHANGED <<registryVars, state, mailbox, tasks, thread_offset, boss, newborn>>
    BY <1>0 DEF Swap, At, Rest, Goto, queueVars
  <1>2. a \in Actor /\ Orderly(a)
    BY DEF AllOrderly
  <1>3. QueueTypes /\ QueueTypes' /\ ThreadTypes /\ ObjectTypes
    BY DEF Typed, TypeOK
  <1>4. Local(t) /\ current'[t] = NoActor
    BY <1>1, <1>3 DEF Local, ThreadTypes
  <1>5. /\ Ready(a) /\ t = thread_offset[a] /\ state[a] = "IDLE"
        /\ \A u \in Thread : current[u] = a => u = t
    BY <1>1, <1>2, RunsAlone DEF Fits
  <1>6. \A u \in Thread : current'[u] # a
    BY <1>2, <1>4, <1>5, ActorAssumption DEF Local
  <1>7. Ready(a)' /\ (a \in Unscheduled' <=> a \in Unscheduled) /\ context'[a] = "saved"
    BY <1>1, <1>2, <1>3, <1>5 DEF Ready, Unscheduled, registryVars, ObjectTypes
  <1>8. Orderly(a)'
    <2>1. QueuedRightly(a)'
      <3>1. \A u \in Thread : \A x : Place(u, x)' = Place(u, x)
        BY <1>1 DEF Place
      <3>2. StartsRightly(a)' /\ WakesRightly(a)'
        BY <1>1, <1>2, <1>5, <1>6, <1>7, <3>1
        DEF Orderly, QueuedRightly, StartsRightly, WakesRightly
      <3>3. FreesRightly(a)' /\ QueuedOnce(a)'
        BY <1>2, <3>1 DEF Orderly, QueuedRightly, FreesRightly, QueuedOnce
      <3> QED
        BY <3>2, <3>3 DEF QueuedRightly
    <2>2. RunsRightly(a)' /\ IdlesRightly(a)'
      BY <1>6, <1>7 DEF RunsRightly, IdlesRightly
    <2>3. BeginsRightly(a)'
      BY <1>7 DEF BeginsRightly, Ready, Typed, TypeOK, RegistryTypeOK
    <2> QED
      BY <2>1, <2>2, <2>3 DEF Orderly
  <1>9. ASSUME NEW x \in Actor, x # a PROVE Stays(x)
    <2>1. SameRunner(x)
      BY <1>1, <1>4, <1>9, OthersRun, ActorAssumption
    <2>2. SamePlaces(x)
      BY <1>1, UnmovedPlaces
    <2>3. SameRecord(x)
      BY <1>1, <1>3, <1>9 DEF SameRecord, registryVars, treeVars, Unscheduled, ObjectTypes
    <2> QED
      BY <2>1, <2>2, <2>3 DEF Stays
  <1> QED
    BY <1>2, <1>3, <1>8, <1>9, StaysOrderly DEF AllOrderly

-----------------------------------------------------------------------------
(* The end of a call, and of an actor: nobody is below it.                 *)
LEMMA NobodyBelow ==
    ASSUME NEW a \in Actor, workers[a] = {}
    PROVE  Subtree(a) = {a}
  <1>1. {} \in SUBSET Actor /\ workers[a] \subseteq {} /\ Closed({})
    BY DEF Closed
  <1>2. Below(a) = {}
    BY <1>1 DEF Below
  <1> QED
    BY <1>2 DEF Subtree

(* t keeps its actor and goes to another label.                            *)
GoesTo(t, label) ==
    /\ Goto(t, label)
    /\ UNCHANGED <<registryVars, tasks, thread_offset, newborn, current>>

LEMMA GoingOrderly ==
    ASSUME Typed, Typed', AllOrderly, NEW t \in Thread, NEW a \in Actor, current[t] = a,
           pc[t] # "swap", NEW label \in PC, GoesTo(t, label), Fits(state'[a], label),
           state'[a] # "IDLE", label = "crash" => boss'[t] \in {NoActor, supervisor[a]},
           boss' = boss \/ \E x : boss' = [boss EXCEPT ![t] = x],
           \A x \in Actor \ {a} : state'[x] = state[x] /\ mailbox'[x] = mailbox[x],
           context' = context
    PROVE  AllOrderly'
  <1>1. QueueTypes /\ QueueTypes' /\ ThreadTypes
    BY DEF Typed, TypeOK
  <1>2. /\ UNCHANGED <<created, by_ref, supervisor, tasks, thread_offset, newborn, current>>
        /\ Goto(t, label)
    BY DEF GoesTo, registryVars, treeVars
  <1>3. Local(t) /\ pc'[t] = label
    BY <1>1, <1>2, LocalSteps DEF Goto, ThreadTypes
  <1>4. Orderly(a) /\ Ready(a)
    BY RunsAlone DEF AllOrderly
  <1>5. Unscheduled' = Unscheduled
    BY <1>2 DEF Unscheduled
  <1>6. a \in by_ref' /\ a \in created' /\ a \notin Unscheduled'
    BY <1>2, <1>4, <1>5 DEF Ready, Typed, TypeOK, RegistryTypeOK
  <1>7. Orderly(a)'
    BY <1>2, <1>3, <1>4, <1>6, RunnerGoesOn
  <1>8. ASSUME NEW x \in Actor, x # a PROVE Stays(x)
    <2>1. SameRunner(x) /\ SamePlaces(x)
      BY <1>2, <1>3, <1>8, OthersRun, UnmovedPlaces
    <2>2. SameRecord(x)
      BY <1>2, <1>5, <1>8 DEF SameRecord
    <2> QED
      BY <2>1, <2>2 DEF Stays
  <1> QED
    BY <1>1, <1>7, <1>8, StaysOrderly DEF AllOrderly

LEMMA ThrowOrderly ==
    ASSUME Typed, Typed', AllOrderly, NEW t \in Thread, Throw(t), workers[current[t]] = {}
    PROVE  AllOrderly'
  <1>0. PICK a \in Actor : a = current[t]
    BY DEF Throw, At, Typed, HasCurrent, Running
  <1>1. /\ pc[t] \in {"ctor", "receive"}
        /\ Crash(t, a)
        /\ UNCHANGED <<registryVars, context, mailbox, tasks, thread_offset, newborn>>
    BY <1>0 DEF Throw, At, queueVars
  <1>2. state' = [x \in Actor |-> IF x \in {a} THEN "TERMINATED" ELSE state[x]]
    BY <1>0, <1>1, NobodyBelow DEF Crash, Terminated
  <1>3. GoesTo(t, "crash")
    BY <1>0, <1>1 DEF GoesTo, Crash, Typed, TypeOK, ThreadTypes
  <1>4. boss' = [boss EXCEPT ![t] = supervisor[a]] /\ boss'[t] = supervisor[a]
    BY <1>1 DEF Crash, Typed, TypeOK, ThreadTypes
  <1>5. Fits(state'[a], "crash") /\ state'[a] # "IDLE" /\ "crash" \in PC
    BY <1>2 DEF Fits, PC
  <1>6. \A x \in Actor \ {a} : state'[x] = state[x] /\ mailbox'[x] = mailbox[x]
    BY <1>1, <1>2
  <1>7. pc[t] # "swap" /\ current[t] = a /\ context' = context
    BY <1>0, <1>1
  <1> QED
    BY <1>3, <1>4, <1>5, <1>6, <1>7, GoingOrderly

LEMMA CtorReturnOrderly ==
    ASSUME Typed, Typed', AllOrderly, NEW t \in Thread, CtorReturn(t)
    PROVE  AllOrderly'
  <1>0. PICK a \in Actor : a = current[t]
    BY DEF CtorReturn, At, Typed, HasCurrent, Running
  <1>1. PICK label \in {"workers", "start"} : Goto(t, label)
    BY DEF CtorReturn
  <1>2. GoesTo(t, label) /\ pc[t] = "ctor"
        /\ UNCHANGED <<state, mailbox, context, boss>>
    BY <1>1 DEF CtorReturn, At, GoesTo, queueVars, objectVars
  <1>3. Fits(state[a], "ctor")
    BY <1>0, <1>2, RunsAlone DEF AllOrderly
  <1>4. Fits(state'[a], label) /\ state'[a] # "IDLE" /\ label \in PC /\ label # "crash"
    BY <1>2, <1>3 DEF Fits, Starting, PC
  <1> QED
    BY <1>0, <1>2, <1>4, GoingOrderly

LEMMA WorkersRestartedOrderly ==
    ASSUME Typed, Typed', AllOrderly, NEW t \in Thread, WorkersRestarted(t)
    PROVE  AllOrderly'
  <1>0. PICK a \in Actor : a = current[t]
    BY DEF WorkersRestarted, At, Typed, HasCurrent, Running
  <1>1. GoesTo(t, "start") /\ pc[t] = "workers"
        /\ UNCHANGED <<state, mailbox, context, boss>>
    BY DEF WorkersRestarted, At, GoesTo, queueVars, objectVars
  <1>2. Fits(state[a], "workers")
    BY <1>0, <1>1, RunsAlone DEF AllOrderly
  <1>3. Fits(state'[a], "start") /\ state'[a] # "IDLE" /\ "start" \in PC
    BY <1>1, <1>2 DEF Fits, Starting, PC
  <1> QED
    BY <1>0, <1>1, <1>3, GoingOrderly

LEMMA StartReceiveOrderly ==
    ASSUME Typed, Typed', AllOrderly, NEW t \in Thread, StartReceive(t)
    PROVE  AllOrderly'
  <1>0. PICK a \in Actor : a = current[t]
    BY DEF StartReceive, At, Typed, HasCurrent, Running
  <1>1. GoesTo(t, "receive") /\ pc[t] = "start"
        /\ state' = [state EXCEPT ![a] = "ACTIVE"]
        /\ UNCHANGED <<mailbox, context, boss>>
    BY <1>0 DEF StartReceive, At, GoesTo, queueVars
  <1>2. state'[a] = "ACTIVE" /\ \A x \in Actor \ {a} : state'[x] = state[x]
    BY <1>1 DEF Typed, TypeOK, ObjectTypes
  <1>3. Fits(state'[a], "receive") /\ state'[a] # "IDLE" /\ "receive" \in PC
    BY <1>2 DEF Fits, PC
  <1> QED
    BY <1>0, <1>1, <1>2, <1>3, GoingOrderly

LEMMA ResumeOrderly ==
    ASSUME Typed, Typed', AllOrderly, NEW t \in Thread, Resume(t)
    PROVE  AllOrderly'
  <1>0. PICK a \in Actor : a = current[t]
    BY DEF Resume, At, Typed, HasCurrent, Running
  <1>1. GoesTo(t, "receive") /\ pc[t] = "resume"
        /\ state' = [state EXCEPT ![a] = "ACTIVE"]
        /\ UNCHANGED <<context, boss>>
    BY <1>0 DEF Resume, At, GoesTo
  <1>2. state'[a] = "ACTIVE" /\ \A x \in Actor \ {a} : state'[x] = state[x]
    BY <1>1 DEF Typed, TypeOK, ObjectTypes
  <1>m. \A x \in Actor \ {a} : mailbox'[x] = mailbox[x]
    <2>1. mailbox' = mailbox \/ mailbox' = [mailbox EXCEPT ![a] = Tail(@)]
      BY <1>0 DEF Resume
    <2> QED
      BY <2>1 DEF Typed, TypeOK, QueueTypes
  <1>3. Fits(state'[a], "receive") /\ state'[a] # "IDLE" /\ "receive" \in PC
    BY <1>2 DEF Fits, PC
  <1> QED
    BY <1>0, <1>1, <1>2, <1>m, <1>3, GoingOrderly

(* Return and CrashRemove: out of the table, and off the thread.           *)
LEMMA RemovalOrderly ==
    ASSUME Typed, Typed', AllOrderly, NEW t \in Thread, Return(t) \/ CrashRemove(t),
           workers[current[t]] = {}
    PROVE  AllOrderly'
  <1>0. PICK a \in Actor : a = current[t]
    BY DEF Return, CrashRemove, At, Typed, HasCurrent, Running
  <1>1. /\ pc[t] \in {"receive", "crash"} /\ current[t] = a
        /\ Remove(a) /\ MarkForRemoval(Gone(a))
        /\ Rest(t, "loop")
        /\ UNCHANGED <<context, mailbox, tasks, thread_offset, boss, newborn>>
    BY <1>0 DEF Return, CrashRemove, At
  <1>2. QueueTypes /\ QueueTypes' /\ ThreadTypes /\ ObjectTypes
    BY DEF Typed, TypeOK
  <1>3. Orderly(a) /\ Ready(a)
    BY <1>1, RunsAlone DEF AllOrderly
  <1>4. Gone(a) = {a}
    BY <1>0, <1>3, NobodyBelow DEF Gone, Ready
  <1>5. /\ state' = [x \in Actor |-> IF x \in {a} THEN "SHUTTING_DOWN" ELSE state[x]]
        /\ by_ref' = by_ref \ {a} /\ created' = created
        /\ \A x \in Actor \ {a} : supervisor'[x] = supervisor[x]
        /\ Unscheduled' = Unscheduled
    BY <1>1, <1>4 DEF MarkForRemoval, Remove, Unscheduled
  <1>6. Local(t) /\ current'[t] = NoActor
    BY <1>1, <1>2, LocalSteps DEF Rest, PC, ThreadTypes
  <1>7. Orderly(a)'
    <2>1. a \in created' /\ a \notin Unscheduled' /\ state'[a] # "IDLE" /\ current'[t] # a
      BY <1>3, <1>5, <1>6, ActorAssumption DEF Ready, Typed, TypeOK, RegistryTypeOK
    <2> QED
      BY <1>1, <1>3, <1>6, <2>1, RunnerLeaves
  <1>8. ASSUME NEW x \in Actor, x # a PROVE Stays(x)
    <2>1. SameRunner(x) /\ SamePlaces(x)
      BY <1>1, <1>6, <1>8, ActorAssumption, OthersRun, UnmovedPlaces
    <2>2. SameRecord(x)
      BY <1>1, <1>5, <1>8 DEF SameRecord
    <2> QED
      BY <2>1, <2>2 DEF Stays
  <1> QED
    BY <1>2, <1>7, <1>8, StaysOrderly DEF AllOrderly

LEMMA CrashRestartOrderly ==
    ASSUME Typed, Typed', AllOrderly, NEW t \in Thread, CrashRestart(t)
    PROVE  AllOrderly'
  <1>0. PICK a \in Actor : a = current[t]
    BY DEF CrashRestart, At, Typed, HasCurrent, Running
  <1>1. /\ pc[t] = "crash" /\ current[t] = a
        /\ OneForOne(a)
        /\ Rest(t, "loop")
        /\ boss' = [boss EXCEPT ![t] = NoActor]
        /\ UNCHANGED <<registryVars, mailbox, thread_offset, newborn>>
    BY <1>0 DEF CrashRestart, At
  <1>2. QueueTypes /\ QueueTypes' /\ ThreadTypes /\ ObjectTypes
    BY DEF Typed, TypeOK
  <1>3. Orderly(a) /\ Ready(a) /\ t = thread_offset[a] /\ Untasked(a)
        /\ \A u \in Thread : current[u] = a => u = t
    BY <1>1, RunsAlone DEF AllOrderly
  <1>4. PICK s \in {<<NewTask(a)>>, <<FreeTask(a), NewTask(a)>>} : Enqueue(t, s)
    BY <1>1, <1>3 DEF OneForOne, RestartThread, RestartTasks
  <1>5. s \in Seq(Task)
    BY TasksAreTasks
  <1>6. Moves(t, 0, s) /\ \A u \in Thread \ {t} : tasks'[u] = tasks[u]
    BY <1>2, <1>4, <1>5, EnqueueMoves
  <1>7. /\ state'[a] = "RESTARTING"
        /\ \A x \in Actor \ {a} : state'[x] = state[x] /\ context'[x] = context[x]
        /\ Unscheduled' = Unscheduled
    BY <1>1, <1>2 DEF OneForOne, ObjectTypes, Unscheduled
  <1>8. Local(t) /\ current'[t] = NoActor
    BY <1>1, <1>2, LocalSteps DEF Rest, PC, ThreadTypes
  <1>9. Orderly(a)'
    <2>1. \A u \in Thread \ {t} : Moves(u, 0, <<>>)
      BY <1>2, <1>6 DEF Moves, LeftIn, QueueTypes
    <2>2. TasksAre(a, t, s)'
      BY <1>2, <1>3, <1>6, <2>1, FirstTasks
    <2>3. \A u \in Thread : current'[u] # a
      BY <1>3, <1>8, ActorAssumption DEF Local
    <2>4. Ready(a)' /\ t = thread_offset'[a] /\ a \in created' /\ a \notin Unscheduled'
      BY <1>1, <1>3, <1>7 DEF Ready, registryVars, Typed, TypeOK, RegistryTypeOK
    <2>5. QueuedRightly(a)'
      BY <1>2, <1>7, <2>2, <2>3, <2>4, StartQueued DEF Starting
    <2> QED
      BY <1>7, <2>3, <2>4, <2>5 DEF Orderly, RunsRightly, IdlesRightly, BeginsRightly
  <1>10. ASSUME NEW x \in Actor, x # a PROVE Stays(x)
    <2>1. SameRunner(x)
      BY <1>1, <1>8, <1>10, ActorAssumption, OthersRun
    <2>2. Foreign(x, t, 0, s)
      <3>1. NewTask(a) \in TasksOf(a) /\ FreeTask(a) \in TasksOf(a)
        BY DEF TasksOf
      <3>2. NewTask(a) \notin TasksOf(x) /\ FreeTask(a) \notin TasksOf(x)
        BY <1>10, <3>1, OthersTasks
      <3> QED
        BY <3>2 DEF Foreign
    <2>3. SamePlaces(x)
      BY <1>2, <1>6, <2>2, OnlyQueueMoves
    <2>4. SameRecord(x)
      BY <1>1, <1>7, <1>10 DEF SameRecord, registryVars, treeVars
    <2> QED
      BY <2>1, <2>3, <2>4 DEF Stays
  <1> QED
    BY <1>2, <1>9, <1>10, StaysOrderly DEF AllOrderly

-----------------------------------------------------------------------------
(* The tasks a thread pops.                                                *)
LEMMA PoppedPlaces ==
    ASSUME QueueTypes, QueueTypes', NEW t \in Thread, tasks[t] # <<>>, Dequeue(t)
    PROVE  /\ 1 \in Place(t, Head(tasks[t]))
           /\ \A x : \A i \in Int : i \in Place(t, x)' <=> i > 0 /\ i + 1 \in Place(t, x)
           /\ \A u \in Thread \ {t} : \A x : Place(u, x)' = Place(u, x)
           /\ \A u \in Thread : \A x : Place(u, x) \subseteq Int /\ Place(u, x)' \subseteq Int
  <1>1. Moves(t, 1, <<>>) /\ \A u \in Thread \ {t} : tasks'[u] = tasks[u]
    BY DequeueMoves
  <1>2. \A x : \A i \in Int : i \in Place(t, x)' <=> i > 0 /\ i + 1 \in Place(t, x)
    BY <1>1, MovedPlaces
  <1>3. 1 \in Place(t, Head(tasks[t]))
    BY DEF Place, QueueTypes
  <1>4. \A u \in Thread \ {t} : \A x : Place(u, x)' = Place(u, x)
    BY <1>1 DEF Place
  <1>5. \A u \in Thread : \A x : Place(u, x) \subseteq Int /\ Place(u, x)' \subseteq Int
    BY DEF Place, QueueTypes
  <1> QED
    BY <1>2, <1>3, <1>4, <1>5

LEMMA OthersPopped ==
    ASSUME QueueTypes, QueueTypes', NEW t \in Thread, tasks[t] # <<>>, Dequeue(t), NEW a,
           Head(tasks[t]) \notin TasksOf(a)
    PROVE  SamePlaces(a)
  <1>1. Moves(t, 1, <<>>) /\ \A u \in Thread \ {t} : tasks'[u] = tasks[u]
    BY DequeueMoves
  <1>2. Foreign(a, t, 1, <<>>)
    BY DEF Foreign
  <1> QED
    BY <1>1, <1>2, OnlyQueueMoves

(* t takes up an actor from its queue.                                     *)
LEMMA TakenUp ==
    ASSUME Typed, Typed', AllOrderly, NEW t \in Thread, pc[t] = "pop", tasks[t] # <<>>, Dequeue(t),
           NEW a \in Actor, Head(tasks[t]) \in TasksOf(a), Untasked(a)',
           Ready(a), t = thread_offset[a],
           UNCHANGED <<registryVars, state, mailbox, thread_offset, newborn, boss>>,
           current' = [current EXCEPT ![t] = a], NEW label \in PC, Goto(t, label),
           NEW c, context' = [context EXCEPT ![a] = c], label # "crash",
           Fits(state[a], label), label = "resume" => mailbox[a] # <<>>
    PROVE  AllOrderly'
  <1>1. QueueTypes /\ QueueTypes' /\ ThreadTypes /\ ObjectTypes
    BY DEF Typed, TypeOK
  <1>2. /\ Local(t) /\ current'[t] = a /\ pc'[t] = label
        /\ \A x \in Actor : current[t] # x
    BY <1>1, LocalSteps, IdleThread DEF Goto, ThreadTypes
  <1>3. \A x \in Actor \ {a} : context'[x] = context[x]
    BY <1>1 DEF ObjectTypes
  <1>4. Unscheduled' = Unscheduled
    BY DEF Unscheduled
  <1>5. Orderly(a)
    BY DEF AllOrderly
  <1>6. Orderly(a)'
    <2>1. QueuedRightly(a)'
      BY NothingQueued
    <2>2. Ready(a)' /\ a \in created' /\ a \notin Unscheduled'
      BY <1>4 DEF Ready, registryVars, Typed, TypeOK, RegistryTypeOK
    <2>3. \A u \in Thread : current'[u] = a => u = t
      BY <1>2, <1>5 DEF Local, Orderly, RunsRightly
    <2>4. RunsRightly(a)'
      BY <1>2, <2>2, <2>3 DEF RunsRightly
    <2>5. IdlesRightly(a)' /\ BeginsRightly(a)'
      BY <1>2, <2>2 DEF IdlesRightly, BeginsRightly
    <2> QED
      BY <2>1, <2>4, <2>5 DEF Orderly
  <1>7. ASSUME NEW x \in Actor, x # a PROVE Stays(x)
    <2>1. SameRunner(x)
      BY <1>2, <1>7, OthersRun
    <2>2. Head(tasks[t]) \notin TasksOf(x)
      BY <1>7, OthersTasks
    <2>3. SamePlaces(x)
      BY <1>1, <2>2, OthersPopped
    <2>4. SameRecord(x)
      BY <1>3, <1>4, <1>7 DEF SameRecord, registryVars, treeVars
    <2> QED
      BY <2>1, <2>3, <2>4 DEF Stays
  <1> QED
    BY <1>1, <1>6, <1>7, StaysOrderly DEF AllOrderly

LEMMA HandleResumeOrderly ==
    ASSUME Typed, Typed', AllOrderly, NEW t \in Thread, HandleResume(t)
    PROVE  AllOrderly' /\ fault' = "none"
  <1>1. PICK a : a = Head(tasks[t]).actor
    OBVIOUS
  <1>2. /\ pc[t] = "pop" /\ tasks[t] # <<>> /\ Head(tasks[t]).type = "RESUME_ACTOR"
        /\ Dequeue(t)
        /\ fault' = JumpFault(a)
        /\ JumpFault(a) = "none" =>
              /\ context' = [context EXCEPT ![a] = "stale"]
              /\ current' = [current EXCEPT ![t] = a]
              /\ Goto(t, "resume")
        /\ UNCHANGED <<registryVars, state, mailbox, thread_offset, newborn, boss>>
    BY <1>1 DEF HandleResume, Pops, At
  <1>3. QueueTypes /\ QueueTypes' /\ TypeOK
    BY DEF Typed, TypeOK
  <1>4. a \in Actor /\ Head(tasks[t]) = ResumeTask(a)
    BY <1>1, <1>2, <1>3, HeadIs
  <1>5. Orderly(a) /\ 1 \in Place(t, ResumeTask(a))
    BY <1>2, <1>3, <1>4, PoppedPlaces DEF AllOrderly
  <1>6. /\ Ready(a) /\ t = thread_offset[a] /\ state[a] = "IDLE" /\ mailbox[a] # <<>>
        /\ \A u \in Thread : current[u] = a => pc[u] = "swap"
    BY <1>5 DEF Orderly, QueuedRightly, WakesRightly
  <1>7. \A u \in Thread : current[u] # a
    BY <1>2, <1>5, <1>6 DEF Orderly, RunsRightly
  <1>8. context[a] = "saved"
    BY <1>5, <1>6, <1>7 DEF Orderly, IdlesRightly
  <1>9. JumpFault(a) = "none"
    BY <1>6, <1>8 DEF JumpFault, Ready
  <1>10. Untasked(a)'
    <2>1. \A u \in Thread : Place(u, NewTask(a)) = {}
      BY <1>5, <1>6 DEF Orderly, QueuedRightly, StartsRightly, Starting
    <2>2. \A u \in Thread : Place(u, FreeTask(a)) = {}
      BY <1>5, <2>1 DEF Orderly, QueuedRightly, FreesRightly
    <2>3. \A u \in Thread \ {t} : Place(u, ResumeTask(a)) = {}
      BY <1>5, <1>6 DEF Orderly, QueuedRightly, WakesRightly
    <2>4. \A i \in Place(t, ResumeTask(a)) : i = 1
      BY <1>5 DEF Orderly, QueuedRightly, QueuedOnce
    <2>5. /\ \A x : \A i \in Int : i \in Place(t, x)' <=> i > 0 /\ i + 1 \in Place(t, x)
          /\ \A u \in Thread \ {t} : \A x : Place(u, x)' = Place(u, x)
          /\ \A u \in Thread : \A x : Place(u, x)' \subseteq Int
      BY <1>2, <1>3, PoppedPlaces
    <2>6. Place(t, ResumeTask(a))' = {}
      BY <2>4, <2>5
    <2>7. \A u \in Thread : /\ Place(u, NewTask(a))' = {} /\ Place(u, FreeTask(a))' = {}
                            /\ Place(u, ResumeTask(a))' = {}
      BY <2>1, <2>2, <2>3, <2>5, <2>6
    <2> QED
      BY <2>7 DEF Untasked, TasksOf
  <1>11. /\ Head(tasks[t]) \in TasksOf(a) /\ "resume" \in PC /\ Fits(state[a], "resume")
         /\ current' = [current EXCEPT ![t] = a] /\ Goto(t, "resume")
         /\ context' = [context EXCEPT ![a] = "stale"]
    BY <1>2, <1>4, <1>6, <1>9 DEF TasksOf, PC, Fits
  <1>12. AllOrderly'
    BY <1>2, <1>4, <1>6, <1>10, <1>11, TakenUp
  <1> QED
    BY <1>2, <1>9, <1>12

LEMMA HandleNewOrderly ==
    ASSUME Typed, Typed', AllOrderly, NEW t \in Thread, HandleNew(t)
    PROVE  AllOrderly'
  <1>1. PICK a : a = Head(tasks[t]).actor
    OBVIOUS
  <1>2. /\ pc[t] = "pop" /\ tasks[t] # <<>> /\ Head(tasks[t]).type = "NEW_ACTOR"
        /\ Dequeue(t)
        /\ a \in by_ref =>
              /\ context' = [context EXCEPT ![a] = "blank"]
              /\ current' = [current EXCEPT ![t] = a]
              /\ Goto(t, "ctor")
        /\ UNCHANGED <<registryVars, state, mailbox, thread_offset, newborn, boss>>
    BY <1>1 DEF HandleNew, Pops, At, WithNewInternal
  <1>3. QueueTypes /\ QueueTypes' /\ TypeOK
    BY DEF Typed, TypeOK
  <1>4. a \in Actor /\ Head(tasks[t]) = NewTask(a)
    BY <1>1, <1>2, <1>3, HeadIs
  <1>5. Orderly(a) /\ 1 \in Place(t, NewTask(a))
    BY <1>2, <1>3, <1>4, PoppedPlaces DEF AllOrderly
  <1>6. /\ Ready(a) /\ t = thread_offset[a] /\ state[a] \in Starting
        /\ \A u \in Thread : current[u] # a
    BY <1>5 DEF Orderly, QueuedRightly, StartsRightly
  <1>7. Untasked(a)'
    <2>1. \A u \in Thread : Place(u, ResumeTask(a)) = {}
      BY <1>5, <1>6 DEF Orderly, QueuedRightly, WakesRightly, Starting
    <2>2. \A u \in Thread \ {t} : Place(u, NewTask(a)) = {}
      BY <1>5, <1>6 DEF Orderly, QueuedRightly, StartsRightly
    <2>3. \A u \in Thread \ {t} : Place(u, FreeTask(a)) = {}
      BY <1>5, <2>2 DEF Orderly, QueuedRightly, FreesRightly
    <2>4. \A i \in Place(t, NewTask(a)) : i = 1
      BY <1>5 DEF Orderly, QueuedRightly, QueuedOnce
    <2>5. \A i \in Place(t, FreeTask(a)) : i < 1
      BY <1>5, <2>4 DEF Orderly, QueuedRightly, FreesRightly
    <2>6. /\ \A x : \A i \in Int : i \in Place(t, x)' <=> i > 0 /\ i + 1 \in Place(t, x)
          /\ \A u \in Thread \ {t} : \A x : Place(u, x)' = Place(u, x)
          /\ \A u \in Thread : \A x : Place(u, x)' \subseteq Int
      BY <1>2, <1>3, PoppedPlaces
    <2>7. Place(t, NewTask(a))' = {} /\ Place(t, ResumeTask(a))' = {}
      BY <2>1, <2>4, <2>6
    <2>8. Place(t, FreeTask(a))' = {}
      <3> SUFFICES ASSUME NEW i \in Place(t, FreeTask(a))' PROVE FALSE
        OBVIOUS
      <3>1. i \in Int
        BY <2>6
      <3>2. i > 0 /\ i + 1 \in Place(t, FreeTask(a))
        BY <2>6, <3>1
      <3>3. i + 1 < 1
        BY <2>5, <3>2
      <3> QED
        BY <3>1, <3>2, <3>3
    <2>9. \A u \in Thread : /\ Place(u, NewTask(a))' = {} /\ Place(u, FreeTask(a))' = {}
                            /\ Place(u, ResumeTask(a))' = {}
      BY <2>1, <2>2, <2>3, <2>6, <2>7, <2>8
    <2> QED
      BY <2>9 DEF Untasked, TasksOf
  <1>8. /\ Head(tasks[t]) \in TasksOf(a) /\ "ctor" \in PC /\ Fits(state[a], "ctor")
        /\ current' = [current EXCEPT ![t] = a] /\ Goto(t, "ctor")
        /\ context' = [context EXCEPT ![a] = "blank"]
    BY <1>2, <1>4, <1>6 DEF TasksOf, PC, Fits, Ready
  <1> QED
    BY <1>2, <1>4, <1>6, <1>7, <1>8, TakenUp

LEMMA HandleFreeOrderly ==
    ASSUME Typed, Typed', OwnedOnce, AllOrderly, NEW t \in Thread, HandleFree(t)
    PROVE  AllOrderly' /\ fault' = "none"
  <1>1. PICK a : a = Head(tasks[t]).actor
    OBVIOUS
  <1>2. /\ pc[t] = "pop" /\ tasks[t] # <<>> /\ Head(tasks[t]).type = "FREE_VM_STACK"
        /\ Dequeue(t) /\ Goto(t, "loop")
        /\ fault' = IF heap[a] = "freed" THEN "useAfterFree" ELSE "none"
        /\ QuietRecords /\ UNCHANGED <<current, boss>>
    BY <1>1 DEF HandleFree, Pops, At, QuietRecords, objectVars
  <1>3. QueueTypes /\ QueueTypes' /\ ThreadTypes /\ TypeOK
    BY DEF Typed, TypeOK
  <1>4. a \in Actor /\ Head(tasks[t]) = FreeTask(a)
    <2>1. Head(tasks[t]) \in Task
      BY <1>2, <1>3, DequeueTypes
    <2> QED
      BY <1>1, <1>2, <2>1 DEF Task, FreeTask
  <1>5. Orderly(a) /\ 1 \in Place(t, FreeTask(a))
    BY <1>2, <1>3, <1>4, PoppedPlaces DEF AllOrderly
  <1>6. Ready(a)
    BY <1>5 DEF Orderly, QueuedRightly, FreesRightly, StartsRightly
  <1>7. heap[a] = "live"
    BY <1>4, <1>6 DEF Ready, OwnedOnce
  <1>8. /\ \A x : \A i \in Int : i \in Place(t, x)' <=> i > 0 /\ i + 1 \in Place(t, x)
        /\ \A u \in Thread \ {t} : \A x : Place(u, x)' = Place(u, x)
        /\ \A u \in Thread : \A x : Place(u, x) \subseteq Int /\ Place(u, x)' \subseteq Int
    BY <1>2, <1>3, PoppedPlaces
  <1>9. Local(t) /\ \A x \in Actor : current[t] # x
    BY <1>2, <1>3, LocalSteps, IdleThread DEF PC
  <1>10. \A x \in Actor : SameRunner(x) /\ SameRecord(x)
    BY <1>2, <1>9, OthersRun, QuietRecord
  <1>11. Orderly(a)'
    <2>1. \A u \in Thread : \A x : Place(u, x)' # {} => Place(u, x) # {}
      BY <1>8
    <2>2. SameRecord(a) /\ SameRunner(a) /\ (Ready(a)' <=> Ready(a))
      BY <1>4, <1>10 DEF SameRecord, Ready
    <2>3. StartsRightly(a)'
      BY <1>5, <2>1, <2>2 DEF Orderly, QueuedRightly, StartsRightly, SameRecord, SameRunner
    <2>4. WakesRightly(a)'
      BY <1>5, <2>1, <2>2 DEF Orderly, QueuedRightly, WakesRightly, SameRecord, SameRunner
    <2>5. QueuedOnce(a)'
      <3> SUFFICES ASSUME NEW u \in Thread, NEW x \in {NewTask(a), ResumeTask(a)},
                          NEW i \in Place(u, x)', NEW j \in Place(u, x)'
                   PROVE  i = j
        BY DEF QueuedOnce
      <3>1. i \in Int /\ j \in Int
        BY <1>8
      <3>2. \A k, l \in Place(u, x) : k = l
        BY <1>5 DEF Orderly, QueuedRightly, QueuedOnce
      <3>3. CASE u = t
        <4>1. i + 1 \in Place(t, x) /\ j + 1 \in Place(t, x)
          BY <1>8, <3>1, <3>3
        <4>2. i + 1 = j + 1
          BY <3>2, <3>3, <4>1
        <4> QED
          BY <3>1, <4>2
      <3>4. CASE u # t
        BY <1>8, <3>2, <3>4
      <3> QED
        BY <3>3, <3>4
    <2>6. FreesRightly(a)'
      <3> SUFFICES ASSUME NEW u \in Thread, NEW i \in Place(u, FreeTask(a))'
                   PROVE  \E j \in Place(u, NewTask(a))' : i < j
        BY DEF FreesRightly
      <3>1. i \in Int
        BY <1>8
      <3>2. \A k \in Place(u, FreeTask(a)) : \E j \in Place(u, NewTask(a)) : k < j
        BY <1>5 DEF Orderly, QueuedRightly, FreesRightly
      <3>3. CASE u = t
        <4>1. i > 0 /\ i + 1 \in Place(t, FreeTask(a))
          BY <1>8, <3>1, <3>3
        <4>2. PICK j \in Place(t, NewTask(a)) : i + 1 < j
          BY <3>2, <3>3, <4>1
        <4>3. j \in Int /\ j - 1 \in Int /\ (j - 1) + 1 = j
          BY <1>8
        <4>4. j - 1 > 0 /\ i < j - 1
          BY <3>1, <4>1, <4>2, <4>3
        <4>5. j - 1 \in Place(t, NewTask(a))'
          BY <1>8, <4>3, <4>4
        <4> QED
          BY <3>3, <4>4, <4>5
      <3>4. CASE u # t
        BY <1>8, <3>2, <3>4
      <3> QED
        BY <3>3, <3>4
    <2>7. RunsRightly(a)' /\ IdlesRightly(a)' /\ BeginsRightly(a)'
      BY <1>5, <2>2 DEF Orderly, RunsRightly, IdlesRightly, BeginsRightly, SameRecord,
         SameRunner
    <2> QED
      BY <2>3, <2>4, <2>5, <2>6, <2>7 DEF Orderly, QueuedRightly
  <1>12. ASSUME NEW x \in Actor, x # a PROVE Stays(x)
    <2>1. FreeTask(a) \in TasksOf(a)
      BY DEF TasksOf
    <2>2. SamePlaces(x)
      BY <1>2, <1>3, <1>4, <1>12, <2>1, OthersTasks, OthersPopped
    <2> QED
      BY <1>10, <2>2 DEF Stays
  <1> QED
    BY <1>2, <1>3, <1>7, <1>11, <1>12, StaysOrderly DEF AllOrderly

-----------------------------------------------------------------------------
(* A message arrives: the recipient is woken if it waits and had no mail.  *)
LEMMA HandleSendOrderly ==
    ASSUME Typed, Typed', AllOrderly, NEW t \in Thread, HandleSend(t)
    PROVE  AllOrderly'
  <1>1. PICK task, a : task = Head(tasks[t]) /\ a = Lookup(task.to)
    OBVIOUS
  <1>2. QueueTypes /\ QueueTypes' /\ ThreadTypes /\ TypeOK
    BY DEF Typed, TypeOK
  <1>3. /\ pc[t] = "pop" /\ tasks[t] # <<>> /\ task.type = "SEND_MESSAGE"
        /\ IF a = NoActor
           THEN Dequeue(t) /\ UNCHANGED mailbox
           ELSE /\ mailbox' = [mailbox EXCEPT ![a] = Append(@, task.message)]
                /\ tasks' = [u \in Thread |->
                               (IF u = t THEN Tail(tasks[u]) ELSE tasks[u])
                               \o (IF u = thread_offset[a] THEN WakeTasks(a) ELSE <<>>)]
        /\ Goto(t, "loop")
        /\ UNCHANGED <<registryVars, state, context, thread_offset, newborn, current, boss>>
    BY <1>1 DEF HandleSend, Pops, At, Pushed, objectVars
  <1>4. task \in Task /\ task.to \in Actor \cup Name /\ a \in Actor \cup {NoActor}
    <2>1. task \in Task
      BY <1>1, <1>2, <1>3, DequeueTypes
    <2>2. task.to \in Actor \cup Name
      BY <1>3, <2>1, TaskFields
    <2> QED
      BY <1>1, <2>1, <2>2 DEF Lookup, Typed, TypeOK, RegistryTypeOK
  <1>5. \A x : Head(tasks[t]) \notin TasksOf(x)
    BY <1>1, <1>3 DEF TasksOf, ResumeTask, NewTask, FreeTask
  <1>6. Local(t) /\ \A x \in Actor : current[t] # x
    BY <1>2, <1>3, LocalSteps, IdleThread DEF PC
  <1>7. \A x \in Actor : SameRunner(x)
    BY <1>3, <1>6, OthersRun
  <1>8. ASSUME NEW x \in Actor, mailbox[x] # <<>> => mailbox'[x] # <<>> PROVE SameRecord(x)
    BY <1>3, <1>8 DEF SameRecord, registryVars, treeVars, Unscheduled
  <1>9. CASE a = NoActor
    <2> SUFFICES ASSUME NEW x \in Actor PROVE Stays(x)
      BY <1>2, StaysOrderly DEF AllOrderly
    <2>1. SameRecord(x)
      BY <1>3, <1>8, <1>9
    <2>2. SamePlaces(x)
      BY <1>2, <1>3, <1>5, <1>9, OthersPopped
    <2> QED
      BY <1>7, <2>1, <2>2 DEF Stays
  <1>10. CASE a \in Actor
    <2>0. a # NoActor
      BY <1>10, ActorAssumption
    <2>1. PICK s, h : s = WakeTasks(a) /\ h = thread_offset[a]
      OBVIOUS
    <2>2. /\ h \in Thread
          /\ s = IF state[a] = "IDLE" /\ mailbox[a] = <<>> THEN <<ResumeTask(a)>> ELSE <<>>
          /\ s \in Seq(Task)
      BY <1>2, <1>10, <2>1, TasksAreTasks DEF WakeTasks, QueueTypes, Thread
    <2>3. ASSUME NEW u \in Thread
          PROVE  Moves(u, IF u = t THEN 1 ELSE 0, IF u = h THEN s ELSE <<>>)
      <3>1. tasks'[u] = (IF u = t THEN Tail(tasks[u]) ELSE tasks[u])
                        \o (IF u = h THEN s ELSE <<>>)
        BY <1>3, <2>0, <2>1
      <3>0. (IF u = h THEN s ELSE <<>>) \in Seq(Task)
        BY <2>2
      <3>2. PICK w \in Seq(Task) : w = IF u = h THEN s ELSE <<>>
        BY <3>0
      <3>3. PICK d \in {0, 1} : d = IF u = t THEN 1 ELSE 0
        OBVIOUS
      <3>4. LeftIn(u, d) = IF u = t THEN Tail(tasks[u]) ELSE tasks[u]
        BY <3>3 DEF LeftIn
      <3>5. tasks'[u] = LeftIn(u, d) \o w
        BY <3>1, <3>2, <3>4
      <3>6. d = 1 => tasks[u] # <<>>
        BY <1>3, <3>3
      <3>7. Moves(u, d, w)
        BY <3>5, <3>6 DEF Moves
      <3> QED
        BY <3>2, <3>3, <3>7
    <2>4. mailbox'[a] # <<>> /\ \A x \in Actor \ {a} : mailbox'[x] = mailbox[x]
      <3>1. mailbox[a] \in Seq(Message) /\ mailbox'[a] = Append(mailbox[a], task.message)
            /\ \A x \in Actor \ {a} : mailbox'[x] = mailbox[x]
        BY <1>2, <1>3, <1>10, <2>0 DEF QueueTypes
      <3>2. mailbox'[a] # <<>>
        BY <3>1
      <3> QED
        BY <3>1, <3>2
    <2>5. \A x \in Actor : SameRecord(x)
      BY <1>8, <2>4
    <2>6. ASSUME NEW x \in Actor, x # a \/ s = <<>> PROVE Stays(x)
      <3>1. ResumeTask(a) \in TasksOf(a)
        BY DEF TasksOf
      <3>2. \A k \in DOMAIN s : s[k] \notin TasksOf(x)
        BY <2>2, <2>6, <3>1, OthersTasks
      <3> SUFFICES ASSUME NEW u \in Thread
                   PROVE  \E e \in Nat : \A y \in TasksOf(x) : \A i \in Int :
                            i \in Place(u, y)' <=> i + e \in Place(u, y)
        BY <1>7, <2>5 DEF Stays, SamePlaces
      <3>3. Foreign(x, u, IF u = t THEN 1 ELSE 0, IF u = h THEN s ELSE <<>>)
        BY <1>5, <3>2 DEF Foreign
      <3> QED
        BY <1>2, <2>3, <3>3, ForeignMoves
    <2>7. ASSUME s # <<>> PROVE Orderly(a)'
      <3>1. state[a] = "IDLE" /\ mailbox[a] = <<>> /\ s = <<ResumeTask(a)>>
        BY <2>2, <2>7
      <3>2. Orderly(a) /\ Ready(a)
        BY <1>10, <3>1 DEF AllOrderly, Orderly, IdlesRightly
      <3>3. Untasked(a)
        <4>1. \A u \in Thread : Place(u, NewTask(a)) = {} /\ Place(u, ResumeTask(a)) = {}
          BY <3>1, <3>2 DEF Orderly, QueuedRightly, StartsRightly, WakesRightly, Starting
        <4>2. \A u \in Thread : Place(u, FreeTask(a)) = {}
          BY <3>2, <4>1 DEF Orderly, QueuedRightly, FreesRightly
        <4> QED
          BY <4>1, <4>2 DEF Untasked, TasksOf
      <3>4. TasksAre(a, h, <<ResumeTask(a)>>)'
        <4>1. Moves(h, IF h = t THEN 1 ELSE 0, <<ResumeTask(a)>>)
          BY <2>2, <2>3, <3>1
        <4>2. \A u \in Thread \ {h} : \E e : Moves(u, e, <<>>)
          BY <2>3
        <4> QED
          BY <1>2, <2>2, <3>3, <4>1, <4>2, FirstTasks
      <3>5. \A u \in Thread : current[u] = a => pc[u] = "swap"
        BY <3>1, <3>2 DEF Orderly, RunsRightly, Fits, Starting
      <3>6. /\ Ready(a)' /\ h = thread_offset'[a] /\ state'[a] = "IDLE"
            /\ \A u \in Thread : current'[u] = a => pc'[u] = "swap"
        BY <1>7, <1>10, <2>1, <2>5, <3>1, <3>2, <3>5 DEF Ready, SameRecord, SameRunner
      <3>7. QueuedRightly(a)'
        BY <1>2, <2>2, <2>4, <3>4, <3>6, WakeQueued
      <3>8. RunsRightly(a)' /\ IdlesRightly(a)' /\ BeginsRightly(a)'
        BY <1>7, <1>10, <2>5, <3>2 DEF Orderly, RunsRightly, IdlesRightly, BeginsRightly,
           Ready, SameRecord, SameRunner
      <3> QED
        BY <3>7, <3>8 DEF Orderly
    <2> QED
      BY <1>2, <2>6, <2>7, StaysOrderly DEF AllOrderly
  <1> QED
    BY <1>4, <1>9, <1>10

-----------------------------------------------------------------------------
(* The faults of the model have nowhere to come from.                      *)
LEMMA NeverWild ==
    ASSUME Typed, AllOrderly, NEW t \in Thread
    PROVE  ~BlockInCtor(t)
  <1> SUFFICES ASSUME BlockInCtor(t) PROVE FALSE
    OBVIOUS
  <1>1. PICK a \in Actor : a = current[t]
    BY DEF BlockInCtor, At, Typed, HasCurrent, Running
  <1>2. Fits(state[a], "ctor") /\ state[a] = "ACTIVE"
    BY <1>1, RunsAlone DEF AllOrderly, BlockInCtor, At
  <1> QED
    BY <1>2 DEF Fits, Starting

(* A reference that is still to be read is that of a registered actor.     *)
Referenced == \A t \in Thread : new_actor_ref[t] \in by_ref \cup {NoActor}

LEMMA NeverTouchesFreed ==
    ASSUME Typed, OwnedOnce, AllOrderly, Referenced, NEW t \in Thread
    PROVE  Touched(t) \cap Freed = {}
  <1>1. \A a \in by_ref : a \notin Freed
    BY DEF OwnedOnce, Freed, Typed, TypeOK, RegistryTypeOK
  <1>2. newborn[t] \in Actor => newborn[t] \in by_ref
    BY ActorAssumption DEF AllOrderly, Orderly, BeginsRightly, Unscheduled
  <1>3. current[t] \in Actor => current[t] \in by_ref
    BY DEF AllOrderly, Orderly, RunsRightly, Ready
  <1>4. pc[t] = "crash" /\ boss[t] \in Actor => boss[t] \in by_ref
    <2> SUFFICES ASSUME pc[t] = "crash", boss[t] \in Actor PROVE boss[t] \in by_ref
      OBVIOUS
    <2>1. PICK a \in Actor : a = current[t]
      BY DEF Typed, HasCurrent, Running
    <2>2. boss[t] = supervisor[a]
      BY <2>1, ActorAssumption DEF AllOrderly, Orderly, RunsRightly
    <2> QED
      BY <2>1, <2>2 DEF Typed, LinksAgree
  <1>5. Touched(t) \subseteq by_ref
    <2>1. new_actor_ref[t] \in Actor => new_actor_ref[t] \in by_ref
      BY ActorAssumption DEF Referenced
    <2> QED
      BY <1>2, <1>3, <1>4, <2>1 DEF Touched
  <1> QED
    BY <1>1, <1>5

(* A thread that runs no actor goes round its loop, or ends.               *)
LEMMA LoopGoesRound ==
    ASSUME Typed, Typed', AllOrderly, NEW t \in Thread,
           \/ PerformActorRemovals(t) \/ FindNothing(t) \/ CheckShutdown(t)
           \/ (t = Main /\ ScriptEnds)
           \/ (t \in Worker /\ FinalRemovals(t))
    PROVE  AllOrderly'
  <1>1. pc[t] \in {"loop", "pop", "check", "script", "spin"}
    BY DEF PerformActorRemovals, FindNothing, CheckShutdown, ScriptEnds, FinalRemovals, At
  <1>2. /\ QuietRecords /\ UNCHANGED <<tasks, current, boss>>
        /\ \E label \in PC : Goto(t, label)
    BY DEF PerformActorRemovals, FindNothing, CheckShutdown, ScriptEnds, FinalRemovals,
       QuietRecords, objectVars, queueVars, PC
  <1>3. QueueTypes /\ QueueTypes' /\ ThreadTypes
    BY DEF Typed, TypeOK
  <1>4. Local(t)
    BY <1>2, <1>3, LocalSteps
  <1>5. \A a \in Actor : current[t] # a
    BY <1>1, IdleThread
  <1> QED
    BY <1>2, <1>3, <1>4, <1>5, IdleSteps

LEMMA NothingMovesOrderly ==
    ASSUME Typed, Typed', AllOrderly,
           UNCHANGED <<registryVars, objectVars, mailbox, tasks, thread_offset, threadVars>>
    PROVE  AllOrderly'
  <1>1. QuietRecords /\ UNCHANGED <<tasks, pc, current, boss>>
    BY DEF QuietRecords, objectVars, threadVars
  <1> SUFFICES ASSUME NEW a \in Actor PROVE Stays(a)
    BY StaysOrderly DEF AllOrderly, Typed, TypeOK
  <1> QED
    BY <1>1, QuietRecord, NobodyRuns, UnmovedPlaces DEF Stays

AllWell == NoFault /\ AllOrderly
LEMMA PhpWell ==
    ASSUME Typed, Typed', AtHome, TreeNumbers, AllWell, NEW t \in Thread, Php(t),
           Throw(t) \/ Return(t) => workers[current[t]] = {}
    PROVE  AllWell'
  <1>1. ~BlockInCtor(t)
    BY NeverWild DEF AllWell
  <1>2. fault' = fault
    BY <1>1 DEF Php, Create, Schedule, Promote, Add, Send, WriteRef, Shutdown, ReceiveBlock, Swap,
       Throw, CtorReturn, Return, restVars
  <1>3. CASE WriteRef(t) \/ Shutdown(t)
    BY <1>3, NothingMovesOrderly DEF AllWell, WriteRef, Shutdown, queueVars, NoFault
  <1>4. CASE ~WriteRef(t) /\ ~Shutdown(t)
    BY <1>1, <1>2, <1>4, CreateOrderly, ScheduleOrderly, PromoteOrderly, AddOrderly,
       SendOrderly, ReceiveBlockOrderly, SwapOrderly, ThrowOrderly, CtorReturnOrderly,
       RemovalOrderly DEF Php, AllWell, NoFault
  <1> QED
    BY <1>2, <1>3, <1>4 DEF AllWell, NoFault

LEMMA CrashHandlingWell ==
    ASSUME Typed, Typed', AllWell, NEW t \in Thread, CrashHandling(t),
           ~CrashEscalate(t), ~RestartWorker(t),
           CrashRemove(t) => workers[current[t]] = {}
    PROVE  AllWell'
  <1>1. fault' = fault
    BY DEF CrashHandling, CrashRemove, CrashRestart, WorkersRestarted, restVars
  <1> QED
    BY <1>1, RemovalOrderly, CrashRestartOrderly, WorkersRestartedOrderly
    DEF CrashHandling, AllWell, NoFault

LEMMA LoopWell ==
    ASSUME Typed, Typed', OwnedOnce, NoLostWakeup, AllWell, NEW t \in Thread, Loop(t)
    PROVE  AllWell'
  <1>1. CASE PerformActorRemovals(t) \/ FindNothing(t) \/ CheckShutdown(t)
    <2>1. fault' = fault
      BY <1>1 DEF PerformActorRemovals, FindNothing, CheckShutdown, restVars
    <2> QED
      BY <1>1, <2>1, LoopGoesRound DEF AllWell, NoFault
  <1>2. CASE HandleSend(t) \/ HandleNew(t) \/ StartReceive(t)
    <2>1. fault' = fault
      BY <1>2 DEF HandleSend, HandleNew, StartReceive, restVars
    <2> QED
      BY <1>2, <2>1, HandleSendOrderly, HandleNewOrderly, StartReceiveOrderly DEF AllWell, NoFault
  <1>3. CASE HandleResume(t) \/ HandleFree(t)
    BY <1>3, HandleResumeOrderly, HandleFreeOrderly DEF AllWell, NoFault
  <1>4. CASE Resume(t)
    <2>1. PICK a \in Actor : a = current[t]
      BY <1>4 DEF Resume, At, Typed, HasCurrent, Running
    <2>2. mailbox[a] # <<>>
      BY <1>4, <2>1 DEF Resume, At, AllWell, AllOrderly, Orderly, RunsRightly
    <2>3. fault' = fault
      BY <1>4, <2>1, <2>2 DEF Resume
    <2> QED
      BY <1>4, <2>3, ResumeOrderly DEF AllWell, NoFault
  <1> QED
    BY <1>1, <1>2, <1>3, <1>4 DEF Loop

(* What Alone says of the steps of one thread.                             *)
LEMMA NobodyBelowThrowers ==
    ASSUME Typed, Alone, NEW t \in Thread
    PROVE  /\ ~CrashEscalate(t) /\ ~RestartWorker(t)
           /\ Throw(t) \/ Return(t) \/ CrashRemove(t) => workers[current[t]] = {}
  <1>1. ~CrashEscalate(t) /\ ~RestartWorker(t)
    BY DEF Alone, RestartWorker, At
  <1>2. CASE Throw(t)
    <2>1. current[t] \in Actor \ supervision
      BY <1>2 DEF Alone, Throw, At, Typed, HasCurrent, Running
    <2>2. workers[current[t]] \subseteq Actor
      BY <2>1 DEF Typed, TypeOK, RegistryTypeOK
    <2> QED
      BY <1>1, <2>1, <2>2 DEF Typed, LinksAgree, Alone
  <1>3. CASE ~Throw(t)
    BY <1>1, <1>3 DEF Alone
  <1> QED
    BY <1>2, <1>3

LEMMA AloneStep ==
    ASSUME Typed, Typed', AtHome, TreeNumbers, OwnedOnce, NoLostWakeup, AllWell, Referenced,
           Alone, Next
    PROVE  AllWell' \/ Closing'
  <1>1. ASSUME NEW t \in Thread, ThreadStep(t) PROVE AllWell'
    <2>1. /\ ~CrashEscalate(t) /\ ~RestartWorker(t)
          /\ Throw(t) \/ Return(t) \/ CrashRemove(t) => workers[current[t]] = {}
      BY NobodyBelowThrowers
    <2>2. ~TouchFreed(t)
      BY NeverTouchesFreed DEF TouchFreed, AllWell
    <2>3. CASE Php(t)
      BY <2>1, <2>3, PhpWell
    <2>4. CASE CrashHandling(t)
      BY <2>1, <2>4, CrashHandlingWell
    <2>5. CASE Loop(t)
      BY <2>5, LoopWell
    <2> QED
      BY <1>1, <2>2, <2>3, <2>4, <2>5 DEF ThreadStep
  <1>2. ASSUME NEW t \in Worker, FinalRemovals(t) PROVE AllWell'
    <2>1. t \in Thread /\ fault' = fault
      BY <1>2 DEF Thread, FinalRemovals, restVars
    <2> QED
      BY <1>2, <2>1, LoopGoesRound DEF AllWell, NoFault
  <1>3. CASE ScriptEnds
    <2>1. Main \in Thread /\ fault' = fault
      BY <1>3 DEF Thread, ScriptEnds, restVars
    <2> QED
      BY <1>3, <2>1, LoopGoesRound DEF AllWell, NoFault
  <1>4. CASE ScriptFails
    BY <1>4, NothingMovesOrderly DEF ScriptFails, AllWell, NoFault, queueVars
  <1>5. CASE SchedulerEnds \/ Join
    BY <1>5 DEF SchedulerEnds, Join, Goto, Closing, Thread, Typed, TypeOK, ThreadTypes
  <1> QED
    BY <1>1, <1>2, <1>3, <1>4, <1>5 DEF Next, WorkerEnds, MainStep

LEMMA ClosingStays ==
    ASSUME Typed, InOrder, Closing, [Next]_vars
    PROVE  Closing'
  <1>1. ASSUME NEW t \in Thread, ThreadStep(t) \/ ScriptEnds \/ ScriptFails PROVE Closing'
    <2>1. GoesOn
      BY <1>1, StepsGoOn DEF ThreadStep
    <2> QED
      BY <2>1 DEF GoesOn, Closing, Thread
  <1>2. ASSUME NEW t \in Worker, FinalRemovals(t) PROVE Closing'
    BY <1>2, ThreadAssumption DEF FinalRemovals, Goto, Closing, Thread, Typed, TypeOK, ThreadTypes
  <1>3. CASE SchedulerEnds \/ Join
    BY <1>3 DEF SchedulerEnds, Join, Goto, Closing, Thread, Typed, TypeOK, ThreadTypes
  <1>4. CASE UNCHANGED vars
    BY <1>4 DEF vars, threadVars, Closing
  <1> QED
    BY <1>1, <1>2, <1>3, <1>4 DEF Next, WorkerEnds, MainStep, Thread

LEMMA WellIsWokenOnce ==
    ASSUME Typed, NoLostWakeup, AllOrderly
    PROVE  OneWakeup
  <1> SUFFICES ASSUME NEW a \in Actor, NEW t \in Worker, fault = "none"
               PROVE  Wakes(t, a) = IF /\ state[a] = "IDLE" /\ mailbox[a] # <<>>
                                       /\ thread_offset[a] = t
                                       /\ \A u \in Thread : current[u] = a => pc[u] # "resume"
                                    THEN 1 ELSE 0
    BY DEF OneWakeup
  <1>1. t \in Thread /\ Orderly(a) /\ Wakes(t, a) = Cardinality(Place(t, ResumeTask(a)))
    BY DEF Thread, AllOrderly, Wakes, Place
  <1>2. CASE /\ state[a] = "IDLE" /\ mailbox[a] # <<>> /\ thread_offset[a] = t
             /\ \A u \in Thread : current[u] = a => pc[u] # "resume"
    <2>1. PICK u \in Thread : Queued(u, ResumeTask(a))
      BY <1>2 DEF NoLostWakeup
    <2>2. Place(u, ResumeTask(a)) # {}
      BY <2>1 DEF Queued, Place
    <2>3. u = t
      BY <1>1, <1>2, <2>2 DEF Orderly, QueuedRightly, WakesRightly
    <2>4. PICK i : Place(t, ResumeTask(a)) = {i}
      BY <1>1, <2>2, <2>3 DEF Orderly, QueuedRightly, QueuedOnce
    <2>5. Cardinality({i}) = 1
      BY FS_Singleton
    <2> QED
      BY <1>1, <1>2, <2>4, <2>5
  <1>3. CASE ~(/\ state[a] = "IDLE" /\ mailbox[a] # <<>> /\ thread_offset[a] = t
               /\ \A u \in Thread : current[u] = a => pc[u] # "resume")
    <2>1. Place(t, ResumeTask(a)) = {}
      BY <1>1, <1>3 DEF Orderly, QueuedRightly, WakesRightly
    <2>2. Cardinality({}) = 0
      BY FS_EmptySet
    <2> QED
      BY <1>1, <1>3, <2>1, <2>2
  <1> QED
    BY <1>2, <1>3

LEMMA WellAtFirst == Init => AllOrderly /\ NoFault
  <1> SUFFICES ASSUME Init, NEW a \in Actor PROVE Orderly(a)
    BY DEF AllOrderly, Init, NoFault
  <1>1. \A t \in Thread : \A x : Place(t, x) = {}
    BY DEF Init, ThreadsInit, Place
  <1>2. /\ \A t \in Thread : current[t] # a
        /\ a \notin Unscheduled /\ state[a] = "SPAWNING"
    BY ActorAssumption DEF Init, ThreadsInit, ActorsInit, Unscheduled
  <1> QED
    BY <1>1, <1>2 DEF Orderly, RunsRightly, QueuedRightly, StartsRightly, FreesRightly,
       WakesRightly, QueuedOnce, IdlesRightly, BeginsRightly

LEMMA UnchangedWell ==
    ASSUME Typed, Typed', AllWell, UNCHANGED vars
    PROVE  AllWell'
  BY NothingMovesOrderly DEF vars, queueVars, restVars, AllWell, NoFault

(* Most steps remove nobody and give nobody a reference to read.           *)
NobodyLeft == by_ref \subseteq by_ref' /\ new_actor_ref' = new_actor_ref

LEMMA NobodyLeftReferenced ==
    ASSUME Referenced, NobodyLeft
    PROVE  Referenced'
  BY DEF Referenced, NobodyLeft

LEMMA RemovalReferenced ==
    ASSUME Typed, AllOrderly, Referenced, NEW t \in Thread, Return(t) \/ CrashRemove(t),
           workers[current[t]] = {}, CreatorsFirst
    PROVE  Referenced'
  <1>1. PICK a \in Actor : a = current[t]
    BY DEF Return, CrashRemove, At, Typed, HasCurrent, Running
  <1>2. Gone(a) \subseteq {a}
    BY <1>1, NobodyBelow DEF Gone
  <1>3. by_ref' = by_ref \ Gone(a) /\ new_actor_ref' = new_actor_ref
    BY <1>1 DEF Return, CrashRemove, Remove
  <1>4. \A u \in Thread : new_actor_ref[u] # a
    BY <1>1 DEF CreatorsFirst
  <1> QED
    BY <1>2, <1>3, <1>4 DEF Referenced

LEMMA PhpReferenced ==
    ASSUME Typed, AllOrderly, Referenced, NEW t \in Thread, Php(t),
           Return(t) => workers[current[t]] = {}, CreatorsFirst
    PROVE  Referenced'
  <1>1. CASE Schedule(t)
    <2>1. PICK a \in Actor : /\ newborn[t] = a
                             /\ new_actor_ref' = [new_actor_ref EXCEPT ![t] = a]
                             /\ by_ref' = by_ref
      BY <1>1 DEF Schedule, registryVars
    <2>2. a \in by_ref
      BY <2>1, ActorAssumption DEF Unscheduled, AllOrderly, Orderly, BeginsRightly
    <2> QED
      BY <2>1, <2>2 DEF Referenced, Typed, TypeOK, RestTypes
  <1>2. CASE WriteRef(t)
    BY <1>2 DEF WriteRef, registryVars, Referenced, Typed, TypeOK, RestTypes
  <1>3. CASE Return(t)
    BY <1>3, RemovalReferenced
  <1>4. CASE ~Schedule(t) /\ ~WriteRef(t) /\ ~Return(t)
    <2>1. NobodyLeft
      BY <1>4 DEF Php, Create, Insert, Promote, SupervisorConstruct, Add, AddWorker, Send,
         Shutdown, BlockInCtor, ReceiveBlock, Swap, Throw, CtorReturn, registryVars, restVars,
         NobodyLeft
    <2> QED
      BY <2>1, NobodyLeftReferenced
  <1> QED
    BY <1>1, <1>2, <1>3, <1>4

LEMMA NextReferenced ==
    ASSUME Typed, AllOrderly, Referenced, Alone, CreatorsFirst, [Next]_vars
    PROVE  Referenced' \/ Closing'
  <1>1. ASSUME NEW t \in Thread, ThreadStep(t) PROVE Referenced'
    <2>1. /\ ~CrashEscalate(t) /\ ~RestartWorker(t)
          /\ Throw(t) \/ Return(t) \/ CrashRemove(t) => workers[current[t]] = {}
      BY NobodyBelowThrowers
    <2>2. CASE Php(t)
      BY <2>1, <2>2, PhpReferenced
    <2>3. CASE CrashRemove(t)
      BY <2>1, <2>3, RemovalReferenced
    <2>4. CASE CrashHandling(t) /\ ~CrashRemove(t)
      <3>1. NobodyLeft
        BY <2>1, <2>4 DEF CrashHandling, CrashRestart, WorkersRestarted, registryVars, restVars,
           NobodyLeft
      <3> QED
        BY <3>1, NobodyLeftReferenced
    <2>5. CASE Loop(t) \/ TouchFreed(t)
      <3>1. NobodyLeft
        BY <2>5 DEF Loop, PerformActorRemovals, HandleSend, HandleResume, HandleNew, HandleFree,
           Resume, StartReceive, FindNothing, CheckShutdown, TouchFreed, registryVars, restVars,
           NobodyLeft
      <3> QED
        BY <3>1, NobodyLeftReferenced
    <2> QED
      BY <1>1, <2>2, <2>3, <2>4, <2>5 DEF ThreadStep
  <1>2. ASSUME \/ \E t \in Worker : FinalRemovals(t)
               \/ ScriptEnds \/ ScriptFails \/ UNCHANGED vars
        PROVE  Referenced'
    <2>1. NobodyLeft
      BY <1>2 DEF FinalRemovals, ScriptEnds, ScriptFails, vars, registryVars, restVars, NobodyLeft
    <2> QED
      BY <2>1, NobodyLeftReferenced
  <1>3. CASE SchedulerEnds \/ Join
    BY <1>3 DEF SchedulerEnds, Join, Goto, Closing, Thread, Typed, TypeOK, ThreadTypes
  <1> QED
    BY <1>1, <1>2, <1>3 DEF Next, WorkerEnds, MainStep

LEMMA TreeNumbersAlways == Spec => []TreeNumbers
  BY ImplementsRegistry, TreeNumbersAlwaysHold, PTL

Safe == AllWell /\ Referenced

LEMMA SafeAtFirst == Init => Safe
  BY WellAtFirst DEF Init, ThreadsInit, Safe, AllWell, Referenced

LEMMA SafeStep ==
    ASSUME Typed, Typed', AtHome, TreeNumbers, OwnedOnce, NoLostWakeup, InOrder,
           Safe \/ Closing, [Next]_vars, ~Closing => [Alone /\ CreatorsFirst]_vars
    PROVE  Safe' \/ Closing'
  <1>1. CASE Closing
    BY <1>1, ClosingStays
  <1>2. CASE ~Closing /\ UNCHANGED vars
    BY <1>2, UnchangedWell DEF Safe, Referenced, vars, registryVars, restVars
  <1>3. CASE ~Closing /\ Next /\ Alone /\ CreatorsFirst
    BY <1>3, AloneStep, NextReferenced DEF Safe, AllWell
  <1> QED
    BY <1>1, <1>2, <1>3

(* Where no supervisor crashes and nobody is removed or restarted along    *)
(* with its supervisor, or gone before its creator has read its reference, *)
(* none of the faults of the model happens and every wait is ended by one  *)
(* resume task, until the tables are destroyed, whatever the program does: *)
(* any sends, crashes of workers, restarts, returns, and any interleaving. *)
THEOREM NoFaultWhenAlone ==
    Spec /\ [][Alone /\ CreatorsFirst]_vars => [](~Closing => NoFault /\ OneWakeup)
  <1>1. /\ Typed /\ Typed' /\ AtHome /\ TreeNumbers /\ OwnedOnce /\ NoLostWakeup /\ InOrder
        /\ Safe \/ Closing
        /\ [Next]_vars /\ [Alone /\ CreatorsFirst]_vars
        => (Safe \/ Closing)'
    BY SafeStep
  <1>2. Spec => []TreeNumbers
    BY TreeNumbersAlways
  <1>3. Spec => []InOrder
    BY InOrderAlways
  <1>4. Typed /\ NoLostWakeup /\ (Safe \/ Closing) => (~Closing => NoFault /\ OneWakeup)
    BY WellIsWokenOnce DEF Safe, AllWell
  <1> QED
    BY <1>1, <1>2, <1>3, <1>4, SafeAtFirst, TypedAlways, AlwaysAtHome, AlwaysOwnedOnce,
       WakeupNeverLost, PTL DEF Spec

-----------------------------------------------------------------------------
(* Programs in which this is so: those that crash or return are no         *)
(* supervisors, and do not crash as often as the limit on restarts.        *)
OnlyWorkersFail ==
    /\ \A who \in Who, a \in Actor : <<who, a>> \in Promotes => a \notin MayThrow \cup MayReturn
    /\ MaxCrashes < MaxStreak

Modest ==
    /\ \A a \in supervision : a \notin MayThrow \cup MayReturn
    /\ \A a \in Actor : state[a] = "RESTARTING" => a \in MayThrow
    /\ \A t \in Thread : pc[t] # "workers"
    /\ \A a \in Actor : streak[a] <= crashes
    /\ \A t \in Thread : pc[t] = "crash" =>
          current[t] \in MayThrow /\ streak[current[t]] < crashes

LEMMA ThrowsByItself ==
    ASSUME Typed, AllOrderly, NEW t \in Thread, Throw(t)
    PROVE  current[t] \in MayThrow
  <1>1. PICK a \in Actor : a = current[t]
    BY DEF Throw, At, Typed, HasCurrent, Running
  <1>2. Fits(state[a], pc[t])
    BY <1>1, RunsAlone DEF AllOrderly
  <1>3. ~BlockThrows(t)
    BY <1>1, <1>2 DEF BlockThrows, Fits, Starting
  <1> QED
    BY <1>3 DEF Throw

LEMMA ModestIsAlone ==
    ASSUME OnlyWorkersFail, Typed, AllOrderly, Modest
    PROVE  Alone
  <1> SUFFICES ASSUME NEW t \in Thread
               PROVE  /\ pc[t] # "workers" /\ ~CrashEscalate(t)
                      /\ Throw(t) => current[t] \notin supervision
                      /\ Return(t) \/ CrashRemove(t) => workers[current[t]] = {}
    BY DEF Alone
  <1>1. pc[t] # "workers"
    BY DEF Modest
  <1>2. ~CrashEscalate(t)
    <2> SUFFICES ASSUME CrashEscalate(t) PROVE FALSE
      OBVIOUS
    <2>1. PICK a \in Actor : a = current[t]
      BY DEF CrashEscalate, At, Typed, HasCurrent, Running
    <2>2. streak[a] < crashes /\ streak[a] + 1 = MaxStreak
      BY <2>1 DEF CrashEscalate, At, GivesUp, Modest
    <2>3. streak[a] \in Nat /\ crashes \in 0 .. MaxCrashes /\ MaxCrashes \in Nat
      BY BoundAssumption DEF Typed, TypeOK, ObjectTypes, BoundTypes
    <2> QED
      BY <2>2, <2>3 DEF OnlyWorkersFail
  <1>3. ASSUME Throw(t) \/ Return(t) \/ CrashRemove(t)
        PROVE  current[t] \in Actor \ supervision
    <2>1. current[t] \in Actor
      BY <1>3 DEF Throw, Return, CrashRemove, At, Typed, HasCurrent, Running
    <2>2. current[t] \in MayThrow \cup MayReturn
      BY <1>3, ThrowsByItself DEF Return, CrashRemove, At, Modest
    <2> QED
      BY <2>1, <2>2 DEF Modest
  <1>4. ASSUME Throw(t) \/ Return(t) \/ CrashRemove(t) PROVE workers[current[t]] = {}
    <2>1. PICK a \in Actor \ supervision : a = current[t]
      BY <1>3, <1>4
    <2>2. workers[a] \subseteq Actor
      BY DEF Typed, TypeOK, RegistryTypeOK
    <2> QED
      BY <2>1, <2>2 DEF Typed, LinksAgree
  <1> QED
    BY <1>1, <1>2, <1>3, <1>4

(* Most steps leave alone what Modest speaks of.                           *)
KeepsModest ==
    /\ supervision' = supervision /\ streak' = streak /\ crashes' = crashes
    /\ \A a \in Actor : state'[a] = "RESTARTING" => state[a] = "RESTARTING"
    /\ \A t \in Thread : pc'[t] # "workers"
    /\ \A t \in Thread : pc'[t] = "crash" => pc[t] = "crash" /\ current'[t] = current[t]

LEMMA ModestKept ==
    ASSUME Modest, KeepsModest
    PROVE  Modest'
  BY DEF Modest, KeepsModest

LEMMA ThreadModest ==
    ASSUME Typed, Modest, NEW t \in Thread, NEW label \in PC \ {"workers", "crash"},
           Goto(t, label), current' = current \/ \E x : current' = [current EXCEPT ![t] = x],
           UNCHANGED <<supervision, streak, crashes>>,
           \A a \in Actor : state'[a] = "RESTARTING" => state[a] = "RESTARTING"
    PROVE  Modest'
  <1>1. /\ \A u \in Thread : pc'[u] # "workers"
        /\ \A u \in Thread : pc'[u] = "crash" => pc[u] = "crash" /\ current'[u] = current[u]
    BY DEF Goto, Modest, Typed, TypeOK, ThreadTypes
  <1> QED
    BY <1>1, ModestKept DEF KeepsModest

LEMMA StillModest ==
    ASSUME Modest, UNCHANGED <<supervision, streak, crashes, state, pc, current>>
    PROVE  Modest'
  BY DEF Modest

LEMMA PhpModest ==
    ASSUME OnlyWorkersFail, Typed, AllOrderly, Modest, NEW t \in Thread, Php(t)
    PROVE  Modest'
  <1>1. CASE Create(t) \/ Schedule(t) \/ Send(t) \/ WriteRef(t) \/ Shutdown(t) \/ BlockInCtor(t)
    <2>1. UNCHANGED <<streak, crashes, state, pc, current>>
      BY <1>1 DEF Create, Schedule, Send, WriteRef, Shutdown, BlockInCtor, objectVars,
         threadVars, boundVars
    <2>2. supervision' = supervision
      BY <1>1 DEF Create, Insert, Attach, Schedule, Send, WriteRef, Shutdown, BlockInCtor,
         registryVars, treeVars
    <2> QED
      BY <2>1, <2>2, StillModest
  <1>2. CASE Promote(t)
    <2>1. PICK a \in Actor : /\ <<Caller(t), a>> \in Promotes
                             /\ supervision' = supervision \cup {a}
                             /\ UNCHANGED <<streak, crashes, state, pc, current>>
      BY <1>2 DEF Promote, SupervisorConstruct, objectVars, threadVars, boundVars
    <2>2. Caller(t) \in Who
      BY <2>1, CallAssumption
    <2>3. a \notin MayThrow \cup MayReturn
      BY <2>1, <2>2 DEF OnlyWorkersFail
    <2> QED
      BY <2>1, <2>3 DEF Modest
  <1>3. CASE Add(t)
    <2>1. /\ UNCHANGED <<supervision, streak, crashes, state, current>>
          /\ pc' = pc \/ Goto(t, "walking")
      BY <1>3 DEF Add, AddWorker, Attach, treeVars, objectVars, boundVars
    <2> QED
      BY <2>1, StillModest, ThreadModest DEF PC
  <1>4. CASE ReceiveBlock(t)
    <2>1. PICK a \in Actor : a = current[t]
      BY <1>4 DEF ReceiveBlock, Typed, TypeOK, RegistryTypeOK
    <2>2. /\ UNCHANGED <<supervision, crashes, current>>
          /\ state' = [state EXCEPT ![a] = "IDLE"] /\ streak' = [streak EXCEPT ![a] = 0]
          /\ pc' = [pc EXCEPT ![t] = "swap"]
      BY <1>4, <2>1 DEF ReceiveBlock, registryVars, treeVars, boundVars, Goto
    <2>3. \A x \in Actor : /\ state'[x] = "RESTARTING" => state[x] = "RESTARTING"
                           /\ streak'[x] <= streak[x] /\ streak[x] \in Nat /\ streak'[x] \in Nat
      BY <2>2 DEF Typed, TypeOK, ObjectTypes
    <2>4. crashes \in Int
      BY DEF Typed, TypeOK, BoundTypes
    <2>5. \A u \in Thread : /\ pc'[u] # "workers"
                            /\ pc'[u] = "crash" => pc[u] = "crash" /\ current[u] \in Actor
      BY <2>2 DEF Modest, Typed, TypeOK, ThreadTypes, HasCurrent, Running
    <2>6. \A x \in Actor : /\ streak[x] <= crashes => streak'[x] <= crashes
                           /\ streak[x] < crashes => streak'[x] < crashes
      BY <2>3, <2>4
    <2> QED
      BY <2>2, <2>3, <2>5, <2>6 DEF Modest
  <1>5. CASE Throw(t)
    <2>1. PICK a \in Actor : a = current[t]
      BY <1>5 DEF Throw, At, Typed, HasCurrent, Running
    <2>2. /\ UNCHANGED <<supervision, streak>> /\ crashes' = crashes + 1
          /\ state' = Terminated(a)
          /\ current' = [current EXCEPT ![t] = a]
          /\ pc' = [pc EXCEPT ![t] = "crash"]
      BY <1>5, <2>1 DEF Throw, Crash, registryVars, treeVars, Goto
    <2>3. a \in MayThrow
      BY <1>5, <2>1, ThrowsByItself
    <2>4. \A x \in Actor : state'[x] = "RESTARTING" => state[x] = "RESTARTING"
      BY <2>2 DEF Terminated
    <2>5. crashes \in Int /\ \A x \in Actor : streak[x] \in Int
      BY DEF Typed, TypeOK, BoundTypes, ObjectTypes
    <2>6. \A x \in Actor : streak[x] <= crashes => streak'[x] <= crashes' /\ streak'[x] < crashes'
      BY <2>2, <2>5
    <2>7. ASSUME NEW u \in Thread, pc'[u] = "crash"
          PROVE  current'[u] \in MayThrow /\ streak'[current'[u]] < crashes'
      <3>1. CASE u = t
        <4>1. current'[u] = a
          BY <2>2, <3>1 DEF Typed, TypeOK, ThreadTypes
        <4> QED
          BY <2>3, <2>6, <4>1 DEF Modest
      <3>2. CASE u # t
        <4>1. pc[u] = "crash" /\ current'[u] = current[u] /\ current[u] \in Actor
          BY <2>2, <2>7, <3>2 DEF Typed, TypeOK, ThreadTypes, HasCurrent, Running
        <4> QED
          BY <2>6, <4>1 DEF Modest
      <3> QED
        BY <3>1, <3>2
    <2>8. \A u \in Thread : pc'[u] # "workers"
      BY <2>2 DEF Modest, Typed, TypeOK, ThreadTypes
    <2> QED
      BY <2>2, <2>4, <2>6, <2>7, <2>8 DEF Modest
  <1>6. CASE CtorReturn(t)
    <2>1. PICK a \in Actor : a = current[t]
      BY <1>6 DEF CtorReturn, At, Typed, HasCurrent, Running
    <2>2. ~(a \in supervision /\ state[a] = "RESTARTING")
      BY DEF Modest
    <2>3. Goto(t, "start") /\ UNCHANGED <<supervision, streak, crashes, state, current>>
      BY <1>6, <2>1, <2>2 DEF CtorReturn, registryVars, treeVars, objectVars, boundVars
    <2> QED
      BY <2>3, ThreadModest DEF PC
  <1>7. CASE Swap(t) \/ Return(t)
    <2>1. /\ UNCHANGED <<supervision, streak, crashes>>
          /\ Goto(t, "loop") /\ \E x : current' = [current EXCEPT ![t] = x]
      BY <1>7 DEF Swap, Return, Remove, Rest, registryVars, treeVars, boundVars
    <2>2. \A x \in Actor : state'[x] = "RESTARTING" => state[x] = "RESTARTING"
      BY <1>7 DEF Swap, Return, MarkForRemoval
    <2> QED
      BY <2>1, <2>2, ThreadModest DEF PC
  <1> QED
    BY <1>1, <1>2, <1>3, <1>4, <1>5, <1>6, <1>7 DEF Php

LEMMA CrashHandlingModest ==
    ASSUME Typed, AllOrderly, Modest, NEW t \in Thread, CrashHandling(t), ~CrashEscalate(t)
    PROVE  Modest'
  <1>1. CASE CrashRemove(t)
    <2>1. /\ UNCHANGED <<supervision, streak, crashes>>
          /\ Goto(t, "loop") /\ \E x : current' = [current EXCEPT ![t] = x]
          /\ \A x \in Actor : state'[x] = "RESTARTING" => state[x] = "RESTARTING"
      BY <1>1 DEF CrashRemove, Remove, Rest, MarkForRemoval, boundVars
    <2> QED
      BY <2>1, ThreadModest DEF PC
  <1>2. CASE CrashRestart(t)
    <2>1. PICK a \in Actor : a = current[t]
      BY <1>2 DEF CrashRestart, At, Typed, HasCurrent, Running
    <2>2. /\ pc[t] = "crash"
          /\ UNCHANGED <<supervision, crashes>>
          /\ streak' = [streak EXCEPT ![a] = @ + 1]
          /\ state' = [state EXCEPT ![a] = "RESTARTING"]
          /\ current' = [current EXCEPT ![t] = NoActor] /\ pc' = [pc EXCEPT ![t] = "loop"]
      BY <1>2, <2>1 DEF CrashRestart, At, OneForOne, Rest, Goto, registryVars, treeVars, boundVars
    <2>3. a \in MayThrow /\ streak[a] < crashes
      BY <2>1, <2>2 DEF Modest
    <2>4. crashes \in Int /\ \A x \in Actor : streak[x] \in Int
      BY DEF Typed, TypeOK, BoundTypes, ObjectTypes
    <2>5. /\ streak'[a] = streak[a] + 1
          /\ \A x \in Actor \ {a} : streak'[x] = streak[x] /\ state'[x] = state[x]
      BY <2>2 DEF Typed, TypeOK, ObjectTypes
    <2>6. \A x \in Actor : streak'[x] <= crashes'
      <3>1. streak[a] + 1 <= crashes
        BY <2>3, <2>4
      <3> QED
        BY <2>2, <2>5, <3>1 DEF Modest
    <2>7. \A x \in Actor : state'[x] = "RESTARTING" => x \in MayThrow
      BY <2>3, <2>5 DEF Modest
    <2>8. \A u \in Thread : pc'[u] # "workers"
      BY <2>2 DEF Modest, Typed, TypeOK, ThreadTypes
    <2>9. ASSUME NEW u \in Thread, pc'[u] = "crash"
          PROVE  current'[u] \in MayThrow /\ streak'[current'[u]] < crashes'
      <3>1. u # t /\ pc[u] = "crash" /\ current'[u] = current[u]
        BY <2>2, <2>9 DEF Typed, TypeOK, ThreadTypes
      <3>2. current[u] \in Actor
        BY <3>1 DEF Typed, HasCurrent, Running
      <3>3. current[u] # a
        BY <2>1, <3>1, RunsAlone DEF AllOrderly
      <3> QED
        BY <2>2, <2>5, <3>1, <3>2, <3>3 DEF Modest
    <2> QED
      BY <2>2, <2>6, <2>7, <2>8, <2>9 DEF Modest
  <1>3. ~RestartWorker(t) /\ ~WorkersRestarted(t)
    BY DEF RestartWorker, WorkersRestarted, At, Modest
  <1> QED
    BY <1>1, <1>2, <1>3 DEF CrashHandling

LEMMA LoopModest ==
    ASSUME Typed, Modest, NEW t \in Thread, Loop(t)
    PROVE  Modest'
  <1>1. /\ UNCHANGED <<supervision, streak, crashes>>
        /\ current' = current \/ \E x : current' = [current EXCEPT ![t] = x]
        /\ \/ \E label \in PC \ {"workers", "crash"} : Goto(t, label)
           \/ pc' = pc /\ current' = current
    BY DEF Loop, PerformActorRemovals, HandleSend, HandleResume, HandleNew, HandleFree, Resume,
       StartReceive, FindNothing, CheckShutdown, registryVars, treeVars, objectVars, boundVars, PC
  <1>2. \A x \in Actor : state'[x] = "RESTARTING" => state[x] = "RESTARTING"
    BY DEF Loop, PerformActorRemovals, HandleSend, HandleResume, HandleNew, HandleFree, Resume,
       StartReceive, FindNothing, CheckShutdown, objectVars, Typed, TypeOK, ObjectTypes
  <1>3. CASE \E label \in PC \ {"workers", "crash"} : Goto(t, label)
    BY <1>1, <1>2, <1>3, ThreadModest
  <1>4. CASE pc' = pc /\ current' = current
    BY <1>1, <1>2, <1>4, ModestKept DEF KeepsModest, Modest
  <1> QED
    BY <1>1, <1>3, <1>4

LEMMA NextModest ==
    ASSUME OnlyWorkersFail, Typed, OwnedOnce, AllOrderly, Referenced, Modest, [Next]_vars
    PROVE  Modest' \/ Closing'
  <1>1. Alone
    BY ModestIsAlone
  <1>2. ASSUME NEW t \in Thread, ThreadStep(t) PROVE Modest'
    <2>1. ~TouchFreed(t)
      BY NeverTouchesFreed DEF TouchFreed
    <2>2. ~CrashEscalate(t)
      BY <1>1 DEF Alone
    <2> QED
      BY <1>2, <2>1, <2>2, PhpModest, CrashHandlingModest, LoopModest DEF ThreadStep
  <1>3. ASSUME NEW t \in Worker, FinalRemovals(t) PROVE Modest'
    <2>1. UNCHANGED <<supervision, streak, crashes, state, current>> /\ Goto(t, "ended")
          /\ t \in Thread
      BY <1>3 DEF FinalRemovals, registryVars, treeVars, boundVars, Thread
    <2> QED
      BY <2>1, ThreadModest DEF PC
  <1>4. CASE ScriptEnds
    <2>1. UNCHANGED <<supervision, streak, crashes, state, current>> /\ Goto(Main, "loop")
          /\ Main \in Thread
      BY <1>4 DEF ScriptEnds, registryVars, treeVars, objectVars, boundVars, Thread
    <2> QED
      BY <2>1, ThreadModest DEF PC
  <1>5. CASE ScriptFails \/ UNCHANGED vars
    BY <1>5, StillModest DEF ScriptFails, vars, registryVars, treeVars, objectVars, threadVars, boundVars
  <1>6. CASE SchedulerEnds \/ Join
    BY <1>6 DEF SchedulerEnds, Join, Goto, Closing, Thread, Typed, TypeOK, ThreadTypes
  <1> QED
    BY <1>2, <1>3, <1>4, <1>5, <1>6 DEF Next, WorkerEnds, MainStep

ModestlySafe == Safe /\ Modest

LEMMA ModestlySafeAtFirst == Init => ModestlySafe
  <1> SUFFICES ASSUME Init PROVE Modest
    BY SafeAtFirst DEF ModestlySafe
  <1> QED
    BY DEF Init, RegistryInit, ActorsInit, ThreadsInit, Modest

LEMMA ModestlySafeStep ==
    ASSUME OnlyWorkersFail, Typed, Typed', AtHome, TreeNumbers, OwnedOnce, NoLostWakeup, InOrder,
           ModestlySafe, [Next]_vars, [CreatorsFirst]_vars
    PROVE  ModestlySafe' \/ Closing'
  <1>1. Alone
    BY ModestIsAlone DEF ModestlySafe, Safe, AllWell
  <1>2. Safe' \/ Closing'
    BY <1>1, SafeStep DEF ModestlySafe
  <1>3. Modest' \/ Closing'
    BY NextModest DEF ModestlySafe, Safe, AllWell
  <1> QED
    BY <1>2, <1>3 DEF ModestlySafe

(* If only workers fail, and less often than the limit, then whatever else *)
(* the program does and however its threads interleave, none of the faults *)
(* of the model happens and every wait is ended by one resume task -- but  *)
(* for the actor that is gone before its creator has read its reference.   *)
THEOREM NoFaultIfOnlyWorkersFail ==
    ASSUME OnlyWorkersFail
    PROVE  Spec /\ [][CreatorsFirst]_vars => [](~Closing => NoFault /\ OneWakeup)
  <1>1. /\ Typed /\ Typed' /\ AtHome /\ TreeNumbers /\ OwnedOnce /\ NoLostWakeup /\ InOrder
        /\ ModestlySafe \/ Closing
        /\ [Next]_vars /\ [CreatorsFirst]_vars
        => (ModestlySafe \/ Closing)'
    BY ModestlySafeStep, ClosingStays
  <1>2. Typed /\ NoLostWakeup /\ (ModestlySafe \/ Closing) => (~Closing => NoFault /\ OneWakeup)
    BY WellIsWokenOnce DEF ModestlySafe, Safe, AllWell
  <1> QED
    BY <1>1, <1>2, ModestlySafeAtFirst, TreeNumbersAlways, InOrderAlways, TypedAlways,
       AlwaysAtHome, AlwaysOwnedOnce, WakeupNeverLost, PTL DEF Spec

-----------------------------------------------------------------------------
(* Programs whose actors never leave: receive() does not return, and the   *)
(* actors that may throw are created by newWorker(), with a supervisor.    *)
NobodyLeaves ==
    /\ MayReturn = {}
    /\ \A who \in Who, a \in MayThrow : <<who, a, NoActor>> \notin Creates

HasBoss ==
    /\ \A a \in by_ref \cap MayThrow : supervisor[a] # NoActor
    /\ \A t \in Thread : pc[t] = "crash" => boss[t] # NoActor

LEMMA NobodyLeavesFirst ==
    ASSUME NobodyLeaves, HasBoss
    PROVE  CreatorsFirst
  BY DEF NobodyLeaves, HasBoss, CreatorsFirst, Return, CrashRemove, At

(* Most steps change no links and begin to handle no crash.                *)
KeepsBosses ==
    /\ by_ref' = by_ref /\ supervisor' = supervisor
    /\ \A t \in Thread : pc'[t] = "crash" => pc[t] = "crash" /\ boss'[t] = boss[t]

LEMMA BossesKept ==
    ASSUME HasBoss, KeepsBosses
    PROVE  HasBoss'
  BY DEF HasBoss, KeepsBosses

LEMMA ThreadKeepsBosses ==
    ASSUME Typed, NEW t \in Thread, NEW label \in PC \ {"crash"}, Goto(t, label),
           UNCHANGED <<by_ref, supervisor>>,
           boss' = boss \/ \E x : boss' = [boss EXCEPT ![t] = x]
    PROVE  KeepsBosses
  BY DEF Goto, KeepsBosses, Typed, TypeOK, ThreadTypes

LEMMA AttachHasBoss ==
    ASSUME Typed, HasBoss, NEW s \in Actor, NEW w \in Actor, Attach(s, w),
           by_ref' \subseteq by_ref \cup {w}, boss' = boss,
           \A t \in Thread : pc'[t] = "crash" => pc[t] = "crash"
    PROVE  HasBoss'
  <1>1. supervisor' = [supervisor EXCEPT ![w] = s]
    BY DEF Attach
  <1>2. \A a \in Actor : supervisor'[a] = IF a = w THEN s ELSE supervisor[a]
    BY <1>1 DEF Typed, TypeOK, RegistryTypeOK
  <1>3. by_ref' \subseteq Actor
    BY DEF Typed, TypeOK, RegistryTypeOK
  <1> QED
    BY <1>2, <1>3, ActorAssumption DEF HasBoss

LEMMA PhpHasBoss ==
    ASSUME NobodyLeaves, Typed, AllOrderly, HasBoss, NEW t \in Thread, Php(t)
    PROVE  HasBoss'
  <1>1. CASE Create(t)
    <2>1. PICK a \in Actor, s \in Actor \cup {NoActor} :
             <<Caller(t), a, s>> \in Creates /\ Insert(a, s)
      BY <1>1 DEF Create
    <2>2. pc' = pc /\ boss' = boss
      BY <1>1 DEF Create
    <2>3. CASE Refused(a, s)
      BY <2>1, <2>2, <2>3 DEF Insert, treeVars, HasBoss
    <2>4. CASE ~Refused(a, s) /\ s = NoActor
      <3>1. by_ref' = by_ref \cup {a} /\ supervisor' = supervisor
        BY <2>1, <2>4 DEF Insert, treeVars
      <3>2. a \notin MayThrow
        BY <2>1, <2>4, CallAssumption DEF NobodyLeaves
      <3> QED
        BY <2>2, <3>1, <3>2 DEF HasBoss
    <2>5. CASE ~Refused(a, s) /\ s # NoActor
      <3>1. by_ref' = by_ref \cup {a} /\ Attach(s, a) /\ s \in Actor
        BY <2>1, <2>5 DEF Insert
      <3> QED
        BY <2>2, <3>1, AttachHasBoss
    <2> QED
      BY <2>3, <2>4, <2>5
  <1>2. CASE Add(t)
    <2>1. PICK s, w \in Actor : AddWorker(s, w)
      BY <1>2 DEF Add
    <2>2. /\ boss' = boss /\ by_ref' = by_ref
          /\ pc' = pc \/ Goto(t, "walking")
      BY <1>2, <2>1 DEF Add, AddWorker
    <2>3. \A u \in Thread : pc'[u] = "crash" => pc[u] = "crash"
      BY <2>2 DEF Goto, Typed, TypeOK, ThreadTypes
    <2>4. Attach(s, w) \/ supervisor' = supervisor
      BY <2>1 DEF AddWorker, treeVars
    <2> QED
      BY <2>2, <2>3, <2>4, AttachHasBoss DEF HasBoss
  <1>3. CASE Throw(t)
    <2>1. PICK a \in Actor : a = current[t]
      BY <1>3 DEF Throw, At, Typed, HasCurrent, Running
    <2>2. a \in MayThrow
      BY <1>3, <2>1, ThrowsByItself
    <2>3. a \in by_ref
      BY <2>1, RunsAlone DEF AllOrderly, Ready
    <2>4. /\ by_ref' = by_ref /\ supervisor' = supervisor
          /\ boss' = [boss EXCEPT ![t] = supervisor[a]] /\ Goto(t, "crash")
      BY <1>3, <2>1 DEF Throw, Crash, registryVars, treeVars
    <2> QED
      BY <2>2, <2>3, <2>4 DEF HasBoss, Goto, Typed, TypeOK, ThreadTypes
  <1>4. CASE Schedule(t) \/ WriteRef(t) \/ Promote(t) \/ Send(t) \/ Shutdown(t) \/ BlockInCtor(t)
    <2>1. UNCHANGED <<by_ref, supervisor, pc, boss>>
      BY <1>4 DEF Schedule, WriteRef, Promote, SupervisorConstruct, Send, Shutdown, BlockInCtor,
         registryVars, treeVars, threadVars
    <2> QED
      BY <2>1 DEF HasBoss
  <1>5. CASE ReceiveBlock(t) \/ Swap(t) \/ CtorReturn(t)
    <2>1. /\ UNCHANGED <<by_ref, supervisor, boss>>
          /\ \E label \in PC \ {"crash"} : Goto(t, label)
      BY <1>5 DEF ReceiveBlock, Swap, CtorReturn, Rest, registryVars, treeVars, PC
    <2> QED
      BY <2>1, ThreadKeepsBosses, BossesKept
  <1>6. ~Return(t)
    BY DEF Return, NobodyLeaves
  <1> QED
    BY <1>1, <1>2, <1>3, <1>4, <1>5, <1>6 DEF Php

LEMMA NextHasBoss ==
    ASSUME NobodyLeaves, Typed, OwnedOnce, AllOrderly, Referenced, Alone, HasBoss, [Next]_vars
    PROVE  HasBoss' \/ Closing'
  <1>1. ASSUME NEW t \in Thread, CrashHandling(t) \/ Loop(t) PROVE HasBoss'
    <2>1. ~CrashRemove(t) /\ ~CrashEscalate(t) /\ ~RestartWorker(t) /\ ~WorkersRestarted(t)
      BY DEF CrashRemove, HasBoss, Alone, RestartWorker, WorkersRestarted, At
    <2>2. /\ UNCHANGED <<by_ref, supervisor>>
          /\ boss' = boss \/ \E x : boss' = [boss EXCEPT ![t] = x]
          /\ (\E label \in PC \ {"crash"} : Goto(t, label)) \/ (pc' = pc /\ boss' = boss)
      BY <1>1, <2>1 DEF CrashHandling, CrashRestart, Rest, Loop, PerformActorRemovals, HandleSend,
         HandleResume, HandleNew, HandleFree, Resume, StartReceive, FindNothing, CheckShutdown,
         registryVars, treeVars, PC
    <2>3. KeepsBosses
      BY <2>2, ThreadKeepsBosses DEF KeepsBosses
    <2> QED
      BY <2>3, BossesKept
  <1>2. ASSUME NEW t \in Thread, ThreadStep(t) PROVE HasBoss'
    <2>1. ~TouchFreed(t)
      BY NeverTouchesFreed DEF TouchFreed
    <2> QED
      BY <1>1, <1>2, <2>1, PhpHasBoss DEF ThreadStep
  <1>3. ASSUME NEW t \in Thread, (t \in Worker /\ FinalRemovals(t)) \/ (t = Main /\ ScriptEnds)
        PROVE  HasBoss'
    <2>1. /\ UNCHANGED <<by_ref, supervisor, boss>>
          /\ \E label \in PC \ {"crash"} : Goto(t, label)
      BY <1>3 DEF FinalRemovals, ScriptEnds, registryVars, treeVars, PC
    <2> QED
      BY <2>1, ThreadKeepsBosses, BossesKept
  <1>4. CASE ScriptFails \/ UNCHANGED vars
    BY <1>4 DEF ScriptFails, vars, registryVars, treeVars, threadVars, HasBoss
  <1>5. CASE SchedulerEnds \/ Join
    BY <1>5 DEF SchedulerEnds, Join, Goto, Closing, Thread, Typed, TypeOK, ThreadTypes
  <1> QED
    BY <1>2, <1>3, <1>4, <1>5 DEF Next, WorkerEnds, MainStep, Thread

(* If only workers fail, each under a supervisor that restarts it, and     *)
(* nobody leaves, then none of the faults of the model happens and every   *)
(* wait is ended by one resume task, whatever the program creates, adds,   *)
(* sends and throws and however its threads interleave, until the tables   *)
(* are destroyed.                                                          *)
THEOREM NoFaultIfNobodyLeaves ==
    ASSUME OnlyWorkersFail, NobodyLeaves
    PROVE  Spec => [](~Closing => NoFault /\ OneWakeup)
  <1> DEFINE Inv == (ModestlySafe /\ HasBoss) \/ Closing
  <1>1. Init => Inv
    BY ModestlySafeAtFirst DEF Init, RegistryInit, ThreadsInit, HasBoss
  <1>2. ASSUME Typed, Typed', AtHome, TreeNumbers, OwnedOnce, NoLostWakeup, InOrder,
               Inv, [Next]_vars
        PROVE  Inv'
    <2>1. CASE Closing
      BY <1>2, <2>1, ClosingStays
    <2>2. CASE ModestlySafe /\ HasBoss
      <3>1. Alone /\ CreatorsFirst
        BY <1>2, <2>2, ModestIsAlone, NobodyLeavesFirst DEF ModestlySafe, Safe, AllWell
      <3>2. ModestlySafe' \/ Closing'
        BY <1>2, <2>2, <3>1, ModestlySafeStep
      <3>3. HasBoss' \/ Closing'
        BY <1>2, <2>2, <3>1, NextHasBoss DEF ModestlySafe, Safe, AllWell
      <3> QED
        BY <3>2, <3>3
    <2> QED
      BY <1>2, <2>1, <2>2
  <1>3. Typed /\ NoLostWakeup /\ Inv => (~Closing => NoFault /\ OneWakeup)
    BY WellIsWokenOnce DEF ModestlySafe, Safe, AllWell
  <1> HIDE DEF Inv
  <1> QED
    BY <1>1, <1>2, <1>3, TreeNumbersAlways, InOrderAlways, TypedAlways, AlwaysAtHome,
       AlwaysOwnedOnce, WakeupNeverLost, PTL DEF Spec
=============================================================================
