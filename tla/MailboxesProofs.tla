--------------------------- MODULE MailboxesProofs ---------------------------
(* The threads, their queues, crashes and restarts keep the promise that   *)
(* Mailboxes states: what becomes of a message is what becomes of it there.*)
EXTENDS ActorSystemProofs

(* Mail is queued at the main thread only, and nothing else is.            *)
RightTasks == \A t \in Thread, task \in Task :
                Queued(t, task) => (task.type = "SEND_MESSAGE" <=> t = Main)

(* New tasks come from send(), or go to a worker.                          *)
Added(t, task) == task.type = "SEND_MESSAGE" <=> t = Main
AddsRight == \A t \in Thread, task \in Task : Queued(t, task)' => Queued(t, task) \/ Added(t, task)

LEMMA WorkersGetOthers ==
    ASSUME TypeOK, NEW a \in Actor, NEW s \in Seq(Task), Enqueue(thread_offset[a], s),
           \A i \in DOMAIN s : s[i].type # "SEND_MESSAGE"
    PROVE  AddsRight /\ tasks'[Main] = tasks[Main]
  <1>1. PICK o \in Thread : o = thread_offset[a] /\ o # Main
    BY ThreadAssumption DEF TypeOK, QueueTypes, Thread
  <1>2. Enqueue(o, s)
    BY <1>1
  <1>3. AddsRight
    BY <1>1, <1>2, EnqueueAdds DEF AddsRight, Added
  <1>4. tasks'[Main] = tasks[Main]
    BY <1>1, <1>2 DEF Enqueue, TypeOK, QueueTypes, Thread
  <1> QED
    BY <1>3, <1>4

LEMMA OneForOneAdds ==
    ASSUME TypeOK, NEW w \in Actor, OneForOne(w)
    PROVE  AddsRight /\ tasks'[Main] = tasks[Main]
  <1>1. RestartTasks(w) \in Seq(Task)
    BY TasksAreTasks DEF RestartTasks
  <1>2. \A i \in DOMAIN RestartTasks(w) : RestartTasks(w)[i].type # "SEND_MESSAGE"
    BY DEF RestartTasks, NewTask, FreeTask
  <1> QED
    BY <1>1, <1>2, WorkersGetOthers DEF OneForOne, RestartThread

(* The head of a queue is mail if the queue is the main thread's.          *)
LEMMA HeadIsRight ==
    ASSUME TypeOK, RightTasks, NEW t \in Thread, tasks[t] # <<>>
    PROVE  Head(tasks[t]).type = "SEND_MESSAGE" <=> t = Main
  <1>1. tasks[t] \in Seq(Task)
    BY DEF TypeOK, QueueTypes
  <1>2. Head(tasks[t]) \in Task /\ 1 \in DOMAIN tasks[t] /\ tasks[t][1] = Head(tasks[t])
    BY <1>1
  <1>3. Queued(t, Head(tasks[t]))
    BY <1>2 DEF Queued
  <1> QED
    BY <1>2, <1>3 DEF RightTasks

-----------------------------------------------------------------------------
(* What a step can do to the mail.                                         *)
Mail == <<mailbox, tasks[Main], sent>>
Still == UNCHANGED <<created, by_ref, mailbox, tasks[Main], sent>>
Opens(a) ==
    /\ a \notin created /\ created' = created \cup {a}
    /\ by_ref' = by_ref \/ by_ref' = by_ref \cup {a}
    /\ UNCHANGED <<mailbox, tasks[Main], sent>>
Closes(S) == by_ref' = by_ref \ S /\ UNCHANGED <<created, mailbox, tasks[Main], sent>>
Posts(to) ==
    /\ to \in Actor => to \in created
    /\ sent < MaxSends /\ sent' = sent + 1
    /\ tasks'[Main] = Append(tasks[Main], SendTask(to, sent + 1))
    /\ UNCHANGED <<created, by_ref, mailbox>>
Routes ==
    LET task == Head(tasks[Main])
        a == Lookup(task.to)
    IN  /\ tasks[Main] # <<>>
        /\ tasks'[Main] = Tail(tasks[Main])
        /\ mailbox' = IF a = NoActor THEN mailbox
                      ELSE [mailbox EXCEPT ![a] = Append(@, task.message)]
        /\ UNCHANGED <<created, by_ref, sent>>
Receives(a) ==
    /\ mailbox[a] # <<>>
    /\ mailbox' = [mailbox EXCEPT ![a] = Tail(@)]
    /\ UNCHANGED <<created, by_ref, tasks[Main], sent>>

Steps ==
    \/ Still \/ Routes
    \/ \E a \in Actor : Opens(a) \/ Receives(a)
    \/ \E S \in SUBSET by_ref : Closes(S)
    \/ \E to \in Actor \cup Name : Posts(to)

LEMMA PhpSteps ==
    ASSUME Typed, NEW t \in Thread, Php(t)
    PROVE  Steps /\ AddsRight
  <1> USE DEF Typed
  <1>1. CASE Create(t)
    <2>1. PICK a \in Actor, s \in Actor \cup {NoActor} : Insert(a, s)
      BY <1>1 DEF Create
    <2>2. UNCHANGED <<mailbox, tasks, sent>>
      BY <1>1 DEF Create, queueVars, boundVars
    <2>3. Opens(a)
      BY <2>1, <2>2 DEF Insert, Opens
    <2> QED
      BY <2>2, <2>3 DEF Steps, AddsRight, Queued
  <1>2. CASE Schedule(t)
    <2>1. PICK a \in Actor, o \in Worker : Enqueue(o, <<NewTask(a)>>)
      BY <1>2 DEF Schedule
    <2>2. /\ o \in Thread /\ o # Main /\ <<NewTask(a)>> \in Seq(Task)
          /\ \A i \in DOMAIN <<NewTask(a)>> : <<NewTask(a)>>[i].type # "SEND_MESSAGE"
      BY ThreadAssumption, TasksAreTasks DEF Thread, NewTask
    <2> DEFINE s == <<NewTask(a)>>
    <2>3. s \in Seq(Task) /\ Enqueue(o, s) /\ \A i \in DOMAIN s : s[i].type # "SEND_MESSAGE"
      BY <2>1, <2>2
    <2> HIDE DEF s
    <2>4. AddsRight
      BY <2>2, <2>3, EnqueueAdds DEF AddsRight, Added
    <2>5. tasks'[Main] = tasks[Main]
      BY <2>2, <2>3 DEF Enqueue, TypeOK, QueueTypes, Thread
    <2>6. Still
      BY <1>2, <2>5 DEF Schedule, Still, registryVars, boundVars
    <2> QED
      BY <2>4, <2>6 DEF Steps
  <1>3. CASE Send(t)
    <2>1. PICK to \in Actor \cup Name :
            /\ to \in Actor => to \in created
            /\ sent < MaxSends /\ sent' = sent + 1
            /\ Enqueue(Main, <<SendTask(to, sent + 1)>>)
      BY <1>3 DEF Send
    <2>2. PICK m \in Message : m = sent + 1
      BY <2>1, BoundAssumption DEF TypeOK, BoundTypes, Message
    <2> DEFINE s == <<SendTask(to, m)>>
    <2>3. /\ s \in Seq(Task) /\ Main \in Thread /\ Enqueue(Main, s)
          /\ \A i \in DOMAIN s : s[i].type = "SEND_MESSAGE"
      BY <2>1, <2>2, TasksAreTasks DEF Thread, SendTask
    <2>4. tasks'[Main] = tasks[Main] \o s
      BY <2>3 DEF Enqueue, TypeOK, QueueTypes
    <2>5. tasks'[Main] = Append(tasks[Main], SendTask(to, sent + 1))
      BY <2>2, <2>3, <2>4 DEF TypeOK, QueueTypes
    <2>6. Posts(to)
      BY <1>3, <2>1, <2>5 DEF Send, Posts, registryVars
    <2> HIDE DEF s
    <2>7. AddsRight
      BY <2>3, EnqueueAdds DEF AddsRight, Added
    <2> QED
      BY <2>6, <2>7 DEF Steps
  <1>4. CASE ReceiveBlock(t)
    <2>1. PICK a \in Actor : a = current[t]
      BY <1>4 DEF ReceiveBlock, At, HasCurrent, Running
    <2>2. /\ BlockTasks(a) \in Seq(Task) /\ Enqueue(thread_offset[a], BlockTasks(a))
          /\ \A i \in DOMAIN BlockTasks(a) : BlockTasks(a)[i].type # "SEND_MESSAGE"
      BY <1>4, <2>1, TasksAreTasks DEF ReceiveBlock, BlockTasks, ResumeTask
    <2>3. AddsRight /\ tasks'[Main] = tasks[Main]
      BY <2>2, WorkersGetOthers
    <2>4. Still
      BY <1>4, <2>3 DEF ReceiveBlock, Still, registryVars, boundVars
    <2> QED
      BY <2>3, <2>4 DEF Steps
  <1>5. CASE Return(t)
    <2>1. PICK a \in Actor : a = current[t]
      BY <1>5 DEF Return, At, HasCurrent, Running
    <2>2. Closes(Gone(a)) /\ Gone(a) \subseteq by_ref /\ tasks' = tasks
      BY <1>5, <2>1, GoneRegistered DEF Return, Remove, Closes, boundVars, TypeOK
    <2> QED
      BY <2>2 DEF Steps, AddsRight, Queued
  <1>6. CASE \/ Promote(t) \/ Add(t) \/ WriteRef(t) \/ Shutdown(t) \/ BlockInCtor(t) \/ Swap(t)
             \/ Throw(t) \/ CtorReturn(t)
    <2>1. Still /\ tasks' = tasks
      BY <1>6 DEF Promote, Add, WriteRef, Shutdown, BlockInCtor, Swap, Throw, CtorReturn,
         SupervisorConstruct, AddWorker, Still, registryVars, queueVars, boundVars
    <2> QED
      BY <2>1 DEF Steps, AddsRight, Queued
  <1> QED
    BY <1>1, <1>2, <1>3, <1>4, <1>5, <1>6 DEF Php

LEMMA CrashHandlingSteps ==
    ASSUME Typed, NEW t \in Thread, CrashHandling(t)
    PROVE  Steps /\ AddsRight
  <1> USE DEF Typed
  <1>1. PICK a \in Actor : a = current[t]
    BY DEF CrashHandling, CrashRemove, CrashRestart, CrashEscalate, RestartWorker,
       WorkersRestarted, At, HasCurrent, Running
  <1>2. CASE CrashRemove(t)
    <2>1. Closes(Gone(a)) /\ Gone(a) \subseteq by_ref /\ tasks' = tasks
      BY <1>1, <1>2, GoneRegistered DEF CrashRemove, Remove, Closes, boundVars, TypeOK
    <2> QED
      BY <2>1 DEF Steps, AddsRight, Queued
  <1>3. CASE CrashRestart(t) \/ RestartWorker(t)
    <2>1. PICK w \in Actor : OneForOne(w)
      BY <1>1, <1>3 DEF CrashRestart, RestartWorker, TypeOK, RegistryTypeOK
    <2>2. AddsRight /\ tasks'[Main] = tasks[Main]
      BY <2>1, OneForOneAdds
    <2>3. Still
      BY <1>3, <2>2 DEF CrashRestart, RestartWorker, Still, registryVars, boundVars
    <2> QED
      BY <2>2, <2>3 DEF Steps
  <1>4. CASE CrashEscalate(t) \/ WorkersRestarted(t)
    <2>1. Still /\ tasks' = tasks
      BY <1>4 DEF CrashEscalate, WorkersRestarted, Still, registryVars, queueVars, boundVars
    <2> QED
      BY <2>1 DEF Steps, AddsRight, Queued
  <1> QED
    BY <1>2, <1>3, <1>4 DEF CrashHandling
LEMMA LoopSteps ==
    ASSUME Typed, RightTasks, NEW t \in Thread, Loop(t)
    PROVE  Steps /\ AddsRight
  <1> USE DEF Typed
  <1>1. CASE HandleSend(t)
    <2>1. tasks[t] # <<>> /\ Head(tasks[t]).type = "SEND_MESSAGE"
      BY <1>1 DEF HandleSend, Pops
    <2>2. t = Main
      BY <2>1, HeadIsRight
    <2> DEFINE task == Head(tasks[Main])
    <2>3. CASE Lookup(task.to) = NoActor
      <3>1. Routes
        BY <1>1, <2>1, <2>2, <2>3
        DEF HandleSend, Dequeue, Routes, TypeOK, QueueTypes, registryVars, boundVars
      <3> QED
        BY <1>1, <3>1, <2>1, <2>2, <2>3, DequeueRemoves DEF HandleSend, Steps, AddsRight
    <2>4. CASE Lookup(task.to) # NoActor
      <3>1. task \in Task
        BY <2>1, <2>2, DequeueTypes DEF TypeOK
      <3>2. PICK a \in Actor : a = Lookup(task.to)
        BY <2>1, <2>2, <2>4, <3>1, TaskFields DEF Lookup, TypeOK, RegistryTypeOK
      <3>3. thread_offset[a] # Main
        BY ThreadAssumption DEF TypeOK, QueueTypes
      <3>4. tasks'[Main] = Tail(tasks[Main]) \o <<>>
        BY <1>1, <2>2, <2>4, <3>2, <3>3 DEF HandleSend
      <3>5. Tail(tasks[Main]) \in Seq(Task) /\ \A q \in Seq(Task) : q \o <<>> = q
        BY <2>1, <2>2, DequeueTypes DEF TypeOK
      <3>6. tasks'[Main] = Tail(tasks[Main])
        BY <3>4, <3>5
      <3>7. Routes
        BY <1>1, <2>1, <2>2, <2>4, <3>6 DEF HandleSend, Pushed, Routes, registryVars, boundVars
      <3>8. AddsRight
        <4> SUFFICES ASSUME NEW u \in Thread, NEW x \in Task, Queued(u, x)', ~Queued(u, x)
                     PROVE  Added(u, x)
          BY DEF AddsRight
        <4>1. PICK b \in Actor : u = thread_offset[b] /\ x = ResumeTask(b)
          BY <1>1, SendAdds
        <4> QED
          BY <4>1, ThreadAssumption DEF Added, ResumeTask, TypeOK, QueueTypes
      <3> QED
        BY <3>7, <3>8 DEF Steps
    <2> QED
      BY <2>3, <2>4
  <1>2. CASE Resume(t)
    <2>1. PICK a \in Actor : a = current[t]
      BY <1>2 DEF Resume, At, HasCurrent, Running
    <2>2. Still \/ Receives(a)
      BY <1>2, <2>1 DEF Resume, Still, Receives, registryVars, boundVars
    <2>3. tasks' = tasks
      BY <1>2 DEF Resume
    <2> QED
      BY <2>2, <2>3 DEF Steps, AddsRight, Queued
  <1>3. CASE HandleResume(t) \/ HandleNew(t) \/ HandleFree(t)
    <2>1. /\ tasks[t] # <<>> /\ Head(tasks[t]).type # "SEND_MESSAGE" /\ Dequeue(t)
      BY <1>3 DEF HandleResume, HandleNew, HandleFree, Pops
    <2>2. t # Main
      BY <2>1, HeadIsRight
    <2>3. tasks'[Main] = tasks[Main]
      BY <2>1, <2>2 DEF Dequeue, TypeOK, QueueTypes, Thread
    <2>4. Still
      BY <1>3, <2>3 DEF HandleResume, HandleNew, HandleFree, Still, registryVars, boundVars
    <2>5. AddsRight
      BY <2>1, DequeueRemoves DEF AddsRight
    <2> QED
      BY <2>4, <2>5 DEF Steps
  <1>4. CASE \/ PerformActorRemovals(t) \/ StartReceive(t) \/ FindNothing(t) \/ CheckShutdown(t)
    <2>1. Still /\ tasks' = tasks
      BY <1>4 DEF PerformActorRemovals, StartReceive, FindNothing, CheckShutdown, Still,
         registryVars, queueVars, boundVars
    <2> QED
      BY <2>1 DEF Steps, AddsRight, Queued
  <1> QED
    BY <1>1, <1>2, <1>3, <1>4 DEF Loop

LEMMA EndSteps ==
    ASSUME NEW t \in Thread,
           TouchFreed(t) \/ WorkerEnds(t) \/ MainStep \/ ScriptFails
    PROVE  Steps /\ AddsRight
  <1>1. tasks' = tasks
    BY DEF TouchFreed, WorkerEnds, FinalRemovals, MainStep, ScriptEnds, SchedulerEnds, Join,
       ScriptFails, queueVars
  <1>2. CASE SchedulerEnds
    <2>1. Closes(by_ref)
      BY <1>2 DEF SchedulerEnds, DestroyTables, Closes, boundVars
    <2> QED
      BY <1>1, <2>1 DEF Steps, AddsRight, Queued
  <1>3. CASE ~SchedulerEnds
    <2>1. Still
      BY <1>3 DEF TouchFreed, WorkerEnds, FinalRemovals, MainStep, ScriptEnds, Join,
         ScriptFails, Still, registryVars, queueVars, boundVars
    <2> QED
      BY <1>1, <2>1 DEF Steps, AddsRight, Queued
  <1> QED
    BY <1>2, <1>3

LEMMA EveryStep ==
    ASSUME Typed, RightTasks, [Next]_vars
    PROVE  Steps /\ AddsRight
  <1>1. Main \in Thread /\ Worker \subseteq Thread
    BY DEF Thread
  <1>2. CASE UNCHANGED vars
    BY <1>2 DEF vars, registryVars, queueVars, boundVars, Still, Steps, AddsRight, Queued
  <1> QED
    BY <1>1, <1>2, PhpSteps, CrashHandlingSteps, LoopSteps, EndSteps DEF Next, ThreadStep

LEMMA TasksAlwaysRight == Spec => []RightTasks
  <1>1. Init => RightTasks
    BY DEF Init, ThreadsInit, RightTasks, Queued
  <1>2. Typed /\ RightTasks /\ [Next]_vars => RightTasks'
    BY EveryStep DEF AddsRight, Added, RightTasks
  <1> QED
    BY <1>1, <1>2, TypedAlways, PTL DEF Spec
-----------------------------------------------------------------------------
(* Order.  Messages are numbered by their send() calls, an actor that has  *)
(* not been created has no mail, and nobody can write to it yet.           *)
Numbered ==
    /\ \A i \in DOMAIN tasks[Main] :
         /\ tasks[Main][i].message <= sent
         /\ tasks[Main][i].to \in Actor => tasks[Main][i].to \in created
    /\ \A a \in Actor : \A i \in DOMAIN mailbox[a] : mailbox[a][i] <= sent
    /\ \A a \in Actor \ created : mailbox[a] = <<>>

Ordered == Numbered /\ MailInOrder

LEMMA SeqFacts ==
    ASSUME NEW S, NEW q \in Seq(S)
    PROVE  DOMAIN q = 1 .. Len(q) /\ Len(q) \in Nat /\ \A i \in DOMAIN q : q[i] \in S
  OBVIOUS

LEMMA TailFacts ==
    ASSUME NEW S, NEW q \in Seq(S), q # <<>>
    PROVE  /\ DOMAIN Tail(q) = 1 .. Len(q) - 1 /\ Len(q) \in Nat \ {0}
           /\ Head(q) = q[1] /\ 1 \in DOMAIN q
           /\ \A i \in DOMAIN Tail(q) : i + 1 \in DOMAIN q /\ Tail(q)[i] = q[i + 1]
  OBVIOUS

LEMMA AppendFacts ==
    ASSUME NEW S, NEW q \in Seq(S), NEW x
    PROVE  /\ DOMAIN Append(q, x) = 1 .. Len(q) + 1
           /\ \A i \in DOMAIN q : Append(q, x)[i] = q[i]
           /\ Append(q, x)[Len(q) + 1] = x
  OBVIOUS

LEMMA MailTypes ==
    ASSUME Typed, RightTasks
    PROVE  /\ tasks[Main] \in Seq(Task) /\ sent \in Nat
           /\ \A i \in DOMAIN tasks[Main] :
                /\ tasks[Main][i].type = "SEND_MESSAGE"
                /\ tasks[Main][i].to \in Actor \cup Name
                /\ tasks[Main][i].message \in Nat
           /\ \A a \in Actor : mailbox[a] \in Seq(Message)
           /\ \A a \in Actor : \A i \in DOMAIN mailbox[a] : mailbox[a][i] \in Nat
  <1>1. /\ tasks[Main] \in Seq(Task) /\ sent \in Nat /\ Main \in Thread
        /\ \A a \in Actor : mailbox[a] \in Seq(Message)
    BY BoundAssumption DEF Typed, TypeOK, QueueTypes, BoundTypes, Thread
  <1>2. Message \subseteq Nat
    BY BoundAssumption DEF Message
  <1>3. \A i \in DOMAIN tasks[Main] : tasks[Main][i] \in Task
    BY <1>1
  <1>4. \A i \in DOMAIN tasks[Main] : tasks[Main][i].type = "SEND_MESSAGE"
    BY <1>1, <1>3 DEF RightTasks, Queued
  <1>5. \A i \in DOMAIN tasks[Main] :
          tasks[Main][i].to \in Actor \cup Name /\ tasks[Main][i].message \in Nat
    BY <1>2, <1>3, <1>4, TaskFields
  <1>6. \A a \in Actor : \A i \in DOMAIN mailbox[a] : mailbox[a][i] \in Nat
    BY <1>1, <1>2, SeqFacts
  <1> QED
    BY <1>1, <1>4, <1>5, <1>6

LEMMA PostsOrdered ==
    ASSUME Typed, RightTasks, Ordered, NEW to \in Actor \cup Name, Posts(to)
    PROVE  Ordered'
  <1> DEFINE q == tasks[Main]
             task == SendTask(to, sent + 1)
  <1>1. /\ q \in Seq(Task) /\ sent \in Nat
        /\ \A i \in DOMAIN q : q[i].message \in Nat /\ q[i].message <= sent
        /\ \A a \in Actor : \A i \in DOMAIN mailbox[a] : mailbox[a][i] \in Nat /\ mailbox[a][i] <= sent
    BY MailTypes DEF Ordered, Numbered
  <1>2. task.message = sent + 1 /\ task.to = to
    BY DEF SendTask
  <1>3. /\ DOMAIN tasks'[Main] = 1 .. Len(q) + 1
        /\ \A i \in DOMAIN q : tasks'[Main][i] = q[i]
        /\ tasks'[Main][Len(q) + 1] = task
        /\ DOMAIN q = 1 .. Len(q) /\ Len(q) \in Nat
    <2>1. tasks'[Main] = Append(q, task)
      BY DEF Posts
    <2> HIDE DEF q, task
    <2> QED
      BY <1>1, <2>1
  <1>4. mailbox' = mailbox /\ created' = created /\ sent' = sent + 1
    BY DEF Posts
  <1>5. to \in Actor => to \in created
    BY DEF Posts
  <1> HIDE DEF task
  <1>6. Numbered'
    BY <1>1, <1>2, <1>3, <1>4, <1>5 DEF Ordered, Numbered
  <1>7. MailInOrder'
    <2>3. \A k \in DOMAIN tasks'[Main] : \/ k \in DOMAIN q /\ tasks'[Main][k] = q[k]
                                         \/ k = Len(q) + 1 /\ tasks'[Main][k].message = sent + 1
      BY <1>2, <1>3
    <2>1. \A i, j \in DOMAIN tasks'[Main] :
            i < j => tasks'[Main][i].message < tasks'[Main][j].message
      <3> SUFFICES ASSUME NEW i \in DOMAIN tasks'[Main], NEW j \in DOMAIN tasks'[Main], i < j
                   PROVE  tasks'[Main][i].message < tasks'[Main][j].message
        OBVIOUS
      <3>1. i \in DOMAIN q /\ tasks'[Main][i] = q[i]
        BY <1>3, <2>3
      <3>2. j \in DOMAIN q => q[i].message < q[j].message
        BY <3>1 DEF Ordered, MailInOrder
      <3>3. q[i].message \in Nat /\ q[i].message <= sent
        BY <1>1, <3>1
      <3> HIDE DEF q
      <3> QED
        BY <1>1, <2>3, <3>1, <3>2, <3>3
    <2>2. \A a \in Actor : \A i \in DOMAIN mailbox'[a] : \A k \in DOMAIN tasks'[Main] :
            mailbox'[a][i] < tasks'[Main][k].message
      <3> SUFFICES ASSUME NEW a \in Actor, NEW i \in DOMAIN mailbox[a],
                          NEW k \in DOMAIN tasks'[Main]
                   PROVE  mailbox[a][i] < tasks'[Main][k].message
        BY <1>4
      <3>1. k \in DOMAIN q => mailbox[a][i] < q[k].message
        BY DEF Ordered, MailInOrder
      <3>2. mailbox[a][i] \in Nat /\ mailbox[a][i] <= sent
        BY <1>1
      <3> HIDE DEF q
      <3> QED
        BY <1>1, <2>3, <3>1, <3>2
    <2> QED
      BY <1>4, <2>1, <2>2 DEF Ordered, MailInOrder, InMailbox
  <1> QED
    BY <1>6, <1>7 DEF Ordered

LEMMA RoutesOrdered ==
    ASSUME Typed, RightTasks, NamesPointHome, Ordered, Routes
    PROVE  Ordered'
  <1> DEFINE q == tasks[Main]
             h == q[1]
  <1>1. /\ q \in Seq(Task) /\ q # <<>>
        /\ \A i \in DOMAIN q : q[i].message \in Nat
        /\ h.to \in Actor \cup Name
        /\ \A a \in Actor : mailbox[a] \in Seq(Message)
        /\ \A a \in Actor : \A i \in DOMAIN mailbox[a] : mailbox[a][i] \in Nat
    <2>1. 1 \in DOMAIN q
      BY MailTypes DEF Routes
    <2> QED
      BY <2>1, MailTypes DEF Routes
  <1>2. /\ DOMAIN tasks'[Main] = 1 .. Len(q) - 1
        /\ \A i \in DOMAIN tasks'[Main] : tasks'[Main][i] = q[i + 1]
        /\ DOMAIN q = 1 .. Len(q) /\ Len(q) \in Nat \ {0}
        /\ Head(q) = h
    <2>1. tasks'[Main] = Tail(q)
      BY DEF Routes
    <2> HIDE DEF q
    <2> QED
      BY <1>1, <2>1
  <1>3. created' = created /\ sent' = sent
    BY DEF Routes
  <1>6. \A i, j \in DOMAIN tasks'[Main] :
          i < j => tasks'[Main][i].message < tasks'[Main][j].message
    <2> SUFFICES ASSUME NEW i \in DOMAIN tasks'[Main], NEW j \in DOMAIN tasks'[Main], i < j
                 PROVE  tasks'[Main][i].message < tasks'[Main][j].message
      OBVIOUS
    <2>1. /\ i + 1 \in DOMAIN q /\ j + 1 \in DOMAIN q /\ i + 1 < j + 1
          /\ tasks'[Main][i] = q[i + 1] /\ tasks'[Main][j] = q[j + 1]
      <3> HIDE DEF q
      <3> QED
        BY <1>2
    <2>2. q[i + 1].message < q[j + 1].message
      BY <2>1 DEF Ordered, MailInOrder
    <2> QED
      BY <2>1, <2>2
  <1>4. CASE Lookup(h.to) = NoActor
    <2>1. mailbox' = mailbox
      BY <1>2, <1>4 DEF Routes
    <2>2. \A i \in DOMAIN tasks'[Main] : i + 1 \in DOMAIN q
      BY <1>2
    <2> HIDE DEF q
    <2>3. Numbered'
      BY <1>2, <1>3, <2>1, <2>2 DEF Ordered, Numbered, q
    <2>4. \A i, j \in DOMAIN tasks'[Main] :
            i < j => tasks'[Main][i].message < tasks'[Main][j].message
      BY <1>2, <1>6
    <2>5. \A a \in Actor : \A i \in DOMAIN mailbox'[a] : \A k \in DOMAIN tasks'[Main] :
            mailbox'[a][i] < tasks'[Main][k].message
      BY <1>2, <2>1, <2>2 DEF Ordered, MailInOrder, q
    <2> QED
      BY <2>1, <2>3, <2>4, <2>5 DEF Ordered, MailInOrder, InMailbox
  <1>5. CASE Lookup(h.to) # NoActor
    <2>1. Lookup(h.to) \in by_ref
      BY <1>1, <1>5 DEF Lookup, NamesPointHome
    <2>2. PICK a \in Actor : a = Lookup(h.to) /\ a \in created
      BY <2>1 DEF Typed, TypeOK, RegistryTypeOK
    <2> DEFINE box == mailbox[a]
    <2>3. mailbox' = [mailbox EXCEPT ![a] = Append(@, h.message)]
      BY <1>2, <1>5, <2>2 DEF Routes
    <2>4. /\ \A b \in Actor \ {a} : mailbox'[b] = mailbox[b]
          /\ mailbox'[a] = Append(box, h.message)
      BY <2>3 DEF Typed, TypeOK, QueueTypes
    <2> HIDE DEF q
    <2>5. /\ DOMAIN mailbox'[a] = 1 .. Len(box) + 1
          /\ \A i \in DOMAIN box : mailbox'[a][i] = box[i]
          /\ mailbox'[a][Len(box) + 1] = h.message
          /\ DOMAIN box = 1 .. Len(box) /\ Len(box) \in Nat
      BY <1>1, <2>4, SeqFacts, AppendFacts
    <2>6. /\ \A b \in Actor : \A i \in DOMAIN mailbox[b] : mailbox[b][i] < h.message
          /\ \A k \in DOMAIN q : k # 1 => h.message < q[k].message
          /\ h.message <= sent /\ 1 \in DOMAIN q
      BY <1>1, <1>2 DEF Ordered, Numbered, MailInOrder, q
    <2>7. /\ \A i \in DOMAIN q : q[i].message <= sent /\ (q[i].to \in Actor => q[i].to \in created)
          /\ \A i, j \in DOMAIN q : i < j => q[i].message < q[j].message
          /\ \A b \in Actor : \A i \in DOMAIN mailbox[b] : \A k \in DOMAIN q :
               mailbox[b][i] < q[k].message
      BY DEF Ordered, Numbered, MailInOrder, q
    <2> HIDE DEF h
    <2>9. \A b \in Actor : \A i \in DOMAIN mailbox'[b] :
            \/ i \in DOMAIN mailbox[b] /\ mailbox'[b][i] = mailbox[b][i]
            \/ b = a /\ i = Len(box) + 1 /\ mailbox'[b][i] = h.message
      BY <2>4, <2>5
    <2>14. \A k \in DOMAIN tasks'[Main] : k + 1 \in DOMAIN q /\ tasks'[Main][k] = q[k + 1]
      BY <1>2
    <2>8. Numbered'
      <3>1. \A b \in Actor : \A i \in DOMAIN mailbox'[b] : mailbox'[b][i] <= sent
        BY <2>6, <2>9 DEF Ordered, Numbered
      <3>2. \A k \in DOMAIN tasks'[Main] :
              /\ tasks'[Main][k].message <= sent
              /\ tasks'[Main][k].to \in Actor => tasks'[Main][k].to \in created
        BY <2>7, <2>14
      <3>3. \A b \in Actor \ created : mailbox'[b] = <<>>
        BY <2>2, <2>4 DEF Ordered, Numbered
      <3> QED
        BY <1>3, <3>1, <3>2, <3>3 DEF Numbered
    <2>10. \A b \in Actor : \A i, j \in DOMAIN mailbox'[b] :
             i < j => mailbox'[b][i] < mailbox'[b][j]
      <3> SUFFICES ASSUME NEW b \in Actor, NEW i \in DOMAIN mailbox'[b],
                          NEW j \in DOMAIN mailbox'[b], i < j
                   PROVE  mailbox'[b][i] < mailbox'[b][j]
        OBVIOUS
      <3>1. CASE b # a
        BY <2>4, <3>1 DEF Ordered, MailInOrder
      <3>2. CASE b = a
        <4>1. i \in DOMAIN box /\ (j \in DOMAIN box \/ j = Len(box) + 1)
          BY <2>5, <3>2
        <4>2. j \in DOMAIN box => box[i] < box[j]
          BY <4>1 DEF Ordered, MailInOrder
        <4> QED
          BY <2>5, <2>6, <3>2, <4>1, <4>2
      <3> QED
        BY <3>1, <3>2
    <2>11. \A b \in Actor : \A i \in DOMAIN mailbox'[b] : \A k \in DOMAIN tasks'[Main] :
             mailbox'[b][i] < tasks'[Main][k].message
      <3> SUFFICES ASSUME NEW b \in Actor, NEW i \in DOMAIN mailbox'[b],
                          NEW k \in DOMAIN tasks'[Main]
                   PROVE  mailbox'[b][i] < tasks'[Main][k].message
        OBVIOUS
      <3>1. k + 1 \in DOMAIN q /\ tasks'[Main][k] = q[k + 1] /\ k + 1 # 1
        BY <1>2, <2>14
      <3> QED
        BY <2>6, <2>7, <2>9, <3>1
    <2>12. \A b \in Actor : \A i \in DOMAIN mailbox'[b] : \A c \in Actor \ {b} :
             mailbox'[b][i] \notin InMailbox(c)'
      <3> SUFFICES ASSUME NEW b \in Actor, NEW i \in DOMAIN mailbox'[b], NEW c \in Actor \ {b},
                          NEW j \in DOMAIN mailbox'[c]
                   PROVE  mailbox'[b][i] # mailbox'[c][j]
        BY DEF InMailbox
      <3>1. i \in DOMAIN mailbox[b] /\ j \in DOMAIN mailbox[c] => mailbox[b][i] # mailbox[c][j]
        BY DEF Ordered, MailInOrder, InMailbox
      <3> QED
        BY <1>1, <2>6, <2>9, <3>1
    <2>13. \A i, j \in DOMAIN tasks'[Main] :
             i < j => tasks'[Main][i].message < tasks'[Main][j].message
      BY <1>6
    <2> QED
      BY <2>8, <2>10, <2>11, <2>12, <2>13 DEF Ordered, MailInOrder
  <1> QED
    BY <1>4, <1>5

LEMMA ReceivesOrdered ==
    ASSUME Typed, RightTasks, Ordered, NEW a \in Actor, Receives(a)
    PROVE  Ordered'
  <1> DEFINE box == mailbox[a]
  <1>1. /\ box \in Seq(Message) /\ box # <<>>
        /\ mailbox' = [mailbox EXCEPT ![a] = Tail(@)]
        /\ UNCHANGED <<created, tasks[Main], sent>>
    BY MailTypes DEF Receives
  <1>2. mailbox'[a] = Tail(box) /\ \A b \in Actor \ {a} : mailbox'[b] = mailbox[b]
    BY <1>1 DEF Typed, TypeOK, QueueTypes
  <1>3. /\ DOMAIN box = 1 .. Len(box) /\ Len(box) \in Nat \ {0}
        /\ DOMAIN mailbox'[a] = 1 .. Len(box) - 1
        /\ \A i \in DOMAIN mailbox'[a] : i + 1 \in DOMAIN box /\ mailbox'[a][i] = box[i + 1]
    <2> HIDE DEF box
    <2>1. DOMAIN box = 1 .. Len(box)
      BY <1>1, SeqFacts
    <2>2. /\ DOMAIN Tail(box) = 1 .. Len(box) - 1 /\ Len(box) \in Nat \ {0}
          /\ \A i \in DOMAIN Tail(box) : i + 1 \in DOMAIN box /\ Tail(box)[i] = box[i + 1]
      BY <1>1, TailFacts
    <2> QED
      BY <1>2, <2>1, <2>2
  <1>4. \A b \in Actor : \A i \in DOMAIN mailbox'[b] :
          IF b = a THEN i + 1 \in DOMAIN box /\ mailbox'[b][i] = box[i + 1]
          ELSE i \in DOMAIN mailbox[b] /\ mailbox'[b][i] = mailbox[b][i]
    BY <1>2, <1>3
  <1>5. Numbered'
    <2>1. a \in created
      BY <1>1 DEF Ordered, Numbered
    <2>2. \A b \in Actor : \A i \in DOMAIN mailbox'[b] : mailbox'[b][i] <= sent
      BY <1>4 DEF Ordered, Numbered
    <2> QED
      BY <1>1, <1>2, <2>1, <2>2 DEF Ordered, Numbered
  <1>6. MailInOrder'
    <2>1. \A b \in Actor : \A i, j \in DOMAIN mailbox'[b] :
            i < j => mailbox'[b][i] < mailbox'[b][j]
      <3> SUFFICES ASSUME NEW b \in Actor, NEW i \in DOMAIN mailbox'[b],
                          NEW j \in DOMAIN mailbox'[b], i < j
                   PROVE  mailbox'[b][i] < mailbox'[b][j]
        OBVIOUS
      <3>1. CASE b # a
        BY <1>2, <3>1 DEF Ordered, MailInOrder
      <3>2. CASE b = a
        <4>1. i + 1 \in DOMAIN box /\ j + 1 \in DOMAIN box /\ i + 1 < j + 1
          BY <1>3, <3>2
        <4>2. box[i + 1] < box[j + 1]
          BY <4>1 DEF Ordered, MailInOrder
        <4> QED
          BY <1>3, <3>2, <4>2
      <3> QED
        BY <3>1, <3>2
    <2>2. \A b \in Actor : \A i \in DOMAIN mailbox'[b] :
            \E k \in DOMAIN mailbox[b] : mailbox'[b][i] = mailbox[b][k]
      BY <1>4
    <2>3. \A b \in Actor : \A i \in DOMAIN mailbox'[b] : \A k \in DOMAIN tasks'[Main] :
            mailbox'[b][i] < tasks'[Main][k].message
      BY <1>1, <2>2 DEF Ordered, MailInOrder
    <2>4. \A b \in Actor : \A i \in DOMAIN mailbox'[b] : \A c \in Actor \ {b} :
            mailbox'[b][i] \notin InMailbox(c)'
      BY <2>2 DEF Ordered, MailInOrder, InMailbox
    <2>5. \A i, j \in DOMAIN tasks'[Main] :
            i < j => tasks'[Main][i].message < tasks'[Main][j].message
      BY <1>1 DEF Ordered, MailInOrder
    <2> QED
      BY <2>1, <2>3, <2>4, <2>5 DEF MailInOrder
  <1> QED
    BY <1>5, <1>6 DEF Ordered

LEMMA QuietlyOrdered ==
    ASSUME Ordered, created \subseteq created', UNCHANGED Mail
    PROVE  Ordered'
  BY DEF Ordered, Numbered, MailInOrder, InMailbox, Mail

LEMMA StaysOrdered ==
    ASSUME Typed, RightTasks, NamesPointHome, Ordered, [Next]_vars
    PROVE  Ordered'
  <1>1. Steps
    BY EveryStep
  <1>2. CASE \/ Still
             \/ \E a \in Actor : Opens(a)
             \/ \E S \in SUBSET by_ref : Closes(S)
    <2>1. created \subseteq created' /\ UNCHANGED Mail
      BY <1>2 DEF Still, Opens, Closes, Mail
    <2> QED
      BY <2>1, QuietlyOrdered
  <1> QED
    BY <1>1, <1>2, PostsOrdered, RoutesOrdered, ReceivesOrdered DEF Steps

LEMMA NamesAlwaysLive == Spec => []NamesPointHome
  BY ImplementsRegistry, NamesAlwaysPointHome, PTL

LEMMA AlwaysOrdered == Spec => []Ordered
  <1>1. Init => Ordered
    BY DEF Init, ActorsInit, ThreadsInit, Ordered, Numbered, MailInOrder, InMailbox, Thread
  <1>2. Typed /\ RightTasks /\ NamesPointHome /\ Ordered /\ [Next]_vars => Ordered'
    BY StaysOrdered
  <1> QED
    BY <1>1, <1>2, TypedAlways, TasksAlwaysRight, NamesAlwaysLive, PTL DEF Spec

(* However sends, routings, receives, crashes and restarts interleave,     *)
(* messages to one actor or name stay in the order of their send() calls,  *)
(* and no message is ever in two places.                                   *)
THEOREM MailAlwaysInOrder == Spec => []MailInOrder
  <1>1. Ordered => MailInOrder
    BY DEF Ordered
  <1> QED
    BY <1>1, AlwaysOrdered, PTL
-----------------------------------------------------------------------------
(* Refinement.  What the steps do to the sets of numbers Mailboxes is      *)
(* about.                                                                  *)
Floating == UNION {Unrouted(n) : n \in Name}
Recipient == Actor \cup Name

LEMMA UnroutedIs ==
    ASSUME RightTasks, Typed, NEW to \in Recipient, NEW m
    PROVE  m \in Unrouted(to) <=>
             \E i \in DOMAIN tasks[Main] :
                tasks[Main][i].to = to /\ tasks[Main][i].message = m
  BY MailTypes DEF Unrouted, IsFor

LEMMA MailBefore ==
    ASSUME Typed, RightTasks, Ordered
    PROVE  /\ \A to \in Recipient : Unrouted(to) \subseteq Nat
           /\ \A a \in Actor : InMailbox(a) \subseteq Nat
           /\ \A a \in Actor, to \in Recipient :
                \A m \in InMailbox(a), n \in Unrouted(to) : m < n
  <1>1. /\ \A to \in Recipient : Unrouted(to) \subseteq Nat
        /\ \A a \in Actor : InMailbox(a) \subseteq Nat
    BY MailTypes, UnroutedIs DEF InMailbox
  <1>2. ASSUME NEW a \in Actor, NEW to \in Recipient,
               NEW m \in InMailbox(a), NEW n \in Unrouted(to)
        PROVE  m < n
    <2>1. PICK i \in DOMAIN mailbox[a] : m = mailbox[a][i]
      BY DEF InMailbox
    <2>2. PICK k \in DOMAIN tasks[Main] : n = tasks[Main][k].message
      BY UnroutedIs
    <2> QED
      BY <2>1, <2>2 DEF Ordered, MailInOrder
  <1> QED
    BY <1>1, <1>2

(* A message is on its way to one recipient.                               *)
LEMMA MessageOnce ==
    ASSUME Typed, RightTasks, Ordered, NEW x \in Recipient, NEW y \in Recipient,
           NEW m \in Unrouted(x) \cap Unrouted(y)
    PROVE  x = y
  <1>1. PICK i \in DOMAIN tasks[Main] : tasks[Main][i].to = x /\ tasks[Main][i].message = m
    BY UnroutedIs
  <1>2. PICK j \in DOMAIN tasks[Main] : tasks[Main][j].to = y /\ tasks[Main][j].message = m
    BY UnroutedIs
  <1>3. i \in Nat /\ j \in Nat /\ m \in Nat
    BY <1>1, MailTypes
  <1>4. ~(i < j) /\ ~(j < i)
    BY <1>1, <1>2, <1>3 DEF Ordered, MailInOrder
  <1> QED
    BY <1>1, <1>2, <1>3, <1>4

LEMMA SameUnrouted ==
    ASSUME tasks'[Main] = tasks[Main]
    PROVE  \A to : Unrouted(to)' = Unrouted(to)
  BY DEF Unrouted, IsFor

LEMMA SameMailbox ==
    ASSUME NEW a, mailbox'[a] = mailbox[a]
    PROVE  InMailbox(a)' = InMailbox(a)
  BY DEF InMailbox

LEMMA PostsAdd ==
    ASSUME Typed, RightTasks, NEW to \in Recipient, Posts(to)
    PROVE  \A x \in Recipient :
             Unrouted(x)' = IF x = to THEN Unrouted(x) \cup {sent + 1} ELSE Unrouted(x)
  <1> DEFINE q == tasks[Main]
             task == SendTask(to, sent + 1)
  <1>1. tasks'[Main] = Append(q, task) /\ q \in Seq(Task)
    BY MailTypes DEF Posts
  <1>2. task.message = sent + 1 /\ task.to = to /\ task.type = "SEND_MESSAGE"
    BY DEF SendTask
  <1>3. /\ DOMAIN tasks'[Main] = DOMAIN q \cup {Len(q) + 1}
        /\ \A i \in DOMAIN q : tasks'[Main][i] = q[i]
        /\ tasks'[Main][Len(q) + 1] = task
    <2> HIDE DEF q, task
    <2>1. DOMAIN q = 1 .. Len(q) /\ Len(q) \in Nat
      BY <1>1, SeqFacts
    <2> QED
      BY <1>1, <2>1, AppendFacts
  <1> HIDE DEF task
  <1>4. \A i \in DOMAIN tasks'[Main] : tasks'[Main][i].type = "SEND_MESSAGE"
    BY <1>2, <1>3, MailTypes
  <1>5. ASSUME NEW x \in Recipient, NEW m
        PROVE  m \in Unrouted(x)' <=>
                 \E i \in DOMAIN tasks'[Main] :
                    tasks'[Main][i].to = x /\ tasks'[Main][i].message = m
    BY <1>4 DEF Unrouted, IsFor
  <1>6. ASSUME NEW x \in Recipient, NEW m
        PROVE  m \in Unrouted(x)' <=> m \in Unrouted(x) \/ (x = to /\ m = sent + 1)
    <2>1. m \in Unrouted(x) <=> \E i \in DOMAIN q : q[i].to = x /\ q[i].message = m
      BY UnroutedIs
    <2> HIDE DEF q
    <2> QED
      BY <1>2, <1>3, <1>5, <2>1
  <1> QED
    BY <1>6

(* The message that is routed is the earliest one that was not.            *)
LEMMA RoutesRemove ==
    ASSUME Typed, RightTasks, Ordered, Routes, NEW h, h = Head(tasks[Main])
    PROVE  /\ h.to \in Recipient
           /\ h.message \in Unrouted(h.to)
           /\ \A x \in Recipient : \A m \in Unrouted(x) : h.message <= m
           /\ \A x \in Recipient :
                Unrouted(x)' = IF x = h.to THEN Unrouted(x) \ {h.message} ELSE Unrouted(x)
  <1> DEFINE q == tasks[Main]
  <1>1. tasks'[Main] = Tail(q) /\ q \in Seq(Task) /\ q # <<>>
    BY MailTypes DEF Routes
  <1>2. /\ DOMAIN tasks'[Main] = 1 .. Len(q) - 1 /\ Len(q) \in Nat \ {0}
        /\ h = q[1] /\ 1 \in DOMAIN q /\ DOMAIN q = 1 .. Len(q)
        /\ \A i \in DOMAIN tasks'[Main] : i + 1 \in DOMAIN q /\ tasks'[Main][i] = q[i + 1]
    <2>1. h = Head(q)
      OBVIOUS
    <2> HIDE DEF q
    <2>2. DOMAIN q = 1 .. Len(q)
      BY <1>1, SeqFacts
    <2>3. /\ DOMAIN Tail(q) = 1 .. Len(q) - 1 /\ Len(q) \in Nat \ {0}
          /\ Head(q) = q[1] /\ 1 \in DOMAIN q
          /\ \A i \in DOMAIN Tail(q) : i + 1 \in DOMAIN q /\ Tail(q)[i] = q[i + 1]
      BY <1>1, TailFacts
    <2> QED
      BY <1>1, <2>1, <2>2, <2>3
  <1>3. /\ h.to \in Recipient /\ h.message \in Nat
        /\ \A k \in DOMAIN q : q[k].type = "SEND_MESSAGE" /\ q[k].message \in Nat
    BY <1>2, MailTypes DEF Recipient
  <1>4. \A k \in DOMAIN q : k # 1 => h.message < q[k].message
    BY <1>2 DEF Ordered, MailInOrder
  <1>5. \A x \in Recipient : \A m :
          m \in Unrouted(x) <=> \E i \in DOMAIN q : q[i].to = x /\ q[i].message = m
    BY UnroutedIs
  <1>6. \A i \in DOMAIN tasks'[Main] : tasks'[Main][i].type = "SEND_MESSAGE"
    BY <1>2, <1>3
  <1>7. ASSUME NEW x \in Recipient, NEW m
        PROVE  m \in Unrouted(x)' <=>
                 \E i \in DOMAIN tasks'[Main] :
                    tasks'[Main][i].to = x /\ tasks'[Main][i].message = m
    BY <1>6 DEF Unrouted, IsFor
  <1>8. ASSUME NEW x \in Recipient, NEW m
        PROVE  m \in Unrouted(x)' <=>
                 \E k \in DOMAIN q : k # 1 /\ q[k].to = x /\ q[k].message = m
    <2> HIDE DEF q
    <2>1. ASSUME NEW k \in DOMAIN q, k # 1
          PROVE  k - 1 \in DOMAIN tasks'[Main] /\ tasks'[Main][k - 1] = q[k]
      <3>1. k - 1 \in DOMAIN tasks'[Main] /\ (k - 1) + 1 = k
        BY <1>2, <2>1
      <3> QED
        BY <1>2, <3>1
    <2>2. \A i \in DOMAIN tasks'[Main] : i + 1 # 1 /\ i + 1 \in DOMAIN q
      BY <1>2
    <2>3. ASSUME NEW k \in DOMAIN q, k # 1, q[k].to = x, q[k].message = m
          PROVE  m \in Unrouted(x)'
      BY <1>7, <2>1, <2>3
    <2>4. ASSUME m \in Unrouted(x)'
          PROVE  \E k \in DOMAIN q : k # 1 /\ q[k].to = x /\ q[k].message = m
      BY <1>2, <1>7, <2>2, <2>4
    <2> QED
      BY <2>3, <2>4
  <1> HIDE DEF q
  <1>9. \A x \in Recipient : \A m \in Unrouted(x) : h.message <= m
    BY <1>2, <1>3, <1>4, <1>5
  <1>10. \A x \in Recipient : \A m :
           m \in Unrouted(x)' <=> m \in Unrouted(x) /\ ~(x = h.to /\ m = h.message)
    BY <1>2, <1>3, <1>4, <1>5, <1>8
  <1>11. h.message \in Unrouted(h.to)
    BY <1>2, <1>3, <1>5
  <1> QED
    BY <1>3, <1>9, <1>10, <1>11

LEMMA RoutesDeliver ==
    ASSUME Typed, Routes, NEW h, h = Head(tasks[Main]), NEW a \in Actor
    PROVE  InMailbox(a)' = IF a = Lookup(h.to) THEN InMailbox(a) \cup {h.message}
                           ELSE InMailbox(a)
  <1> DEFINE box == mailbox[a]
  <1>1. box \in Seq(Message) /\ a # NoActor
    BY ActorAssumption DEF Typed, TypeOK, QueueTypes
  <1>2. CASE a = Lookup(h.to)
    <2>1. mailbox'[a] = Append(box, h.message)
      BY <1>1, <1>2 DEF Routes, Typed, TypeOK, QueueTypes
    <2> HIDE DEF box
    <2>2. /\ DOMAIN mailbox'[a] = DOMAIN box \cup {Len(box) + 1}
          /\ \A i \in DOMAIN box : mailbox'[a][i] = box[i]
          /\ mailbox'[a][Len(box) + 1] = h.message
      BY <1>1, <2>1, SeqFacts, AppendFacts
    <2>3. \A m : m \in InMailbox(a)' <=> m \in InMailbox(a) \/ m = h.message
      BY <2>2 DEF InMailbox, box
    <2> QED
      BY <1>2, <2>3
  <1>3. CASE a # Lookup(h.to)
    <2>1. mailbox'[a] = mailbox[a]
      BY <1>3 DEF Routes, Typed, TypeOK, QueueTypes
    <2> QED
      BY <1>3, <2>1, SameMailbox
  <1> QED
    BY <1>2, <1>3

(* What an actor receives is the earliest message in its mailbox.          *)
LEMMA ReceivesRemove ==
    ASSUME Typed, RightTasks, Ordered, NEW a \in Actor, Receives(a)
    PROVE  /\ Head(mailbox[a]) \in InMailbox(a)
           /\ \A m \in InMailbox(a) : Head(mailbox[a]) <= m
           /\ InMailbox(a)' = InMailbox(a) \ {Head(mailbox[a])}
           /\ \A b \in Actor \ {a} : InMailbox(b)' = InMailbox(b)
  <1> DEFINE box == mailbox[a]
  <1>1. /\ box \in Seq(Message) /\ box # <<>>
        /\ mailbox' = [mailbox EXCEPT ![a] = Tail(@)]
        /\ \A i \in DOMAIN box : box[i] \in Nat
    BY MailTypes DEF Receives
  <1>2. mailbox'[a] = Tail(box) /\ \A b \in Actor \ {a} : mailbox'[b] = mailbox[b]
    BY <1>1 DEF Typed, TypeOK, QueueTypes
  <1>3. \A k \in DOMAIN box : k # 1 /\ 1 \in DOMAIN box => box[1] < box[k]
    <2>1. DOMAIN box = 1 .. Len(box)
      BY <1>1
    <2> QED
      BY <2>1 DEF Ordered, MailInOrder
  <1>4. InMailbox(a) = {box[i] : i \in DOMAIN box}
    BY DEF InMailbox
  <1>5. InMailbox(a)' = {mailbox'[a][i] : i \in DOMAIN mailbox'[a]}
    BY DEF InMailbox
  <1> HIDE DEF box
  <1>6. /\ DOMAIN box = 1 .. Len(box) /\ Len(box) \in Nat \ {0}
        /\ DOMAIN mailbox'[a] = 1 .. Len(box) - 1 /\ Head(box) = box[1] /\ 1 \in DOMAIN box
        /\ \A i \in DOMAIN mailbox'[a] : i + 1 \in DOMAIN box /\ mailbox'[a][i] = box[i + 1]
    BY <1>1, <1>2, SeqFacts, TailFacts
  <1>7. \A m : m \in InMailbox(a)' <=> \E k \in DOMAIN box : k # 1 /\ box[k] = m
    <2>1. ASSUME NEW k \in DOMAIN box, k # 1
          PROVE  k - 1 \in DOMAIN mailbox'[a] /\ mailbox'[a][k - 1] = box[k]
      <3>1. k - 1 \in DOMAIN mailbox'[a] /\ (k - 1) + 1 = k
        BY <1>6, <2>1
      <3> QED
        BY <1>6, <3>1
    <2>2. \A i \in DOMAIN mailbox'[a] : i + 1 # 1
      BY <1>6
    <2> QED
      BY <1>5, <1>6, <2>1, <2>2
  <1>8. \A m : m \in InMailbox(a)' <=> m \in InMailbox(a) /\ m # box[1]
    BY <1>1, <1>3, <1>4, <1>6, <1>7
  <1>9. \A m \in InMailbox(a) : box[1] <= m
    BY <1>1, <1>3, <1>4, <1>6
  <1>10. box[1] \in InMailbox(a)
    BY <1>4, <1>6
  <1> QED
    BY <1>2, <1>6, <1>8, <1>9, <1>10, SameMailbox DEF box

-----------------------------------------------------------------------------
(* Every step is one of Mailboxes, or changes nothing there.               *)
Inboxes == [a \in Actor |-> Inbox(a)]
Invisible == UNCHANGED <<by_ref, Inboxes, Floating, sent>>

LEMMA SameMail ==
    ASSUME UNCHANGED <<mailbox, tasks[Main]>>
    PROVE  /\ \A a : InMailbox(a)' = InMailbox(a)
           /\ \A to : Unrouted(to)' = Unrouted(to)
           /\ Floating' = Floating
  BY DEF InMailbox, Unrouted, IsFor, Floating

LEMMA OpensMaps ==
    ASSUME Typed, RightTasks, Ordered, NEW a \in Actor, Opens(a)
    PROVE  Abstract!Open(a) \/ Invisible
  <1>1. a \notin by_ref /\ sent' = sent /\ (by_ref' = by_ref \/ by_ref' = by_ref \cup {a})
    BY DEF Opens, Typed, TypeOK, RegistryTypeOK
  <1>2. /\ \A b \in Actor : InMailbox(b)' = InMailbox(b) /\ Unrouted(b)' = Unrouted(b)
        /\ Floating' = Floating
    BY SameMail DEF Opens
  <1>3. InMailbox(a) = {} /\ Unrouted(a) = {}
    <2>1. mailbox[a] = <<>> /\ \A i \in DOMAIN tasks[Main] : tasks[Main][i].to # a
      BY DEF Opens, Ordered, Numbered
    <2>2. Unrouted(a) = {}
      BY <2>1, UnroutedIs DEF Recipient
    <2> QED
      BY <2>1, <2>2 DEF InMailbox
  <1>4. \A b \in Actor : Inbox(b)' = Inbox(b)
    BY <1>1, <1>2, <1>3 DEF Inbox
  <1>5. Inboxes' = Inboxes
    BY <1>4 DEF Inboxes
  <1> QED
    BY <1>1, <1>2, <1>5 DEF Abstract!Open, Invisible, Inboxes, Floating

LEMMA ClosesMaps ==
    ASSUME NEW S \in SUBSET by_ref, Closes(S)
    PROVE  Abstract!Close(S)
  <1>1. /\ \A b \in Actor : InMailbox(b)' = InMailbox(b) /\ Unrouted(b)' = Unrouted(b)
        /\ Floating' = Floating
    BY SameMail DEF Closes
  <1>2. \A b \in Actor : Inbox(b)' = IF b \in S THEN {} ELSE Inbox(b)
    BY <1>1 DEF Inbox, Closes
  <1>3. Inboxes' = [b \in Actor |-> IF b \in S THEN {} ELSE Inboxes[b]]
    BY <1>2 DEF Inboxes
  <1> QED
    BY <1>1, <1>3 DEF Abstract!Close, Closes, Inboxes, Floating

LEMMA PostsMaps ==
    ASSUME Typed, RightTasks, NEW to \in Recipient, Posts(to)
    PROVE  Abstract!PostByName \/ (to \in Actor /\ Abstract!Post(to))
  <1>1. /\ \A x \in Recipient :
             Unrouted(x)' = IF x = to THEN Unrouted(x) \cup {sent + 1} ELSE Unrouted(x)
        /\ \A b \in Actor : InMailbox(b)' = InMailbox(b)
        /\ by_ref' = by_ref /\ sent' = sent + 1
    BY PostsAdd, SameMailbox DEF Posts
  <1>2. CASE to \in Name
    <2>1. \A b \in Actor : Inbox(b)' = Inbox(b)
      BY <1>1, <1>2, RecipientAssumption DEF Inbox, Recipient
    <2>2. Inboxes' = Inboxes
      BY <2>1 DEF Inboxes
    <2>3. Floating' = Floating \cup {sent + 1}
      BY <1>1, <1>2 DEF Floating, Recipient
    <2> QED
      BY <1>1, <2>2, <2>3 DEF Abstract!PostByName, Inboxes, Floating
  <1>3. CASE to \in Actor
    <2>1. \A b \in Actor : Inbox(b)' = IF b = to /\ to \in by_ref THEN Inbox(b) \cup {sent + 1}
                                       ELSE Inbox(b)
      BY <1>1 DEF Inbox, Recipient
    <2>2. Inboxes' = IF to \in by_ref THEN [Inboxes EXCEPT ![to] = @ \cup {sent + 1}]
                     ELSE Inboxes
      BY <2>1 DEF Inboxes
    <2>3. \A n \in Name : Unrouted(n)' = Unrouted(n)
      BY <1>1, <1>3, RecipientAssumption DEF Recipient
    <2>4. Floating' = Floating
      BY <2>3 DEF Floating
    <2> QED
      BY <1>1, <1>3, <2>2, <2>4 DEF Abstract!Post, Inboxes, Floating
  <1> QED
    BY <1>2, <1>3 DEF Recipient

LEMMA ReceivesMaps ==
    ASSUME Typed, RightTasks, Ordered, NEW a \in Actor, Receives(a)
    PROVE  Invisible \/ \E m \in Inbox(a) : Abstract!Take(a, m)
  <1> DEFINE m == Head(mailbox[a])
  <1>1. /\ m \in InMailbox(a) /\ (\A x \in InMailbox(a) : m <= x)
        /\ InMailbox(a)' = InMailbox(a) \ {m}
        /\ \A b \in Actor \ {a} : InMailbox(b)' = InMailbox(b)
    BY ReceivesRemove
  <1>2. /\ \A b \in Actor : Unrouted(b)' = Unrouted(b)
        /\ Floating' = Floating /\ by_ref' = by_ref /\ sent' = sent
    BY SameUnrouted DEF Receives, Floating
  <1> HIDE DEF m
  <1>3. /\ \A x \in Unrouted(a) \cup Floating : m < x /\ x \in Nat
        /\ m \in Nat
    BY <1>1, MailBefore DEF Floating, Recipient
  <1>4. m \notin Unrouted(a)
    BY <1>3
  <1>5. CASE a \notin by_ref
    <2>1. \A b \in Actor : Inbox(b)' = Inbox(b)
      BY <1>1, <1>2, <1>5 DEF Inbox
    <2> QED
      BY <1>2, <2>1 DEF Invisible, Inboxes
  <1>6. CASE a \in by_ref
    <2>1. \A b \in Actor : Inbox(b)' = IF b = a THEN Inbox(b) \ {m} ELSE Inbox(b)
      BY <1>1, <1>2, <1>4 DEF Inbox
    <2>2. Inboxes' = [Inboxes EXCEPT ![a] = @ \ {m}]
      BY <2>1 DEF Inboxes
    <2>3. m \in Inbox(a) /\ \A x \in Inbox(a) \cup Floating : m <= x
      BY <1>1, <1>3, <1>6 DEF Inbox
    <2> QED
      BY <1>2, <1>6, <2>2, <2>3 DEF Abstract!Take, Abstract!Earliest, Inboxes, Floating
  <1> QED
    BY <1>5, <1>6

LEMMA RoutesMaps ==
    ASSUME Typed, RightTasks, NamesPointHome, Ordered, Routes
    PROVE  Invisible \/ \E m \in Floating : Abstract!Arrive(m)
  <1>1. PICK h : h = Head(tasks[Main])
    OBVIOUS
  <1> DEFINE m == h.message
  <1>2. /\ h.to \in Recipient
        /\ m \in Unrouted(h.to)
        /\ \A x \in Recipient : \A n \in Unrouted(x) : m <= n
        /\ \A x \in Recipient :
             Unrouted(x)' = IF x = h.to THEN Unrouted(x) \ {m} ELSE Unrouted(x)
    BY <1>1, RoutesRemove
  <1>3. \A a \in Actor : InMailbox(a)' = IF a = Lookup(h.to) THEN InMailbox(a) \cup {m}
                                         ELSE InMailbox(a)
    BY <1>1, RoutesDeliver
  <1>4. by_ref' = by_ref /\ sent' = sent
    BY DEF Routes
  <1> HIDE DEF m
  <1>5. CASE h.to \in Actor
    <2>1. Lookup(h.to) = IF h.to \in by_ref THEN h.to ELSE NoActor
      BY <1>5, RecipientAssumption DEF Lookup
    <2>2. \A a \in Actor : Inbox(a)' = Inbox(a)
      BY <1>2, <1>3, <1>4, <2>1, ActorAssumption DEF Inbox, Recipient
    <2>3. \A n \in Name : Unrouted(n)' = Unrouted(n)
      BY <1>2, <1>5, RecipientAssumption DEF Recipient
    <2> QED
      BY <1>4, <2>2, <2>3 DEF Invisible, Inboxes, Floating
  <1>6. CASE h.to \in Name
    <2>1. m \in Floating /\ Abstract!Earliest(m, Floating)
      BY <1>2, <1>6 DEF Floating, Recipient, Abstract!Earliest
    <2>2. Floating' = Floating \ {m}
      <3>1. \A n \in Name : n # h.to => m \notin Unrouted(n)
        BY <1>1, <1>2, <1>6, MessageOnce DEF m, Recipient
      <3> QED
        BY <1>2, <1>6, <3>1 DEF Floating, Recipient
    <2>3. \A a \in Actor : Unrouted(a)' = Unrouted(a)
      BY <1>2, <1>6, RecipientAssumption DEF Recipient
    <2>4. CASE Lookup(h.to) = NoActor
      <3>1. \A a \in Actor : Inbox(a)' = Inbox(a)
        BY <1>3, <1>4, <2>3, <2>4, ActorAssumption DEF Inbox
      <3> QED
        BY <1>4, <2>1, <2>2, <3>1 DEF Abstract!Arrive, Inboxes, Floating
    <2>5. CASE Lookup(h.to) # NoActor
      <3>1. PICK b \in Actor : b = Lookup(h.to) /\ b \in by_ref
        BY <1>6, <2>5 DEF Lookup, NamesPointHome, Typed, TypeOK, RegistryTypeOK
      <3>2. \A a \in Actor : Inbox(a)' = IF a = b THEN Inbox(a) \cup {m} ELSE Inbox(a)
        BY <1>3, <1>4, <2>3, <3>1 DEF Inbox
      <3>3. Inboxes' = [Inboxes EXCEPT ![b] = @ \cup {m}]
        BY <3>2 DEF Inboxes
      <3> QED
        BY <1>4, <2>1, <2>2, <3>1, <3>3 DEF Abstract!Arrive, Inboxes, Floating
    <2> QED
      BY <2>4, <2>5
  <1> QED
    BY <1>2, <1>5, <1>6 DEF Recipient

(* Sends, queues, mailboxes, crashes and restarts keep what Mailboxes      *)
(* promises: an actor receives in the order of the send() calls, each      *)
(* message once, and loses one only when it is removed itself or when the  *)
(* name in front of the message leads to nobody.                           *)
THEOREM ImplementsMailboxes == Spec => MailboxesSpec
  <1>1. Init => Abstract!Init
    BY RecipientAssumption DEF Init, RegistryInit, ThreadsInit, ActorsInit, Abstract!Init, Inbox, Unrouted, Thread
  <1>2. Typed /\ RightTasks /\ NamesPointHome /\ Ordered /\ [Next]_vars
          => [Abstract!Next]_(Abstract!vars)
    <2> SUFFICES ASSUME Typed, RightTasks, NamesPointHome, Ordered, [Next]_vars
                 PROVE  Abstract!Next \/ Invisible
      BY DEF Abstract!vars, Invisible, Inboxes, Floating
    <2>1. Steps
      BY EveryStep
    <2>2. CASE Still
      <3>1. by_ref' = by_ref /\ Inboxes' = Inboxes /\ Floating' = Floating /\ sent' = sent
        BY <2>2, SameMail DEF Still, Inbox, Inboxes
      <3> QED
        BY <3>1 DEF Invisible
    <2>3. CASE Routes
      BY <2>3, RoutesMaps DEF Abstract!Next, Floating
    <2>4. ASSUME NEW a \in Actor, Opens(a) \/ Receives(a)
          PROVE  Abstract!Next \/ Invisible
      BY <2>4, OpensMaps, ReceivesMaps DEF Abstract!Next
    <2>5. ASSUME NEW S \in SUBSET by_ref, Closes(S)
          PROVE  Abstract!Next
      BY <2>5, ClosesMaps DEF Abstract!Next
    <2>6. ASSUME NEW to \in Recipient, Posts(to)
          PROVE  Abstract!Next
      BY <2>6, PostsMaps DEF Abstract!Next
    <2> QED
      BY <2>1, <2>2, <2>3, <2>4, <2>5, <2>6 DEF Steps, Recipient
  <1> QED
    BY <1>1, <1>2, TypedAlways, TasksAlwaysRight, NamesAlwaysLive, AlwaysOrdered, PTL
    DEF Spec, MailboxesSpec, Abstract!Spec
=============================================================================
