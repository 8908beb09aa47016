---------------------------- MODULE ActorSystem ----------------------------
(***************************************************************************)
(* The threads of a phactor process, the actors they run and the tasks     *)
(* they exchange.  Worker threads create, run and resume actors; the main  *)
(* thread runs the script and then routes every message.  The tables and   *)
(* the supervision trees are those of Registry, whose operators the        *)
(* actions below conjoin.                                                  *)
(*                                                                         *)
(* One action is one critical section, or one stretch of code that touches *)
(* nothing another thread can see.  PHP code runs on a thread until it     *)
(* blocks, returns or throws; what it may call in the meantime is given by *)
(* the constants.                                                          *)
(***************************************************************************)
EXTENDS Registry, Sequences, FiniteSets

CONSTANTS
    Worker,         \* the worker threads (thread_offset 0 .. thread_count - 1)
    Main,           \* the main thread (thread_offset thread_count)
    FirstWorker,    \* the worker with offset 0
    Creates,        \* <<who, a, s>>: who creates a, as a new worker of s or freely
    Promotes,       \* <<who, a>>: who calls new Supervisor(a)
    Adds,           \* <<who, s, w>>: who calls addWorker(w) on supervisor s
    Sends,          \* <<a, to>>: a sends to an actor or a name
    MayThrow,       \* actors whose constructor or receive() may throw
    MayReturn,      \* actors whose receive() may return
    MayShutdown,    \* who may call ActorSystem::shutdown()
    MaxStreak,      \* restart_count_streak_max
    MaxSends,       \* bound on the number of send() calls
    MaxCrashes      \* bound on the number of uncaught exceptions

Who == Actor \cup {Main}
Thread == Worker \cup {Main}

ASSUME ThreadAssumption == FirstWorker \in Worker /\ Main \notin Worker \cup Actor
ASSUME RecipientAssumption == Actor \cap Name = {}    \* an ActorRef or a string
ASSUME CallAssumption ==
    /\ Creates \subseteq Who \X Actor \X (Actor \cup {NoActor})
    /\ Promotes \subseteq Who \X Actor
    /\ Adds \subseteq Who \X Actor \X Actor
    /\ Sends \subseteq Actor \X (Actor \cup Name)
ASSUME BoundAssumption == MaxSends \in Nat /\ MaxCrashes \in Nat

VARIABLES
    state,          \* actor->state
    mailbox,        \* actor->mailbox
    thread_offset,  \* actor->thread_offset, 0 until the creator writes it
    streak,         \* actor->restart_count_streak
    context,        \* what actor->internal->context would resume
    heap,           \* whether the ph_actor_t has been freed
    tasks,          \* the task queue of each thread
    actor_removals, \* the actors each worker thread has to free
    pc,             \* where each thread is
    current,        \* the actor it runs, or whose crash it handles
    boss,           \* the supervisor it read when it began to handle a crash
    todo,           \* the workers it still has to restart
    newborn,        \* the actor it is creating, between the two locked sections
    new_actor_ref,  \* the actor it has created and whose reference it has still to read
    shutdown,       \* actor_system->shutdown
    sent, crashes,  \* what MaxSends and MaxCrashes bound
    raced,          \* actors whose thread_offset was read before it was written
    fault           \* the undefined behaviour or kill that ended the process

objectVars == <<state, streak, context, heap>>
queueVars == <<mailbox, tasks, actor_removals, thread_offset>>
threadVars == <<pc, current, boss, todo, newborn>>
boundVars == <<sent, crashes>>
restVars == <<new_actor_ref, shutdown, raced, fault>>
vars == <<registryVars, objectVars, queueVars, threadVars, boundVars, restVars>>

State == {"SPAWNING", "IDLE", "ACTIVE", "TERMINATED", "RESTARTING", "SHUTTING_DOWN"}
(* none: no internal object; blank: reset or never started; saved: left by *)
(* receiveBlock(); stale: a saved one that has already been resumed.       *)
Context == {"none", "blank", "saved", "stale"}
Fault == {"none", "assert", "wildJump", "nullMessage", "useAfterFree", "killed"}
PC == {"script", "loop", "pop", "check", "ctor", "workers", "start", "receive",
       "swap", "resume", "crash", "walking", "spin", "join", "ended"}
Message == 1 .. MaxSends

SendTask(to, m) == [type |-> "SEND_MESSAGE", to |-> to, message |-> m]
ResumeTask(a) == [type |-> "RESUME_ACTOR", actor |-> a]
NewTask(a) == [type |-> "NEW_ACTOR", actor |-> a]
FreeTask(a) == [type |-> "FREE_VM_STACK", actor |-> a]
Task == [type : {"SEND_MESSAGE"}, to : Actor \cup Name, message : Message]
        \cup [type : {"RESUME_ACTOR", "NEW_ACTOR", "FREE_VM_STACK"}, actor : Actor]

(* ph_actor_create: what calloc leaves at zero, and the rest.              *)
ActorsInit ==
    /\ state = [a \in Actor |-> "SPAWNING"]
    /\ mailbox = [a \in Actor |-> <<>>]
    /\ thread_offset = [a \in Actor |-> FirstWorker]
    /\ streak = [a \in Actor |-> 0]
    /\ context = [a \in Actor |-> "none"]
    /\ heap = [a \in Actor |-> "live"]

(* initialise_actor_system has started the workers, and the script goes on.*)
ThreadsInit ==
    /\ tasks = [t \in Thread |-> <<>>]
    /\ actor_removals = [t \in Worker |-> {}]
    /\ pc = [t \in Thread |-> IF t = Main THEN "script" ELSE "loop"]
    /\ current = [t \in Thread |-> NoActor]
    /\ boss = [t \in Thread |-> NoActor]
    /\ todo = [t \in Thread |-> {}]
    /\ newborn = [t \in Thread |-> NoActor]
    /\ new_actor_ref = [t \in Thread |-> NoActor]
    /\ shutdown = FALSE

Init ==
    /\ RegistryInit
    /\ ActorsInit
    /\ ThreadsInit
    /\ sent = 0
    /\ crashes = 0
    /\ raced = {}
    /\ fault = "none"

-----------------------------------------------------------------------------
Freed == {a \in Actor : heap[a] = "freed"}
Unscheduled == {newborn[t] : t \in Thread} \ {NoActor}

(* The actors the next step of t reads or writes through a pointer it kept.*)
Touched(t) ==
    ({newborn[t], new_actor_ref[t]} \cup
     CASE pc[t] \in {"ctor", "workers", "start", "receive", "swap", "resume"} -> {current[t]}
       [] pc[t] = "crash" -> {current[t], boss[t]}
       [] OTHER -> {}) \cap Actor

Runs(t) == fault = "none" /\ Touched(t) \cap Freed = {}
At(t, label) == /\ pc[t] = label
                /\ newborn[t] = NoActor
                /\ new_actor_ref[t] = NoActor
                /\ Runs(t)
RunsPhp(t) == /\ pc[t] \in {"script", "ctor", "receive"}
              /\ newborn[t] = NoActor
              /\ new_actor_ref[t] = NoActor
              /\ Runs(t)
Caller(t) == IF t = Main THEN Main ELSE current[t]

Goto(t, label) == pc' = [pc EXCEPT ![t] = label]
Rest(t, label) == Goto(t, label) /\ current' = [current EXCEPT ![t] = NoActor]
Enqueue(t, s) == tasks' = [tasks EXCEPT ![t] = @ \o s]

(* A search of actors_by_name or actors_by_ref.                            *)
Lookup(to) == IF to \in Name THEN by_name[to]
              ELSE IF to \in by_ref THEN to ELSE NoActor

(* ph_actor_mark_for_removal, once for each actor taken out of the table.  *)
Constructed(S) == {a \in S : context[a] # "none"}
ToFree(S) == S
AnyThread(a) == FirstWorker
RemovalThread(a) == thread_offset[a]
MarkForRemoval(S) ==
    /\ state' = [a \in Actor |-> IF a \in S THEN "SHUTTING_DOWN" ELSE state[a]]
    /\ actor_removals' = [t \in Worker |->
           actor_removals[t] \cup {a \in ToFree(S) : RemovalThread(a) = t}]
    /\ raced' = raced \cup (S \cap Unscheduled)

(* ph_actor_terminate_workers: the actor and everything below it.          *)
Terminated(a) == [x \in Actor |-> IF x \in Subtree(a) THEN "TERMINATED" ELSE state[x]]

(* ph_supervisor_one_for_one: reset the actor and queue its new start.     *)
ResetOnly(w) == <<FreeTask(w)>>
RestartTasks(w) == IF context[w] = "none" THEN <<NewTask(w)>>
                   ELSE <<FreeTask(w), NewTask(w)>>
RestartThread(w) == thread_offset[w]
OneForOne(w) ==
    /\ Enqueue(RestartThread(w), RestartTasks(w))
    /\ context' = [context EXCEPT ![w] = IF @ = "none" THEN "none" ELSE "blank"]
    /\ state' = [state EXCEPT ![w] = "RESTARTING"]
    /\ raced' = raced \cup ({w} \cap Unscheduled)

-----------------------------------------------------------------------------
(* PHP code: what the script, a constructor or receive() may call.         *)

(* ph_actor_ref_create up to the unlock.  A refused actor is freed.        *)
Create(t) ==
    \E a \in Actor, s \in Actor \cup {NoActor} :
        /\ RunsPhp(t)
        /\ <<Caller(t), a, s>> \in Creates
        /\ Insert(a, s)
        /\ IF Refused(a, s)
           THEN heap' = [heap EXCEPT ![a] = "freed"] /\ UNCHANGED newborn
           ELSE newborn' = [newborn EXCEPT ![t] = a] /\ UNCHANGED heap
        /\ UNCHANGED <<state, streak, context, queueVars, pc, current, boss, todo,
                       boundVars, restVars>>

(* ph_actor_ref_create after the unlock: pick a worker and queue the task. *)
Schedule(t) ==
    \E a \in Actor, o \in Worker :
        /\ newborn[t] = a
        /\ Runs(t)
        /\ thread_offset' = [thread_offset EXCEPT ![a] = o]
        /\ Enqueue(o, <<NewTask(a)>>)
        /\ newborn' = [newborn EXCEPT ![t] = NoActor]
        /\ new_actor_ref' = [new_actor_ref EXCEPT ![t] = a]
        /\ UNCHANGED <<registryVars, objectVars, mailbox, actor_removals, pc, current,
                       boss, todo, boundVars, shutdown, raced, fault>>

(* Its end: the new actor, which may be running by now, is asked for its   *)
(* reference once more, for the property of the ActorRef.                  *)
WriteRef(t) ==
    /\ new_actor_ref[t] # NoActor
    /\ Runs(t)
    /\ new_actor_ref' = [new_actor_ref EXCEPT ![t] = NoActor]
    /\ UNCHANGED <<registryVars, objectVars, queueVars, threadVars, boundVars,
                   shutdown, raced, fault>>

Promote(t) ==
    \E a \in Actor :
        /\ RunsPhp(t)
        /\ <<Caller(t), a>> \in Promotes
        /\ SupervisorConstruct(a)
        /\ UNCHANGED <<objectVars, queueVars, threadVars, boundVars, restVars>>

(* The caller of an addWorker() whose walk does not end stays there.       *)
Add(t) ==
    \E s, w \in Actor :
        /\ RunsPhp(t)
        /\ <<Caller(t), s, w>> \in Adds
        /\ AddWorker(s, w)
        /\ IF lock' = "walking" THEN Goto(t, "walking") ELSE UNCHANGED pc
        /\ UNCHANGED <<objectVars, queueVars, current, boss, todo, newborn, boundVars,
                       restVars>>

(* Actor::send: a sender that is no longer registered sends nothing.       *)
Send(t) ==
    \E to \in Actor \cup Name :
        /\ RunsPhp(t)
        /\ lock = "free"
        /\ <<Caller(t), to>> \in Sends
        /\ to \in Actor => to \in created
        /\ current[t] \in by_ref
        /\ sent < MaxSends
        /\ sent' = sent + 1
        /\ Enqueue(Main, <<SendTask(to, sent + 1)>>)
        /\ UNCHANGED <<registryVars, objectVars, mailbox, actor_removals, thread_offset,
                       threadVars, crashes, restVars>>

(* ActorSystem::shutdown().                                                *)
Shutdown(t) ==
    /\ RunsPhp(t)
    /\ Caller(t) \in MayShutdown
    /\ ~shutdown
    /\ shutdown' = TRUE
    /\ UNCHANGED <<registryVars, objectVars, queueVars, threadVars, boundVars,
                   new_actor_ref, raced, fault>>

(* receive_block in a constructor that another thread has made ACTIVE: the *)
(* swap would go back to where this thread's loop was some task ago.       *)
BlockInCtor(t) ==
    /\ At(t, "ctor")
    /\ lock = "free"
    /\ current[t] \in by_ref
    /\ state[current[t]] = "ACTIVE"
    /\ fault' = "wildJump"
    /\ UNCHANGED <<registryVars, objectVars, queueVars, threadVars, boundVars,
                   new_actor_ref, shutdown, raced>>

(* receiveBlock() in receive(): idle, and queue its own wake-up if mail is *)
(* waiting.  An actor that is not registered, or that has been terminated  *)
(* or is shutting down, gets NULL back at once: a step that changes nothing.*)
NoTasks(a) == <<>>
BlockTasks(a) == IF mailbox[a] = <<>> THEN <<>> ELSE <<ResumeTask(a)>>
ReceiveBlock(t) ==
    LET a == current[t] IN
    /\ At(t, "receive")
    /\ lock = "free"
    /\ a \in by_ref
    /\ state[a] = "ACTIVE"
    /\ state' = [state EXCEPT ![a] = "IDLE"]
    /\ streak' = [streak EXCEPT ![a] = 0]
    /\ Enqueue(thread_offset[a], BlockTasks(a))
    /\ Goto(t, "swap")
    /\ UNCHANGED <<registryVars, context, heap, mailbox, actor_removals, thread_offset,
                   current, boss, todo, newborn, boundVars, restVars>>

(* ph_mcontext_swap: save the actor and go back to the thread's own loop.  *)
Swap(t) ==
    /\ At(t, "swap")
    /\ context' = [context EXCEPT ![current[t]] = "saved"]
    /\ Rest(t, "loop")
    /\ UNCHANGED <<registryVars, state, streak, heap, queueVars, boss, todo, newborn,
                   boundVars, restVars>>

(* An exception leaves the constructor or receive(): its own, or the one   *)
(* receiveBlock() throws in an actor that another thread is restarting.    *)
(* The first part of ph_actor_crash terminates the actor and its workers;  *)
(* it cannot pass an actor that a renumbering walk holds for ever.         *)
BlockThrows(t) == /\ pc[t] = "receive"
                  /\ lock = "free"
                  /\ current[t] \in by_ref
                  /\ state[current[t]] \in {"SPAWNING", "RESTARTING"}
Crash(t, a) ==
    /\ a \notin Below(a)
    /\ state' = Terminated(a)
    /\ current' = [current EXCEPT ![t] = a]
    /\ boss' = [boss EXCEPT ![t] = supervisor[a]]
    /\ Goto(t, "crash")

Throw(t) ==
    /\ At(t, "ctor") \/ At(t, "receive")
    /\ current[t] \in MayThrow \/ BlockThrows(t)
    /\ crashes < MaxCrashes
    /\ crashes' = crashes + 1
    /\ Crash(t, current[t])
    /\ UNCHANGED <<registryVars, streak, context, heap, queueVars, todo, newborn, sent,
                   restVars>>

(* The constructor returns; a restarting supervisor restarts its workers.  *)
CtorReturn(t) ==
    LET a == current[t] IN
    /\ At(t, "ctor")
    /\ IF a \in supervision /\ state[a] = "RESTARTING"
       THEN Goto(t, "workers") /\ todo' = [todo EXCEPT ![t] = workers[a]]
       ELSE Goto(t, "start") /\ UNCHANGED todo
    /\ UNCHANGED <<registryVars, objectVars, queueVars, current, boss, newborn,
                   boundVars, restVars>>

(* receive() returns: the actor leaves the table.                          *)
Return(t) ==
    LET a == current[t] IN
    /\ At(t, "receive")
    /\ a \in MayReturn
    /\ Remove(a)
    /\ MarkForRemoval(Gone(a))
    /\ Rest(t, "loop")
    /\ UNCHANGED <<streak, context, heap, mailbox, tasks, thread_offset, boss, todo,
                   newborn, boundVars, new_actor_ref, shutdown, fault>>

ScriptEnds ==
    /\ At(Main, "script")
    /\ Goto(Main, "loop")
    /\ UNCHANGED <<registryVars, objectVars, queueVars, current, boss, todo, newborn,
                   boundVars, restVars>>

(* exit_status 255: scheduler_blocking sends SIGKILL.                      *)
ScriptFails ==
    /\ At(Main, "script")
    /\ Main \in MayThrow
    /\ fault' = "killed"
    /\ UNCHANGED <<registryVars, objectVars, queueVars, threadVars, boundVars,
                   new_actor_ref, shutdown, raced>>

-----------------------------------------------------------------------------
(* The rest of a crash, in ph_actor_crash and ph_supervisor_handle_crash.  *)

CrashRemove(t) ==
    LET a == current[t] IN
    /\ At(t, "crash")
    /\ boss[t] = NoActor
    /\ Remove(a)
    /\ MarkForRemoval(Gone(a))
    /\ Rest(t, "loop")
    /\ UNCHANGED <<streak, context, heap, mailbox, tasks, thread_offset, boss, todo,
                   newborn, boundVars, new_actor_ref, shutdown, fault>>

(* ++restart_count_streak == restart_count_streak_max                      *)
GivesUp(a) == streak[a] + 1 = MaxStreak

CrashRestart(t) ==
    LET a == current[t] IN
    /\ At(t, "crash")
    /\ boss[t] # NoActor
    /\ ~GivesUp(a)
    /\ streak' = [streak EXCEPT ![a] = @ + 1]
    /\ OneForOne(a)
    /\ Rest(t, "loop")
    /\ boss' = [boss EXCEPT ![t] = NoActor]
    /\ UNCHANGED <<registryVars, heap, mailbox, actor_removals, thread_offset, todo,
                   newborn, boundVars, new_actor_ref, shutdown, fault>>

(* The limit is reached: the supervisor crashes in its turn.               *)
CrashEscalate(t) ==
    LET a == current[t] IN
    /\ At(t, "crash")
    /\ boss[t] # NoActor
    /\ GivesUp(a)
    /\ streak' = [streak EXCEPT ![a] = @ + 1]
    /\ Crash(t, boss[t])
    /\ UNCHANGED <<registryVars, context, heap, queueVars, todo, newborn, boundVars,
                   restVars>>

(* One worker of the restarted supervisor; the table is read as it is now. *)
RestartWorker(t) ==
    /\ At(t, "workers")
    /\ \E w \in todo[t] \cap workers[current[t]] :
         /\ OneForOne(w)
         /\ todo' = [todo EXCEPT ![t] = @ \ {w}]
    /\ UNCHANGED <<registryVars, streak, heap, mailbox, actor_removals, thread_offset,
                   pc, current, boss, newborn, boundVars, new_actor_ref, shutdown, fault>>

WorkersRestarted(t) ==
    /\ At(t, "workers")
    /\ todo[t] \cap workers[current[t]] = {}
    /\ todo' = [todo EXCEPT ![t] = {}]
    /\ Goto(t, "start")
    /\ UNCHANGED <<registryVars, objectVars, queueVars, current, boss, newborn,
                   boundVars, restVars>>

-----------------------------------------------------------------------------
(* message_handling_loop.                                                  *)

(* ph_actor_free, for every actor in the thread's actor_removals.          *)
FreeActors(t) ==
    /\ heap' = [a \in Actor |-> IF a \in actor_removals[t] THEN "freed" ELSE heap[a]]
    /\ actor_removals' = [actor_removals EXCEPT ![t] = {}]

PerformActorRemovals(t) ==
    /\ At(t, "loop")
    /\ Goto(t, "pop")
    /\ IF t = Main THEN UNCHANGED <<heap, actor_removals>>
       ELSE FreeActors(t)
    /\ UNCHANGED <<registryVars, state, streak, context, mailbox, tasks, thread_offset,
                   current, boss, todo, newborn, boundVars, restVars>>

(* The head of t's queue is a task of this type.                           *)
Pops(t, type) == /\ At(t, "pop")
                 /\ tasks[t] # <<>>
                 /\ Head(tasks[t]).type = type
Dequeue(t) == tasks' = [tasks EXCEPT ![t] = Tail(@)]

(* send_message and send_local_message; unknown recipients drop the task.  *)
AlwaysWakes(a) == IF state[a] = "IDLE" THEN <<ResumeTask(a)>> ELSE <<>>
WakeTasks(a) == IF state[a] = "IDLE" /\ mailbox[a] = <<>> THEN <<ResumeTask(a)>> ELSE <<>>
PushedFirst(q, m) == <<m>> \o q
PushedTwice(q, m) == q \o <<m, m>>
Pushed(q, m) == Append(q, m)
HandleSend(t) ==
    LET task == Head(tasks[t])
        a == Lookup(task.to)
    IN
    /\ Pops(t, "SEND_MESSAGE")
    /\ lock = "free"
    /\ IF a = NoActor
       THEN Dequeue(t) /\ UNCHANGED mailbox
       ELSE /\ mailbox' = [mailbox EXCEPT ![a] = Pushed(@, task.message)]
            /\ tasks' = [u \in Thread |->
                           (IF u = t THEN Tail(tasks[u]) ELSE tasks[u])
                           \o (IF u = thread_offset[a] THEN WakeTasks(a) ELSE <<>>)]
    /\ Goto(t, "loop")
    /\ UNCHANGED <<registryVars, objectVars, actor_removals, thread_offset, current,
                   boss, todo, newborn, boundVars, restVars>>

(* A resume task: look the actor up, and jump to what its context holds.   *)
JumpFault(a) == IF a \notin by_ref THEN "assert"
                ELSE IF context[a] # "saved" THEN "wildJump" ELSE "none"
HandleResume(t) ==
    LET a == Head(tasks[t]).actor IN
    /\ Pops(t, "RESUME_ACTOR")
    /\ lock = "free"
    /\ Dequeue(t)
    /\ fault' = JumpFault(a)
    /\ IF JumpFault(a) = "none"
       THEN /\ context' = [context EXCEPT ![a] = "stale"]
            /\ current' = [current EXCEPT ![t] = a]
            /\ Goto(t, "resume")
       ELSE UNCHANGED <<context, current, pc>>
    /\ UNCHANGED <<registryVars, state, streak, heap, mailbox, actor_removals,
                   thread_offset, boss, todo, newborn, boundVars,
                   new_actor_ref, shutdown, raced>>

(* The end of receive_block, on the actor's own stack again.               *)
Resume(t) ==
    LET a == current[t] IN
    /\ At(t, "resume")
    /\ state' = [state EXCEPT ![a] = "ACTIVE"]
    /\ IF mailbox[a] = <<>>
       THEN fault' = "nullMessage" /\ UNCHANGED mailbox
       ELSE mailbox' = [mailbox EXCEPT ![a] = Tail(@)] /\ UNCHANGED fault
    /\ Goto(t, "receive")
    /\ UNCHANGED <<registryVars, streak, context, heap, tasks, actor_removals,
                   thread_offset, current, boss, todo, newborn, boundVars,
                   new_actor_ref, shutdown, raced>>

(* phactor_actor_ctor: a new internal object, whose C stack will begin at  *)
(* process_message_handler.                                                *)
WithNewInternal(a) == [context EXCEPT ![a] = "blank"]

(* new_actor: a fresh object, unless the actor has been removed.           *)
HandleNew(t) ==
    LET a == Head(tasks[t]).actor IN
    /\ Pops(t, "NEW_ACTOR")
    /\ lock = "free"
    /\ Dequeue(t)
    /\ IF a \in by_ref
       THEN /\ context' = WithNewInternal(a)
            /\ current' = [current EXCEPT ![t] = a]
            /\ Goto(t, "ctor")
       ELSE Goto(t, "loop") /\ UNCHANGED <<context, current>>
    /\ UNCHANGED <<registryVars, state, streak, heap, mailbox, actor_removals,
                   thread_offset, boss, todo, newborn, boundVars, restVars>>

(* ph_vmcontext_clear walks VM stack pages that are freed with the actor.  *)
HandleFree(t) ==
    LET a == Head(tasks[t]).actor IN
    /\ Pops(t, "FREE_VM_STACK")
    /\ Dequeue(t)
    /\ fault' = IF heap[a] = "freed" THEN "useAfterFree" ELSE "none"
    /\ Goto(t, "loop")
    /\ UNCHANGED <<registryVars, objectVars, mailbox, actor_removals, thread_offset,
                   current, boss, todo, newborn, boundVars,
                   new_actor_ref, shutdown, raced>>

(* process_message_handler, before it calls receive().                     *)
StartReceive(t) ==
    /\ At(t, "start")
    /\ state' = [state EXCEPT ![current[t]] = "ACTIVE"]
    /\ Goto(t, "receive")
    /\ UNCHANGED <<registryVars, streak, context, heap, queueVars, current, boss, todo,
                   newborn, boundVars, restVars>>

FindNothing(t) ==
    /\ At(t, "pop")
    /\ tasks[t] = <<>>
    /\ Goto(t, "check")
    /\ UNCHANGED <<registryVars, objectVars, queueVars, current, boss, todo, newborn,
                   boundVars, restVars>>

CheckShutdown(t) ==
    /\ At(t, "check")
    /\ Goto(t, IF shutdown THEN "spin" ELSE "loop")
    /\ UNCHANGED <<registryVars, objectVars, queueVars, current, boss, todo, newborn,
                   boundVars, restVars>>

-----------------------------------------------------------------------------
(* The end.  A worker at "spin" has counted itself in finished_thread_count *)
(* and waits for the main thread, which counts itself after the workers.   *)
FinishedThreads == {t \in Worker : pc[t] \in {"spin", "ended"}}
                   \cup {t \in {Main} : pc[t] \in {"join", "ended"}}
AllThreadsFinished == FinishedThreads = Thread
OtherThreadsFinished == FinishedThreads = Worker

(* by_name is freed before by_ref: a named worker that is removed because  *)
(* its supervisor is visited first is then looked up in freed memory.      *)
NamedWorkers == {w \in by_ref : supervisor[w] # NoActor /\ NameOf[w] # NoName}
DestroyFaults == IF NamedWorkers = {} THEN {"none"} ELSE {"none", "useAfterFree"}
SchedulerEnds ==
    /\ At(Main, "spin")
    /\ OtherThreadsFinished
    /\ DestroyTables
    /\ MarkForRemoval(by_ref)
    /\ fault' \in DestroyFaults
    /\ Goto(Main, "join")
    /\ UNCHANGED <<streak, context, heap, mailbox, tasks, thread_offset, current, boss,
                   todo, newborn, boundVars, new_actor_ref, shutdown>>

FinalRemovals(t) ==
    /\ At(t, "spin")
    /\ AllThreadsFinished
    /\ FreeActors(t)
    /\ Goto(t, "ended")
    /\ UNCHANGED <<registryVars, state, streak, context, mailbox, tasks, thread_offset,
                   current, boss, todo, newborn, boundVars, restVars>>

Join ==
    /\ At(Main, "join")
    /\ \A t \in Worker : pc[t] = "ended"
    /\ Goto(Main, "ended")
    /\ UNCHANGED <<registryVars, objectVars, queueVars, current, boss, todo, newborn,
                   boundVars, restVars>>

(* Its use is undefined; the model stops there.                            *)
TouchFreed(t) ==
    /\ fault = "none"
    /\ Touched(t) \cap Freed # {}
    /\ fault' = "useAfterFree"
    /\ UNCHANGED <<registryVars, objectVars, queueVars, threadVars, boundVars,
                   new_actor_ref, shutdown, raced>>

-----------------------------------------------------------------------------
Php(t) ==
    \/ Create(t) \/ Schedule(t) \/ WriteRef(t)
    \/ Promote(t) \/ Add(t) \/ Send(t) \/ Shutdown(t)
    \/ BlockInCtor(t) \/ ReceiveBlock(t) \/ Swap(t) \/ Throw(t) \/ CtorReturn(t) \/ Return(t)

CrashHandling(t) ==
    \/ CrashRemove(t) \/ CrashRestart(t) \/ CrashEscalate(t)
    \/ RestartWorker(t) \/ WorkersRestarted(t)

Loop(t) ==
    \/ PerformActorRemovals(t)
    \/ HandleSend(t) \/ HandleResume(t) \/ HandleNew(t) \/ HandleFree(t)
    \/ Resume(t) \/ StartReceive(t) \/ FindNothing(t) \/ CheckShutdown(t)

ThreadStep(t) == Php(t) \/ CrashHandling(t) \/ Loop(t) \/ TouchFreed(t)
WorkerEnds(t) == FinalRemovals(t)
MainStep == ScriptEnds \/ SchedulerEnds \/ Join

Next ==
    \/ \E t \in Thread : ThreadStep(t)
    \/ \E t \in Worker : WorkerEnds(t)
    \/ MainStep
    \/ ScriptFails

Spec == Init /\ [][Next]_vars

(* The operating system runs every thread, and PHP code does not loop for  *)
(* ever between two calls.                                                 *)
Fairness ==
    /\ \A t \in Worker : WF_vars(ThreadStep(t) \/ WorkerEnds(t))
    /\ WF_vars(ThreadStep(Main) \/ MainStep)

-----------------------------------------------------------------------------
ObjectTypes ==
    /\ state \in [Actor -> State]
    /\ streak \in [Actor -> Nat]
    /\ context \in [Actor -> Context]
    /\ heap \in [Actor -> {"live", "freed"}]

QueueTypes ==
    /\ mailbox \in [Actor -> Seq(Message)]
    /\ tasks \in [Thread -> Seq(Task)]
    /\ actor_removals \in [Worker -> SUBSET Actor]
    /\ thread_offset \in [Actor -> Worker]

ThreadTypes ==
    /\ pc \in [Thread -> PC]
    /\ current \in [Thread -> Actor \cup {NoActor}]
    /\ boss \in [Thread -> Actor \cup {NoActor}]
    /\ todo \in [Thread -> SUBSET Actor]
    /\ newborn \in [Thread -> Actor \cup {NoActor}]

BoundTypes == sent \in 0 .. MaxSends /\ crashes \in 0 .. MaxCrashes

RestTypes ==
    /\ new_actor_ref \in [Thread -> Actor \cup {NoActor}]
    /\ shutdown \in BOOLEAN
    /\ raced \subseteq Actor
    /\ fault \in Fault

TypeOK == RegistryTypeOK /\ ObjectTypes /\ QueueTypes /\ ThreadTypes /\ BoundTypes /\ RestTypes

Queued(t, task) == \E i \in DOMAIN tasks[t] : tasks[t][i] = task

(* An idle actor with mail is about to be resumed: whatever the order of   *)
(* sends, receiveBlock() calls, crashes and restarts, no wake-up is lost.  *)
NoLostWakeup ==
    \A a \in Actor : state[a] = "IDLE" /\ mailbox[a] # <<>> /\ fault = "none" =>
        \E t \in Thread : Queued(t, ResumeTask(a)) \/ (pc[t] = "resume" /\ current[t] = a)

(* An actor that was created is in the table, or waits in exactly one      *)
(* thread's actor_removals, or has been freed; it is never freed twice and *)
(* never freed while a lookup can still find it.                           *)
OwnedOnce ==
    \A a \in Actor :
        /\ \A t, u \in Worker :
              a \in actor_removals[t] \cap actor_removals[u] => t = u
        /\ a \in by_ref => heap[a] = "live" /\ \A t \in Worker : a \notin actor_removals[t]
        /\ heap[a] = "freed" => \A t \in Worker : a \notin actor_removals[t]
        /\ a \in created => \/ a \in by_ref
                           \/ heap[a] = "freed"
                           \/ \E t \in Worker : a \in actor_removals[t]

(* Unless its thread_offset was read too early, an actor is queued and run *)
(* by its own thread only, which is also the only one that frees it.       *)
Pinned ==
    \A a \in Actor \ raced, t \in Thread : t # thread_offset[a] =>
        /\ current[t] = a => pc[t] = "crash"
        /\ t \in Worker => a \notin actor_removals[t]
        /\ \A task \in {ResumeTask(a), NewTask(a), FreeTask(a)} : ~Queued(t, task)

(* An actor is never freed under the PHP code that runs it, although any   *)
(* thread may remove it at any time.                                       *)
RunningNotFreed ==
    \A t \in Thread :
        pc[t] \in {"ctor", "workers", "start", "receive", "swap", "resume"} =>
            current[t] \in raced \/ heap[current[t]] = "live"

-----------------------------------------------------------------------------
(* Properties of scenarios in which no actor is removed under another one. *)

(* None of these faults happens: a resume of an actor that is gone,        *)
(* started or reset, a receive from an empty mailbox, a use of an actor    *)
(* after it was freed.                                                     *)
NoFault == fault \in {"none", "killed"}

Wakes(t, a) == Cardinality({i \in DOMAIN tasks[t] : tasks[t][i] = ResumeTask(a)})

(* receiveBlock() and send_local_message() both queue resume tasks; for    *)
(* every wait exactly one of them does.                                    *)
OneWakeup ==
    \A a \in Actor, t \in Worker : fault = "none" =>
        Wakes(t, a) = IF /\ state[a] = "IDLE" /\ mailbox[a] # <<>>
                         /\ thread_offset[a] = t
                         /\ \A u \in Thread : current[u] = a => pc[u] # "resume"
                      THEN 1 ELSE 0

(* The messages the main thread has still to route to an actor or a name,  *)
(* and all that are on their way to an actor.                              *)
IsFor(to, task) == task.type = "SEND_MESSAGE" /\ task.to = to
Unrouted(to) == {tasks[Main][i].message :
                    i \in {j \in DOMAIN tasks[Main] : IsFor(to, tasks[Main][j])}}
InMailbox(a) == {mailbox[a][i] : i \in DOMAIN mailbox[a]}
Inbox(a) == IF a \in by_ref THEN InMailbox(a) \cup Unrouted(a) ELSE {}

(* Every message is in one place only, and every queue of messages is in   *)
(* the order of the send() calls: what is in a mailbox was sent before     *)
(* whatever the main thread has still to route, to a reference or a name.  *)
MailInOrder ==
    /\ \A i, j \in DOMAIN tasks[Main] :
         i < j => tasks[Main][i].message < tasks[Main][j].message
    /\ \A a \in Actor : \A i \in DOMAIN mailbox[a] :
         /\ \A j \in DOMAIN mailbox[a] : i < j => mailbox[a][i] < mailbox[a][j]
         /\ \A k \in DOMAIN tasks[Main] : mailbox[a][i] < tasks[Main][k].message
         /\ \A b \in Actor \ {a} : mailbox[a][i] \notin InMailbox(b)

(* Messages are received in the order sent, across crashes and restarts of *)
(* either side; they are lost only when the recipient is removed, or when  *)
(* their name leads to nobody.  (With MailInOrder none is received twice.) *)
Abstract == INSTANCE Mailboxes WITH
                open <- by_ref,
                inbox <- [a \in Actor |-> Inbox(a)],
                floating <- UNION {Unrouted(n) : n \in Name},
                posted <- sent
MailboxesSpec == Abstract!Spec

InTransit(m) == \E a \in Actor : m \in Inbox(a)

(* As long as nobody shuts the system down, every message is received or   *)
(* its recipient removed.                                                  *)
Delivered == \A m \in Message : InTransit(m) ~> ~InTransit(m)

(* An actor that its supervisor restarts runs again or is removed.         *)
RestartCompletes ==
    \A a \in Actor : state[a] = "RESTARTING" ~> state[a] = "ACTIVE" \/ a \notin by_ref

(* shutdown() ends every thread: no thread waits for one that waits for it.*)
Ended == \A t \in Thread : pc[t] = "ended"
ShutdownEnds == shutdown ~> Ended \/ fault # "none"

(* The process ends with every actor it created freed.                     *)
NothingLeaks == Ended => created = Freed

-----------------------------------------------------------------------------
(* What comments, an assertion and the documents say, and the code breaks. *)

(* assert(actor && actor->internal): an actor to resume still exists.      *)
ResumedActorExists == fault # "assert"

(* "the restart limit is hard coded to 5": more failures in a row than the *)
(* limit allows never lead to one more restart.                            *)
RestartLimit == \A a \in Actor : streak[a] <= MaxStreak

(* "An actor with the specified name has already been created": two live   *)
(* actors never have one name.                                             *)
NamesUnique ==
    \A a, b \in by_ref : NameOf[a] = NameOf[b] /\ NameOf[a] # NoName => a = b
=============================================================================
