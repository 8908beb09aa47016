# A verification development for phactor

phactor is a PHP extension that runs actors on a pool of threads. This
directory holds TLA+ models of its core (`src/`, written in C), the TLC
configurations that check them on small instances, and theorems about them,
proved with TLAPS for every value of the constants. File names without a
directory are those of `src/classes`, `src/ds` and `src`.

## The system

| Component | State | Operations | Talks to |
|---|---|---|---|
| Actor tables and supervision trees (`actor_ref.c`, `supervisor.c`, `actor.c`) | `actors_by_ref`, `actors_by_name`, in each actor `supervisor`, `supervision` (its workers, a tree number), `tree_number`; the global `global_tree_number` | `ph_actor_ref_create`, `new Supervisor`, `addWorker`, `newWorker`, `ph_actor_remove_from_table` | all threads, under the mutex `actors_by_ref.lock` |
| Actors (`actor.c`) | `state`, `mailbox`, `thread_offset`, `internal` (PHP object, C stack, VM stack) | `send`, `receiveBlock`, the start of `receive`, removal, freeing | its thread's loop by switching stacks; the main thread's queue |
| Crash handling (`supervisor.c`) | `restart_count_streak`, the states of a subtree | `ph_actor_crash`, terminate, restart one for one, escalate | task queues, actor tables |
| Scheduler (`actor_system.c`) | a task queue per thread, removal lists, `shutdown`, `finished_thread_count` | `message_handling_loop`, the four task handlers, `scheduler_blocking`, `shutdown()` | everything |
| Tasks (`ph_task.c`) | none | constructors of four task types | the scheduler |
| Queue (`ds/ph_queue.c`) | head, last, size, cells | push, pop, destroy | mailboxes, task queues, tree walks |
| Hash table (`ds/ph_hashtable.c`) | buckets, size, used | insert, resize, search, delete, apply, clear | the actor tables, workers of a supervisor |
| Vector (`ds/ph_vector.c`) | array, used | push, pop | removal lists |
| Contexts (`ph_context.c`, `.S`) | registers, C stack, VM stack pages | init, start, swap, reset, clear | actors, the scheduler |
| Entries, messages, strings (`ph_entry.c`, `ph_message.c`, `ph_string.c`) | the malloc'ed blocks of a message | conversion of PHP values; construction and freeing | tasks, mailboxes |
| Thread start-up (`actor_system.c`) | `prepared_thread_count` | creation of the workers, `worker_function` before its loop | copying |
| Copying (`ph_copy.c`, `ph_zend.c`) | the executor globals of a thread | copy of files, functions, classes, constants and settings; of the values in them | the main thread's tables |
| Glue (`phactor.c`, `ph_debug.c`) | module globals | registration, debugging | PHP |

A script (on the main thread) and the actors create actors; each is given to
a random worker thread by a NEW_ACTOR task and stays with it. `send()` queues a
SEND_MESSAGE task for the main thread, which, once the script is over, routes
it: it pushes the message on the recipient's mailbox and, if the recipient was
waiting, queues a RESUME_ACTOR task for its thread. `receiveBlock()` makes the
actor idle and switches back to the loop of its thread; if there is mail it
queues its own resume task first. A value travels as an entry: a string, a C
`int`, serialised bytes or the function of a closure, in blocks that change
owner with every queue they pass. An exception crashes the actor: it and
everything it supervises are marked TERMINATED; with a supervisor it is reset
(a FREE_VM_STACK task) and started again (a NEW_ACTOR task), without one it is
removed, together with its workers. A removed actor goes on a list of its own
thread, which frees it between two tasks. Before all this, each worker has copied what the
main thread has declared, classes included, while the main thread spins. PHP
knows nothing of the switches between stacks: phactor sets the engine's VM
stack pointers by hand at each of them.

What is hard about it:

* **Interleavings.** Actor fields are read and written under three kinds of
  locks (the table's, the actor's, a queue's) and partly under none; pointers
  to actors are kept across unlocks.
* **Stale tasks.** Resume, start and clear tasks are queued long before they
  are popped; in the meantime the actor may crash, be restarted, or be removed
  by another thread.
* **Removal.** A removal recurses over a tree while the tables it deletes from
  are being walked, and it hits actors that are running.
* **Restarts.** A restart keeps the mailbox, the reference and the name, but
  replaces the object and both stacks; a task clears the old VM stack later.
* **Ownership.** A block is allocated on one thread and freed on another, by
  whichever of a dozen paths the message, the task or the actor ends on.
* **Copies.** Classes refer to each other, and values inside them are counted
  without locks; what is copied too little is shared between threads, and what
  is copied twice is no longer identical to itself.
* **Shutdown.** Threads spin on each other's counters.
* **The data structures** move or free entries while others walk them.

What correctness means, per component: the tables and trees agree with each
other (Registry); wake-ups, messages, actors and restarts are neither lost nor
doubled, and each actor is run and freed by its own thread (ActorSystem); every object
runs on its own VM stack, whose pages are freed and never while in use
(VmStack); every block is freed once, by its last owner (Mail); a worker starts
with whole, unshared copies of a world that does not move (Startup); searches
are exact and walks visit everything once (Hashtable); a queue is a FIFO
(Queue). `PROJECT.json` lists the hazards one by one, at their lines, with
the properties aimed at each.

## The modules

```
Registry <--EXTENDS-- ActorSystem <--EXTENDS-- VmStack
                           |
                           +---INSTANCE---> Mailboxes
Queue    <--EXTENDS-- Mail
   |
   +---INSTANCE---> Fifo
Copying  <--EXTENDS-- Startup
Hashtable

proofs     RegistryProofs
           QueueProofs <- MailProofs
           HashtableProofs
           ActorSystemProofs <- MailboxesProofs <- VmStackProofs
           StartupProofs
instances  MCRegistry, MCActorSystem, MCVmStack, MCMail, MCStartup, MCHashtable
```

**Registry** is the shared tables. One action is one critical section of
`actors_by_ref.lock`: `Insert` (the locked part of `ph_actor_ref_create`),
`SupervisorConstruct`, `AddWorker`, `Remove` (`ph_actor_remove_from_table` with
the whole recursion of `ph_actor_mark_for_removal`), and `DestroyTables`. The
breadth first walks of `supervisor.c` become `Below(a)`, the least set closed
under "workers of", so that no recursive operator is needed. `lock` records the
two ways in which the lock is never given back: an early return (`leaked`) and
a walk around a ring (`walking`).

**ActorSystem** extends Registry by threads, actors and tasks; its actions
conjoin those of Registry. Every thread has a `pc`:

| `pc` | where the thread is |
|---|---|
| `script` | the PHP script on the main thread |
| `loop`, `pop`, `check` | `message_handling_loop`: removals, the pop, the shutdown test |
| `ctor`, `workers`, `start` | `new_actor`: the PHP constructor, the walk over the workers; `process_message_handler` before `receive()` |
| `receive` | PHP code in `receive()` |
| `swap`, `resume` | `receive_block` after its unlock; after it is switched back to |
| `crash` | between the two halves of `ph_actor_crash` |
| `walking` | in an `addWorker()` whose renumbering walk does not end |
| `spin`, `join`, `ended` | after the loop |

At `script`, `ctor` and `receive` PHP code may make any call the constants
allow: `Create`, `Schedule` and `WriteRef` (`ph_actor_ref_create` up to its
unlock, up to the push of the task, and the late read of the new actor's
reference at its end, when the actor may be running or gone), `Promote`, `Add`, `Send`, `Shutdown`, `ReceiveBlock`, `Throw`, `Return`. The
task handlers are `HandleSend`, `HandleResume`, `HandleNew`, `HandleFree`;
crashes go through `Crash`, then `CrashRemove`, `CrashRestart` or
`CrashEscalate`. `context[a]` says what switching to the actor would do.
Undefined behaviour sets `fault`, after which the model stops; a step on an
actor another thread has freed is `TouchFreed`.

**VmStack** extends ActorSystem by the VM stacks: the allocated pages with the
page below each, the page each thread's engine is on (`EG(vm_stack)`), the page
each actor's context was saved with, and the pages in the FREE_VM_STACK tasks.
Each of its actions conjoins one of ActorSystem's with what that step does to
the pages; `Grow` and `Shrink` are PHP itself, which takes a page when calls
get deep and gives it back. A page is named by the object it was allocated for
(`object` counts the objects made for an actor), so that an address that
`malloc` hands out again is not mistaken for the old page. A behaviour of
VmStack is one of ActorSystem with pages, so the three passing runs of the
threads use `VmSpec`, two of them with `MaxPages` 0; the runs that exhibit a
disagreement need no pages and use `Spec`. `Elsewhere` gathers the steps that
leave the pages alone.

**Mailboxes** is what `send` and `receiveBlock` promise, about messages that are
numbered by their `send` calls. A message to a reference is in its recipient's
inbox when `send` returns; one to a name floats until the name is looked up, in
the order of the calls, and then joins an inbox or is gone. An actor takes its
messages in the order of the calls, and none while an earlier one may still
reach it; a message is lost only with its recipient, or when its name leads to
nobody. ActorSystem implements it under the mapping "the inbox of a registered
actor is its mailbox and its messages in the main thread's queue, and what
floats are the messages to names in that queue".

**Hashtable** models buckets, tombstones, robin hood swaps and growth, and
breaks `apply` and `clear` into steps between which their callbacks delete
entries. An insertion is a step for each turn of the loops of
`ph_hashtable_insert_direct` (`Pass`, `Place`) and `ph_hashtable_repopulate`;
nothing else is possible until it has ended (`Inserting`), so that the steps
make up one call. They are there to be reasoned about: what a turn keeps can be
proved, what a recursive function computes cannot. **Queue** models the cells and pointers of the linked list, with cells
freed and allocated again; it implements **Fifo**.

**Mail** extends Queue, which is the worker's task queue, by the blocks of one
actor's life: those of the actor, its constructor's arguments, its messages and
the tasks about it. Each action says what the handler allocates, reads and
frees (`Memory`); `heap` is what is allocated and `misused` what was freed or
read when it was not. The paths are those of `send` (three outcomes),
`send_message`, the four task handlers, `receive_block`, crash and restart,
removal by the actor or by its supervisor on another thread, refused creations
with the clean-up of `create_new_actor`, and the end of the system with the
destruction of tables and queues. `Stored` and `Loaded` are the conversion of
values: an integer is narrowed to `2 * Half` values, a closure loses the object
it is bound to. `KnownLeaks` lists, and only there, what the code never frees.
A neighbour stands for the other actors of the worker, which it is busy with in
between. A task is named by its kind and the place `malloc` gave it
(`NewTask`); an action that makes one needs a free place (`Room`), which is how
`MaxTasks` bounds the tasks of a kind that exist at a time.

**Copying** has the copying of values as operators: `ZvalDup` and its callers for
the default values of properties, static variables, literals and constants. A
value is a tree, a function from the paths that lead into it to what is there;
`Reached` says which parts of it the recursion of `ph_zend.c` gets to.
`Links` are the classes that a class mentions, in the order in which
`create_new_ce` copies them: parent, interfaces, traits, trait rules.
**Startup** is the start of the workers: creation of the threads, the tables one
after another, the class table entry by entry, and the counter, whose increment
is a read and a write. `copy_ce` and `create_new_ce` call each other; `stack[w]`
holds the classes a worker is in the middle of making, with the links each has
so far, and a step is a call of `copy_ce` that finds its class (`FindClass`) or
has to make it (`MakeClass`), or the return of `create_new_ce` (`FinishClass`).
A script that is past `new ActorSystem()` declares whatever it likes.

## What is checked

All runs are TLC runs over the whole state space of their instance.

| Run | Instance | Shows |
|---|---|---|
| `Registry` | 4 actors, 2 of them after one name | `LinksAgree`, `NamesPointHome`, `TreeNumbers`, `NoFalseAlarm`, `SupervisorKept` under any sequence of operations |
| `Restart` | supervisor and worker that write to each other, 2 workers, 2 messages, 2 crashes of the worker, limit 3 | none of the model's faults (`NoFault`), exactly one resume task per wait (`OneWakeup`), every message delivered (`Delivered`), in order and once (`MailInOrder`), all of it across restarts in the constructor and in `receive()`; `RestartCompletes` |
| `Supervision` | a chain of 3, whose last actor the script creates and who may be one page deep in its calls, 1 message, 2 crashes of the middle one, limit 2 | `NoLostWakeup`, `OwnedOnce`, `Pinned`, `RunningNotFreed` with escalations, removals and returns in every order; `OnOwnPages`, `SavedPagesLive`, `ClearsLivePages`, `DeepPagesFreed` of the VM stacks in all of them |
| `Shutdown` | 2 actors, one named and adopted late, 2 messages to its reference or its name | `ShutdownEnds`, `NothingLeaks`, `MailboxesSpec` |
| `Hashtable` | 5 keys, sizes 1 to 8 | `SearchExact`, `UsedCounts`, `VarianceIsDistance`, `CalledOnce` |
| `Mail` | 1 actor and 1 neighbour, 3 cells, 2 messages of 4 kinds of value, 2 tasks per kind, 1 restart | `NoDangling`, `NoOtherLeak`, `CleanEnd`, `ValueKept`; `LinkedList` and `ImplementsFifo` of the queue under its real users |
| `Startup` | 2 workers, 5 classes in every order, one anonymous and one declared late | `AllKnown`, `SourceStable`, `LinksKept`, `NoneShared`; `Started` |

Five runs check something that a comment, an assertion, a test or the
documentation says, and find that the code does otherwise:

| Run | Said | Done |
|---|---|---|
| `RegistryCycle` | "A cycle has been detected in the supervision tree" (`supervisor.c:362`) | a supervisor can be added to itself; the renumbering walk then never ends |
| `RegistryLock` | "supervisor has died already - abort (silently)" (`supervisor.c:345`) | it returns with the lock held |
| `RestartLimit` | "the restart limit is hard coded to `5`" (`README.md:277`) | after an escalation the streak steps over the limit |
| `ResumeAssert` | `assert(actor && actor->internal)` (`actor_system.c:246`) | the supervisor has returned and taken its worker with it |
| `Names` | "An actor with the specified name has already been created" (`actor_ref.c:147`) | a second removal of an old actor frees the name of a new one |

### Bounds, and why they are enough

* Registry: three actors are a chain and a fork; the fourth lets two trees of
  two meet, and two contenders for a name with two bystanders show every way a
  name is lost. The number of operations is not bounded. Actors are symmetric
  within the two groups; only this instance uses symmetry, and it checks no
  liveness.
* ActorSystem: two workers let an actor and its supervisor share a thread or
  not. `MaxSends` and `MaxCrashes` bound the calls; two messages are needed for
  an order, of references and names too, and two crashes for a crash during a
  restart. `MaxStreak` stands
  for `restart_count_streak_max`, 5 in the code; 2 or 3 brings the limit within
  reach of the crashes, 5 keeps it out of reach where it is not the subject.
* A scenario (the definitions in `MCActorSystem`) says which calls may be made
  by whom; when and whether they are made is left open.
* Hashtable: `MaxSize` 8 gives three resizes; the hashes make two keys collide
  at every size, one wrap around, and one have the hash 1 of a tombstone.
  The theorems do without these bounds.
* VmStack: one page above the first tells a chain from a single page, which is
  all the code distinguishes (`ph_vmcontext_clear` and `_reset` walk to the
  last page). `MaxPages` bounds it; `Nests` says that the actor that blocks
  and is restarted through two levels is the one that gets deep.
* Mail: with two messages one can be read, dropped or discarded while the other
  is under way, and the second argument of a constructor can fail after the
  first was stored. `MaxTasks` is how many tasks of one kind there may be at a
  time: the second is the start task of a restart, made while the first is in
  the worker's hands or, handled, has left its strings behind. `Half` stands for 2^31. Three cells (what `malloc` returns to
  the queue) let it be empty, a single cell, and more, with cells used again;
  they are symmetric, and nothing about liveness is checked here.
* Startup: two workers are enough to interleave two increments and to let one
  be ready before the other has begun; they write nothing that another worker
  reads but the counter. Four classes in any of their 24 orders give a chain of
  three, a class mentioned twice, and an anonymous one in between. The values
  are at least two levels deep, since the code treats the elements of an array
  apart from the array.

### Where properties are scoped

`NoFault` and `OneWakeup` are checked in scenarios in which
nobody is removed under somebody else and no supervisor is restarted with a
waiting worker: elsewhere the code does fault, as the run `ResumeAssert` shows.
The theorems `NoFaultWhenAlone`, `NoFaultIfOnlyWorkersFail` and
`NoFaultIfNobodyLeaves` give conditions on behaviours and on programs under
which it does not (see *Alone* below); the conditions are sufficient, and not
claimed to be necessary. `NoFault` is about the faults that the model knows:
the assertion of `ResumeAssert`, a jump to a context that is not saved, a
receive from an empty mailbox, and the use of an actor that has been freed.
Data races inside a table or on a single field are not among them.
(Three more things happen there: a worker terminated with its supervisor becomes
active again when a resume task was under way (`actor.c:250`); a new worker
may be removed and freed before `ph_actor_ref_create` has written its
`thread_offset` (`actor_ref.c:168`); and a new actor may have returned or
crashed and been freed before its creator reads its reference
(`actor_ref.c:184`), for which nobody else need fail.) In Mailboxes a name may lead to any
actor: it is looked up when the message is routed, and may have changed hands
by then.
`Pinned` and `RunningNotFreed` exclude actors in `raced`, whose
`thread_offset` was read in the window between the unlock and the write in
`ph_actor_ref_create`. `ShutdownEnds` and the invariants that mention `fault`
say nothing after undefined behaviour. `SearchExact` and `UsedCounts` are
suspended during `clear()`: it empties buckets as it goes and corrects the
count at its end.

In VmStack a supervisor on another thread may reset an actor that is running or
has a start task queued. The context is then saved again after the reset, or a
second object takes the place of the one that was to be cleared, and the code
frees pages below the object or leaks them. Such objects are in `overtaken`
(an actor runs while its thread walks in an endless `addWorker()`, too);
the four properties of the pages say that nobody but them is affected. An idle
thread's engine may be left on the pages of an actor whose constructor crashed
(`actor.c:334`); `OnOwnPages` forbids it the pages of one that waits.

In Mail, `NoOtherLeak` and `CleanEnd` allow the leaks of `KnownLeaks`: the
recipient's name in a `send()` by an actor that is no longer registered
(`actor.c:372`), all of a message without a receiver except its task
(`actor_system.c:75`), serialised objects (`ph_entry.c:47`) and the strings of
a start task that was handled (`actor_system.c:252`); and at the end what was
sent after the main thread had left its loop. The failed assertion of
`ResumeAssert` ends a behaviour. `ValueKept` is about integers a C `int` holds
and closures that are bound to nothing.

In Startup, `LinksKept` demands one copy of a class only if classes come after
those they mention: PHP enters them so, unless it binds a class late, and then
`ph_copy.c` makes a second copy. `NoneShared` allows objects, references and
resources inside arrays and constants, which the code shares. `ValueAssumption`
keeps away from values on which it stops with `ZEND_ASSERT(0)`, the default
`public $x = FOO;` among them (`ph_copy.c:784`). A static variable that is a
constant becomes a string in the copy (`AsString`): the worker sees the name of
the constant, not its value. The properties are about ownership and allow it.

`CHECK_DEADLOCK FALSE` is set in the runs whose system may really stop: the
process ends or is killed, a lock is never released, the script has used up its
creations, an assertion has failed, or a script has declared everything. The
hash table never stops, and its
run checks for deadlock.

### Fairness

`Fairness` of ActorSystem, which the runs `Restart` and `Shutdown` use under the
next-state relation of VmStack (`FairVmSpec`), assumes weak fairness of each
thread's own steps: the operating system runs every thread, a spinning loop
included, and PHP code does not loop for ever between two calls into phactor. No fairness is assumed for particular
calls: nobody has to send, block, throw or return rather than do something
else. `ScriptFails`, which kills the process, is not fair. Mutexes are
held for the length of one action, so weak fairness of a thread is enough for
it to get past one. Startup assumes the same of the workers and of the main
thread's steps up to the end of its spinning, and nothing of the script. Its
one mutex is held for two steps, but by a worker that can always go on, and a
worker that waits for it gets it when the others, who take it once each, are
done.

## What is proved

TLAPS checks the following for all constants that satisfy the assumptions
`ActorAssumption`, `NameAssumption` (Registry), `ThreadAssumption`,
`RecipientAssumption`, `CallAssumption`, `BoundAssumption` (ActorSystem),
`PageAssumption`, `MaxPagesAssumption` (VmStack), `CellAssumption`,
`ElementAssumption` (Queue), `TaskAssumption`, `HalfAssumption`,
`BoundAssumption`, `NeighbourAssumption`, `ValueAssumption` (Mail),
`KeyAssumption`, `SizeAssumption` (Hashtable), `ClassAssumption`,
`ValueAssumption` (Copying), `ThreadAssumption`, `OrderAssumption`,
`SymbolAssumption` (Startup): the null
values are not actors, names, cells, elements, pages or keys, hashes are
natural numbers, a table begins with a bucket at least, an actor is not a name
(an `ActorRef` is not a string), the first worker is a worker, the main thread
is not, a task has a kind and a place, a value has a PHP type and, as its data,
an integer, a class mentions named classes only (an anonymous one cannot be
mentioned), the class tables a system may start with hold the same classes, the
values in a class are of the kinds that do not make the copying stop at an
assertion, and the scenario's sets have the right types. No finiteness is assumed, and no scenario: what is proved of
the threads holds whoever may create, supervise, write to, crash or remove
whom.

**Registry** (`RegistryProofs`). The inductive invariant is

    Forest == RegistryTypeOK /\ LinksAgree /\ TreeNumbers /\ SupervisorsNumbered

The last conjunct, which no run needs, says that an actor with a supervision
structure has a tree number other than -1; without it a newly attached worker
could be given -1 and `TreeNumbers` would not be inductive. `LinksAgree` and
`TreeNumbers` depend on each other through `addWorker`: the guard
`tree_number[w] = -1` only keeps a supervised actor from being attached a
second time because a supervised actor has a number. The lemmas `BelowClosed`,
`BelowLeast` and `SubtreeClosed` replace induction over trees: `Below(a)` is
closed under workers and contained in each closed set, which is all that
renumbering and removal need. From `Forest` follow `RegistryTypeCorrect`,
`LinksAlwaysAgree`, `TreeNumbersAlwaysHold`; `NamesAlwaysPointHome` is
inductive on top of it, and `SupervisorAlwaysKept` is an action property.

`NeverAFalseAlarm` is about the numbers that renumberings and removals leave
behind, which `CycleDetected` compares with the others. Two registered actors
that share a number, as a worker or as the head of a tree, fresh or stale, are
below a common actor (`SharedWithinTrees`). An attachment gives one number to a whole subtree (`SubtreeGrows`),
and a removal takes out whole subtrees (`GoneClosed`, `SubtreeWithout`), so
neither separates actors that stay. A worker without a supervisor that shares
its tree with the supervisor it is offered to is then the root of that tree
(`SharedRaisesNoAlarm`), and the alarm is right.

**ActorSystem** (`ActorSystemProofs`). `ImplementsRegistry` shows that every
step of a thread is a Registry step or leaves the tables alone, so `Forest`
holds in the whole system. `TypeCorrect` is inductive together with
`HasCurrent`: a thread that runs an actor or handles its crash has one.
`WakeupNeverLost` separates four actions that concern a waiting actor
(`ReceiveBlock`, `HandleSend`, `HandleResume`, `Resume`) from all others, which
are *quiet*: they make no actor idle, drop no resume task, end no resumption
and touch no mailbox. A quiet step keeps the property whatever else it does.
`AlwaysOwnedOnce` needs `Unowned` (an actor that has not been created is
on no removal list and has not been freed) and `LinksAgree` (what a removal
takes out of the table was in it, so it was on no list before).

**Threads** (in `ActorSystemProofs` too). `Pinned` is not inductive: who runs an actor was
handed a task for it, who frees it was told by whoever removed it, and both
went by its `thread_offset`. The invariant behind it is

    AtHome == Confined /\ IdleStarted /\ Known /\ OneCreator

An actor that is run, queued or to be freed anywhere is there because of a
`thread_offset` its creator has written, or is in `raced` (`Confined`). For the
tasks that says enough only if the main thread never wakes an actor that has
not been scheduled (`IdleStarted`), if pointers held by threads lead to actors
that were created (`Known`), and if a new actor has one creator, since
`Schedule` would otherwise move it a second time (`OneCreator`). Every action is
classified by what it may add: runs (`NewRuns`), removals (`NewRemovals`),
tasks (`NewTasks`), each at home. From `AtHome` follow `AlwaysPinned` and, since
a thread frees only when it runs nothing, `NeverFreedRunning`. `NeverLeaks`
needs that the threads end in order (`InOrder`): the tables are empty before a
worker frees its last actors, and by then no thread runs code that could create
one; `Owned` then leaves an actor no place but the free store.

**Alone** (in `ActorSystemProofs` too). `NoFault` and `OneWakeup` are false of
some programs, so the theorems say of which they are true. `Alone` holds of a
step if it does not remove, terminate or restart an actor along with its
supervisor: no supervisor crashes, no crash is escalated, no worker is restarted
because its supervisor was, and whoever returns or is removed has no workers.
Then the worker tables that the code walks without a lock are not walked at all.
`CreatorsFirst` holds of a step if it does not remove an actor whose creator has
still to read its reference, which is the one way in which an actor that is
left alone comes to be used after it was freed.
`NoFaultWhenAlone` says that in a behaviour of such steps none of the faults of
the model happens and every wait is ended by one resume task, whatever the
program creates, sends, crashes and restarts. The invariant is `NoFault`,
`Referenced` (a reference that is still to be read is that of a registered
actor) and, for every actor,

    Orderly(a) == RunsRightly(a) /\ QueuedRightly(a)
                  /\ IdlesRightly(a) /\ BeginsRightly(a)

which says where an actor is: created and not yet scheduled; queued once to be
started, behind the FREE_VM_STACK task of the reset if there is one; running on
its own thread at a label that fits its state; or idle with a saved context and,
if it has mail, queued once to be resumed. A step concerns one actor at most,
and leaves every other one's record, thread and place in its queue alone
(`Stays`, `StaysOrderly`); there is one lemma per action for the actor it
concerns (`CreateOrderly` to `HandleSendOrderly`). That a resume task always
finds its actor, a context to jump to and a message is shown for the handlers
(`HandleResumeOrderly`, `LoopWell`), that no constructor blocks on the
context of another task in `NeverWild`, that nobody uses a freed actor in
`NeverTouchesFreed`. `OneWakeup` is `QueuedOnce` together with `WakeupNeverLost`.

`NoFaultIfOnlyWorkersFail` names programs whose behaviours are `Alone`.
`OnlyWorkersFail` says of the constants that no actor that may be promoted to a
supervisor may throw or return, and that there are fewer crashes than the limit
on restarts. That every step is then `Alone` needs `Modest`: only who may throw
is ever restarting, no streak exceeds the number of crashes, and who is being
handled has a streak below it, so the limit, and with it an escalation, is not
reached. `CreatorsFirst` stays as a hypothesis, since a worker may return at
once. `NoFaultIfNobodyLeaves` has no hypothesis on behaviours: if no `receive()`
returns and whoever may throw was created by `newWorker()` (`NobodyLeaves`),
then every crash has a supervisor to handle it (`HasBoss`) and nobody is ever
removed. The instance `Restart` satisfies both conditions, and so do larger ones
with any number of threads, supervisors, workers and messages. All three theorems
end where the tables are destroyed (`Closing`): resume tasks left in a queue then
have no actor any more, and the destruction of `actors_by_ref` may look up a
name in the freed table of names (`DestroyFaults`).

**Messages** (`MailboxesProofs`). A step does one of seven things to the mail
(`Steps`): it leaves it alone, opens or closes inboxes, posts, routes or
receives (`EveryStep`, where `RightTasks` keeps mail on the main thread's queue
and all other tasks off it). `MailAlwaysInOrder` strengthens `MailInOrder` by
`Numbered`: no number is above the counter of sends, and an actor that has not
been created has neither mail nor anything on its way to it. The order across
queues is what makes it inductive: a routed message is appended to a mailbox,
all of which was sent before it. `ImplementsMailboxes` then maps each of the
seven to an action of Mailboxes or to none. Routing to a reference is none: the
message moves within the mapped inbox. Routing to a name is `Arrive`, which
needs `MailInOrder` (it is the earliest) and `NamesPointHome` (whom it finds
exists).

**VmStack** (`VmStackProofs`). `ImplementsActorSystem` shows, one action after
another, that every step with pages is a step of ActorSystem or leaves its
variables alone, so that what is proved of the threads and of the mail
(`ThreadsKeepInvariants`, `StacksKeepMail`) holds of the specification the runs
use.

About the pages themselves, the first part is on tables of pages in general. A
walk along `page->prev` ends because the table is `Grounded`: every set of
pages has one whose page before is not in the set. The chain of a page is the
least set that the walk does not leave (`LeastChain`), which solves the
recursive equation by which VmStack defines it (`ChainUnfolds`), so no induction
over data is needed; `OneEnd` follows, and what taking and freeing pages does to
a chain (`ExtensionDoes`, `FreeingElsewhere`, `FreeingKeeps`, `FirstPageStays`).

Every step is one of eleven effects on the pages (`SharpStep`) or leaves them
alone (`Calm`, `CalmQueues`). The invariant has two layers:

    Places    == Typed /\ AtHome /\ RightTasks /\ Roles /\ OwnedOnce
                 /\ Housed /\ ClearsQueued
    PagesKept == \A a \in Actor \ raced : Kept(a, thread_offset[a])

`Places` says where things may be. `Housed`: a page is of an object made so far
(`Fit`, so the next page of an object is always a new one), the page before it is
one of the same actor, and whoever runs, waits or is to be cleared is on pages of
its own actor, on its own thread. `ClearsQueued`: the FREE_VM_STACK tasks of a
queue are, in order, those of the pages to clear, and the NEW_ACTOR task of the
restart comes right behind each. `VmTyped` follows. `Kept(a, h)` is about one
actor and its thread, in ten parts. That its code runs on a sound chain
(`OnPages`: one that leads to the first page of the present object) needs that
the chain it waits on is sound (`WaitsSound`). That needs that no
FREE_VM_STACK task frees it meanwhile (`RestsUntilCleared`): an object with
pages to clear is not run before, and waits for its next object. That in turn
holds because a start in the queue overtakes every object but one
(`StartsCounted`). Two tasks for one object never both free pages above the same
first page (`ClearsSound`), and what a context falls back to is the first page,
which `ph_vmcontext_clear` leaves alone (`RestsOnFirst`). `DeepHeld` says of
every page above a first one what leads to it. There are two lemmas per effect:
for the actor it is about (`EntersKept`, `ResetsKept`, ...), and that it leaves
every other one apart (`EntersElse`, ..., with `Apart` and `ApartKeeps`). From
both layers follow `OwnPagesUsed`, `SavedStaysLive`, `ClearsStayLive` and
`DeepPagesReached`, for every number of threads and actors, every scenario and
every depth. Actors in `raced` and objects in `overtaken` are left out of them,
as in the runs.

**Queue** (`QueueProofs`). `TypeOK /\ LinkedList` is inductive (a cell that is
allocated was not in the chain; the chain's cells are distinct, so a write to
`last.next` changes one link), and with it every step is a step of Fifo or
leaves it alone: `QueueIsFifo`.

**Mail** (`MailProofs`). Every step of Mail is one of Queue or leaves it alone
(`MailOnQueue`), which gives `TasksAlwaysLinked` and `TaskQueueIsFifo`. For the
memory, the invariant of a run cannot be inductive: it says what is pointed to
and not why nobody else points there. The proof keeps books instead. Every
block has an owner, which is part of its name: a message, a task, an argument or
the actor. `Accounts` gives for each owner exactly what the heap holds for it:
for a message by its stage, for a task by whether it is queued or in the hands
of the worker, for the actor by its state. The books are right only if these
agree with each other, which is `Order`:

    Order == IInv /\ MailTypeOK /\ MessagePlaces /\ TaskPlaces
             /\ Life /\ OneTask /\ Phases

A message is in the outbox or the mailbox, once, as its stage says; a task is
queued once and not in hand as well; the actor's state says in which list it is
(`Life`); an actor that is not gone waits for one task at most, and for a
resume task only when a message is there to be taken (`OneTask`), so
`HandleResume` never takes from an empty mailbox; the threads end in order (`Phases`).
There is one lemma per action (`SendAccounts` to `DestroyTaskAccounts`), which
shows that each step is right for the owners it concerns, and one (`HeldAfter`)
for all the others. `FreshTask` ties the two halves together: what `malloc`
returns is not in the queue or in hand, because those are in the heap. From the
books follow `NeverDangling`, `OnlyKnownLeaks` and `EndsClean`. `ValuesKept`
needs that nothing writes to an entry on its way (`Arrived`), and `CIntRange`,
which is the arithmetic of the narrowing.

**Hashtable** (`HashtableProofs`). The inductive invariant is

    Inv == Types /\ Table /\ Counted /\ Paths /\ Walked

`Table` says of the buckets that an entry is in one place (`Once`), that the
places together hold what the table ought to hold (`Whole`), that there is room
for it (`Roomy`) and that an entry is where its variance says (`Distance`).
`Paths` is the reason why searches succeed: every bucket between an entry's home
and its own has been used. Neither is inductive without `Behind`, which is
about the entry that an insertion carries: its variance is not more than the
turns of the loop, and the buckets of these turns all hold entries. So wherever
it is stored, after swaps too, its path is in use; and as the table is resized
at three quarters (`ThresholdDoubles`) there are fewer entries stored than
buckets (`BucketFree`), so the loop cannot go round: had it passed every bucket,
all would hold entries. A deletion leaves a tombstone, which counts as used.
`clear()` breaks the paths and leaves none to break: meanwhile `Clearing` says
that what is stored is ahead of the cursor, and everything else that was to be
destroyed has been, once. The theorems are `NeverLost`, `AlwaysRoom`,
`VarianceExact` and `EachCalledOnce`, for any keys, hashes (equal ones too) and
sizes, powers of two or not.

**Startup** (`StartupProofs`). The inductive invariant is

    Inv == StateTypes /\ Counting /\ Waits /\ Copied

`Counting` says that the worker in the middle of `++prepared_thread_count` is
the one that holds the lock and has read the present count, and that the count
is the number of workers in their loops; so when the main thread stops spinning
all are there (`StopSpinningInv`), and until then nothing is declared (`Waits`).
`Copied` is about one worker at a time, since workers do not read each other's
tables: it has copied what lies behind it (`Behind`), and `Local` holds of its
class table and of the classes it has made and is making. `Made` says that each
finished class has the links of its original, under the classes' names, and
`Nested` does for the calls of `copy_ce` what a stack of return addresses does:
each class being made is the next link of the one that asked for it, so what
`create_new_ce` returns is what its caller wanted. `Single` is about classes
that come after those they mention: then nothing is ever made on behalf of
another class, the stack is never deeper than one, and every link leads into the
class table. Neither termination nor an order of the links is assumed for the
rest: classes may mention each other in a circle.
`Separate` follows from `Made` and lemmas about values of any shape:
what `ph_zend_array_dup` does not reach (`Reached`) is inside an object, a
reference or an immutable array (`DupShares`). The theorems are `Typed`,
`Known`, `Linkage`, `Separate` and `SourceStays`.

**Only model-checked.** Liveness (`Delivered`, `RestartCompletes`,
`ShutdownEnds`, `Started`) is out of the prover's reach. Every invariant and
every action property that a run checks and that holds of all programs is
proved; `OneWakeup` and `NoFault` are proved under the conditions above only, and
what the five runs that expect a violation refute is not a theorem.

## Abstractions

* A pop and the table lookup that follows it are one step, and so are the
  lookup and the jump of a resume, and the two pushes of a restart. The walks
  of a termination and of a removal are one step each; the walk over the
  workers of a restarting supervisor is one step per worker and reads the
  table as it is at that moment.
* `PH_ACTOR_CRASHED` is never assigned in the code, so the branches on it are
  left out.
* A `receiveBlock()` that returns NULL at once, an exception the PHP code
  catches, a refused call: steps that change nothing.
* Failing `object_init_ex`, a second call of a constructor by PHP code and
  failing allocations are not modelled.
* A ring in a tree (see `RegistryCycle`) leaves its caller in an endless walk
  with the table's lock; other threads stop at their next lookup. The lock of
  the one actor the walker also holds is modelled for crashes only.
* Task queues are destroyed at shutdown with what is left in them; Mail has
  that, while in ActorSystem they just stay.
* VmStack: the top and the end of a page move with it, so that a page stands
  for all three fields of a `ph_vmcontext_t`; the two halves of a reset (the
  task, then the context) are one step.
* Mail: the task queue of the main thread and the mailbox are sequences, since
  the pointers of a queue are those of the worker's. A crash that a supervisor
  causes from another thread is left to ActorSystem and VmStack, and so is the
  creator's read of the reference after the push (`WriteRef`): the accesses
  that `NoDangling` is about are those of the calls and handlers modelled here.
  The contents
  of a block are its name. Senders are anonymous, and each message has its own
  blocks.
* Startup: a table other than the class table is a set that is copied in one
  step, since its entries do not depend on each other. Fields of a class that
  are copied one by one (names, counters, offsets, the opcodes of a method)
  are left out; what remains of a class are its links and its values. Internal
  classes are found without a step of their own. Only the first actor system of
  a process is modelled.
* The data structures are modelled for one caller at a time, since a lock
  protects them everywhere but in two places (`actor_system.c:198` and
  `supervisor.c:116`), which are listed as hazards.

## Not modelled

* The module's life cycle, its object handlers and property handlers that only
  throw: registration, without states of their own.
* `ph_debug.c`, and the assembler that switches C stacks: a switch is atomic
  here, and what it switches to is `context` in ActorSystem.
* The growth of `ph_vector` (a `realloc` when full); removal lists are sets.
* The order of mutexes (see the plan), and PHP destructors run by a removal.
* A second actor system after an explicit `block()`, whose counters keep their
  old values (`actor_system.c:421`).

## Plan

Done: Registry, ActorSystem with Mailboxes, Hashtable, Queue with Fifo,
VmStack, Mail, Copying with Startup, and the proofs above. To come, in this
order:

1. `Locks`: the order of the mutexes, with destructors that run PHP code under
   the lock of a removal list, the unlocked walks, and the unlocked counter of
   restarts.
2. Runs of ActorSystem with larger trees, `newWorker` during a restart, and
   names that change hands.
