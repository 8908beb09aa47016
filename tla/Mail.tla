-------------------------------- MODULE Mail --------------------------------
(***************************************************************************)
(* Who owns the memory of a message.  A string, an entry, a task and a     *)
(* message are malloc'ed blocks, which pass from the sender to the main    *)
(* thread's task queue, to the mailbox of the receiver and to whoever      *)
(* frees them: the receiver, the end of its life or the end of the system. *)
(*                                                                         *)
(* There is one actor, on one worker thread whose task queue is the        *)
(* ph_queue of module Queue.  The senders, and the supervisor that takes   *)
(* the actor down with it, run on other threads and may act at any time.   *)
(***************************************************************************)
EXTENDS Queue, FiniteSets, TLC

CONSTANTS
    Values,         \* what PHP code sends
    ArgLists,       \* what it passes to the constructor
    Half,           \* a C int is in -Half .. Half - 1
    MaxMessages,    \* bound on the calls of send()
    MaxTasks,       \* bound on the worker's tasks of one kind at a time
    Neighbours,     \* how many other actors the worker has
    MaxRestarts     \* bound on the restarts of the actor

(* The type of a task; RESUME_OTHER is a RESUME_ACTOR for a neighbour.     *)
Kind == {"NEW_ACTOR", "RESUME_ACTOR", "FREE_VM_STACK", "RESUME_OTHER"}
Message == 1 .. MaxMessages

(* What a send() or a constructor may be given; RESOURCE is any type that  *)
(* cannot be stored.                                                       *)
PhpType == {"NULL", "FALSE", "TRUE", "LONG", "DOUBLE", "STRING", "ARRAY", "OBJECT",
            "CLOSURE", "RESOURCE"}
PhpValue == [type : PhpType, data : Int]

ASSUME TaskAssumption == Element = Kind \X (1 .. MaxTasks)
ASSUME HalfAssumption == Half \in Nat \ {0}
ASSUME BoundAssumption == {MaxMessages, MaxTasks, MaxRestarts} \subseteq Nat
ASSUME NeighbourAssumption == Neighbours \in 0 .. MaxTasks
ASSUME ValueAssumption ==
    /\ Values \subseteq PhpValue
    /\ \A vs \in ArgLists : vs \in Seq(PhpValue)

VARIABLES
    heap,           \* the blocks malloc has returned and free has not
    misused,        \* not in the program: blocks freed or read while not in heap
    sent, got,      \* what was posted by send(), what receiveBlock() returned
    args,           \* what was passed to the constructor
    stage,          \* where a message is, or how it ended
    outbox,         \* the messages of main's task queue
    mailbox,        \* actor->mailbox
    registered,     \* the actor is in actors_by_ref
    doomed,         \* it is in actor_removals
    state,          \* actor->state
    restarts,
    worker, main,   \* where each thread is
    shutdown

actorVars == <<args, registered, doomed, state, restarts>>
messageVars == <<sent, got, stage, outbox, mailbox>>
threadVars == <<worker, main, shutdown>>
mailVars == <<vars, heap, misused, actorVars, messageVars, threadVars>>

NoValue == [type |-> "NONE", data |-> 0]

(* A block is named by what it holds and for whom.                         *)
Actor == <<"actor", 0>>
Arg(i) == <<"arg", i>>
Msg(m) == <<"message", m>>

MailInit ==
    /\ element = [c \in Cell |-> CHOOSE e \in Element : TRUE]
    /\ Init
    /\ heap = {} /\ misused = {}
    /\ sent = [m \in Message |-> NoValue] /\ got = [m \in Message |-> NoValue]
    /\ args = <<>>
    /\ stage = [m \in Message |-> "none"]
    /\ outbox = <<>> /\ mailbox = <<>>
    /\ registered = FALSE /\ doomed = FALSE
    /\ state = "none"
    /\ restarts = 0
    /\ worker = "loop" /\ main = "loop"
    /\ shutdown = FALSE

(* What one handler does to the heap: it allocates and reads, then frees.  *)
Memory(makes, reads, frees) ==
    /\ heap' = (heap \cup makes) \ frees
    /\ misused' = misused \cup ((reads \cup frees) \ (heap \cup makes))

-----------------------------------------------------------------------------
(* Values.  An entry keeps an array or an object serialised, a closure as  *)
(* its function alone, and an integer of PHP in a C int.                   *)
Unbound == 0
CUnsigned(n) == n % (2 * Half)
CInt(n) == ((n + Half) % (2 * Half)) - Half

Serialises(v) == v.type # "RESOURCE"
Stored(v) ==
    CASE v.type = "LONG" -> [v EXCEPT !.data = CInt(@)]
      [] v.type = "CLOSURE" -> [type |-> "FUNC", data |-> Unbound]
      [] OTHER -> v
Loaded(e) == IF e.type = "FUNC" THEN [type |-> "CLOSURE", data |-> e.data] ELSE e

Buffer(v, o) ==
    IF v.type \in {"STRING", "ARRAY", "OBJECT", "CLOSURE"} THEN {<<"buffer", o>>} ELSE {}

(* ph_entry_value_free knows nothing of objects.                           *)
ValueFree(v, o) == IF v.type = "OBJECT" THEN {} ELSE Buffer(v, o)
EntryFree(m) == {<<"entry", Msg(m)>>} \cup ValueFree(sent[m], Msg(m))
MessageFree(m) == {<<"message", Msg(m)>>, <<"from", Msg(m)>>} \cup EntryFree(m)

-----------------------------------------------------------------------------
(* Tasks of the worker, told apart by the block that holds them.           *)
Strings(e) ==
    CASE e[1] = "NEW_ACTOR" -> {<<"ref", e>>, <<"class", e>>}
      [] e[1] \in {"RESUME_ACTOR", "RESUME_OTHER"} -> {<<"ref", e>>}
      [] e[1] = "FREE_VM_STACK" -> {}
TaskBlocks(e) == {<<"task", e>>} \cup Strings(e)
StructOnly(e) == {<<"task", e>>}
TaskFree(e) == TaskBlocks(e)

(* malloc may return what is free again; MaxTasks bounds what it can.      *)
Unallocated(kind) ==
    {e \in Element : e[1] = kind /\ TaskBlocks(e) \cap heap = {}}
Room(kind) == Unallocated(kind) # {}
NewTask(kind) == CHOOSE e \in Unallocated(kind) : TRUE

Queued == {element[chain[i]] : i \in 1 .. Len(chain)}

-----------------------------------------------------------------------------
(* Blocks of the actor.                                                    *)
ArgBuffers(vs) == UNION {Buffer(vs[i], Arg(i)) : i \in 1 .. Len(vs)}
ArgsFree(vs) == UNION {ValueFree(vs[i], Arg(i)) : i \in 1 .. Len(vs)}
ActorStrings == {<<"ref", Actor>>, <<"class", Actor>>}
ActorBlocks == {<<"struct", Actor>>, <<"name", Actor>>, <<"args", Actor>>}
               \cup ActorStrings
InMailbox == {mailbox[i] : i \in 1 .. Len(mailbox)}
ActorFree(vs) == ActorBlocks \cup ArgsFree(vs) \cup UNION {MessageFree(m) : m \in InMailbox}

OthersRun == main \in {"loop", "left"}

(* ActorRef::__construct and newWorker: an argument that does not          *)
(* serialise, a supervisor that is gone or a name that is taken undo all.  *)
ArgsRefused(vs, i) ==
    LET before == SubSeq(vs, 1, i - 1) IN
    /\ ~Serialises(vs[i])
    /\ \A k \in 1 .. i - 1 : Serialises(vs[k])
    /\ Memory(ArgBuffers(before) \cup {<<"args", Actor>>}, {},
              ArgsFree(before) \cup {<<"args", Actor>>})

CreateFails(vs) ==
    /\ OthersRun /\ state = "none"
    /\ \/ \E i \in 1 .. Len(vs) : ArgsRefused(vs, i)
       \/ /\ \A i \in 1 .. Len(vs) : Serialises(vs[i])
          /\ Room("NEW_ACTOR")
          /\ LET e == NewTask("NEW_ACTOR") IN
             Memory(ActorBlocks \cup ArgBuffers(vs) \cup TaskBlocks(e), {},
                    ActorFree(vs) \cup TaskFree(e))
    /\ args' = vs
    /\ state' = "refused"
    /\ UNCHANGED <<vars, registered, doomed, restarts, messageVars, threadVars>>

Create(vs) ==
    LET e == NewTask("NEW_ACTOR") IN
    /\ OthersRun /\ state = "none"
    /\ \A i \in 1 .. Len(vs) : Serialises(vs[i])
    /\ Room("NEW_ACTOR")
    /\ Push(e)
    /\ Memory(ActorBlocks \cup ArgBuffers(vs) \cup TaskBlocks(e), {}, {})
    /\ args' = vs
    /\ state' = "SPAWNING"
    /\ registered' = TRUE
    /\ UNCHANGED <<doomed, restarts, messageVars, threadVars>>

-----------------------------------------------------------------------------
(* Actor::send, on the thread of any actor.                                *)
SendStrings(m) == {<<"to", Msg(m)>>, <<"from", Msg(m)>>}
SendBlocks(m) == SendStrings(m) \cup {<<"task", Msg(m)>>, <<"entry", Msg(m)>>}
FailedSendTaskOnly(m) == SendBlocks(m) \ SendStrings(m)
FailedSend(m) == SendBlocks(m)

Send(m, v) ==
    /\ OthersRun
    /\ stage[m] = "none" /\ \A k \in 1 .. m - 1 : stage[k] # "none"
    /\ \/ \* the sender is no longer registered
          /\ Memory({<<"to", Msg(m)>>}, {}, {})
          /\ stage' = [stage EXCEPT ![m] = "refused"]
          /\ UNCHANGED <<sent, outbox>>
       \/ /\ ~Serialises(v)
          /\ Memory(SendBlocks(m), {}, FailedSend(m))
          /\ stage' = [stage EXCEPT ![m] = "failed"]
          /\ UNCHANGED <<sent, outbox>>
       \/ /\ Serialises(v)
          /\ Memory(SendBlocks(m) \cup Buffer(v, Msg(m)), {}, {})
          /\ sent' = [sent EXCEPT ![m] = v]
          /\ stage' = [stage EXCEPT ![m] = "posted"]
          /\ outbox' = Append(outbox, m)
    /\ UNCHANGED <<vars, got, mailbox, actorVars, threadVars>>

(* send_message and what the loop of the main thread does after it: the    *)
(* message takes the entry and the sender's reference over from the task.  *)
SendTaskFreeAll(m) == {<<"task", Msg(m)>>, <<"to", Msg(m)>>} \cup EntryFree(m)
SendTaskFree(m) == {<<"task", Msg(m)>>, <<"to", Msg(m)>>}

Deliver ==
    LET m == Head(outbox)
        wakes == state = "IDLE" /\ mailbox = <<>>
        e == NewTask("RESUME_ACTOR")
    IN
    /\ main = "loop" /\ outbox # <<>>
    /\ registered
    /\ wakes => Room("RESUME_ACTOR")
    /\ outbox' = Tail(outbox)
    /\ mailbox' = Append(mailbox, m)
    /\ stage' = [stage EXCEPT ![m] = "mailed"]
    /\ Memory({<<"message", Msg(m)>>} \cup IF wakes THEN TaskBlocks(e) ELSE {},
              {<<"struct", Actor>>} \cup IF wakes THEN ActorStrings ELSE {},
              SendTaskFree(m))
    /\ IF wakes THEN Push(e) ELSE UNCHANGED vars
    /\ UNCHANGED <<sent, got, actorVars, threadVars>>

(* The receiver never existed, or no longer does.                          *)
Drop ==
    LET m == Head(outbox) IN
    /\ main = "loop" /\ outbox # <<>>
    /\ outbox' = Tail(outbox)
    /\ stage' = [stage EXCEPT ![m] = "dropped"]
    /\ Memory({}, {}, SendTaskFree(m))
    /\ UNCHANGED <<vars, sent, got, mailbox, actorVars, threadVars>>

-----------------------------------------------------------------------------
(* The worker: message_handling_loop.  result is its current_task.         *)
Unregistered ==
    /\ registered' = FALSE
    /\ doomed' = (doomed \/ registered)
    /\ state' = IF registered THEN "SHUTTING_DOWN" ELSE state

Removals ==
    IF doomed
    THEN /\ Memory({}, {}, ActorFree(args))
         /\ stage' = [m \in Message |-> IF m \in InMailbox THEN "discarded" ELSE stage[m]]
         /\ mailbox' = <<>>
         /\ doomed' = FALSE
         /\ state' = "freed"
         /\ UNCHANGED <<args, registered, restarts, sent, got, outbox>>
    ELSE UNCHANGED <<heap, misused, actorVars, messageVars>>

PerformActorRemovals ==
    /\ worker = "loop" /\ doomed
    /\ worker' = "pop"
    /\ Removals
    /\ UNCHANGED <<vars, main, shutdown>>

PopTask ==
    /\ worker = "pop" \/ (worker = "loop" /\ ~doomed)
    /\ Pop
    /\ worker' = IF elements = NoCell THEN "empty" ELSE "task"
    /\ UNCHANGED <<heap, misused, actorVars, messageVars, main, shutdown>>

CheckShutdown ==
    /\ worker = "empty"
    /\ worker' = IF shutdown THEN "left" ELSE "loop"
    /\ UNCHANGED <<vars, heap, misused, actorVars, messageVars, main, shutdown>>

(* new_actor; the constructor is the beginning of what the actor runs.     *)
HandleNew ==
    /\ worker = "task" /\ result[1] = "NEW_ACTOR"
    /\ IF registered
       THEN /\ Memory({}, Strings(result) \cup ActorBlocks \cup ArgBuffers(args), {})
            /\ state' = "ACTIVE"
            /\ worker' = "run"
       ELSE /\ Memory({}, Strings(result), StructOnly(result))
            /\ worker' = "loop"
            /\ UNCHANGED state
    /\ UNCHANGED <<vars, args, registered, doomed, restarts, messageVars, main, shutdown>>

HandleResume ==
    /\ worker = "task" /\ result[1] = "RESUME_ACTOR"
    /\ IF ~registered
       THEN \* the assertion fails, and the program ends
            /\ worker' = "aborted"
            /\ UNCHANGED <<heap, misused, state, messageVars>>
       ELSE LET m == Head(mailbox) IN
            /\ Memory({}, {<<"struct", Actor>>} \cup Buffer(sent[m], Msg(m)),
                      Strings(result) \cup MessageFree(m))
            /\ got' = [got EXCEPT ![m] = Loaded(Stored(sent[m]))]
            /\ stage' = [stage EXCEPT ![m] = "received"]
            /\ mailbox' = Tail(mailbox)
            /\ state' = "ACTIVE"
            /\ worker' = "run"
            /\ UNCHANGED <<sent, outbox>>
    /\ UNCHANGED <<vars, args, registered, doomed, restarts, main, shutdown>>

HandleFree ==
    /\ worker = "task" /\ result[1] = "FREE_VM_STACK"
    /\ Memory({}, {}, StructOnly(result))
    /\ worker' = "loop"
    /\ UNCHANGED <<vars, actorVars, messageVars, main, shutdown>>

(* An idle neighbour is sent a message, and runs until it blocks again.    *)
WakeNeighbour ==
    \E n \in 1 .. Neighbours :
        LET e == <<"RESUME_OTHER", n>> IN
        /\ main = "loop"
        /\ e \in Unallocated("RESUME_OTHER")
        /\ Push(e)
        /\ Memory(TaskBlocks(e), {}, {})
        /\ UNCHANGED <<actorVars, messageVars, threadVars>>

ResumeNeighbour ==
    /\ worker = "task" /\ result[1] = "RESUME_OTHER"
    /\ Memory({}, {}, Strings(result) \cup StructOnly(result))
    /\ worker' = "loop"
    /\ UNCHANGED <<vars, actorVars, messageVars, main, shutdown>>

(* receive_block, up to the return to the loop, which frees current_task.  *)
Block ==
    LET e == NewTask("RESUME_ACTOR")
        wakes == mailbox # <<>>
    IN
    /\ worker = "run" /\ state = "ACTIVE"
    /\ wakes => Room("RESUME_ACTOR")
    /\ state' = "IDLE"
    /\ worker' = "loop"
    /\ Memory(IF wakes THEN TaskBlocks(e) ELSE {}, ActorStrings, StructOnly(result))
    /\ IF wakes THEN Push(e) ELSE UNCHANGED vars
    /\ UNCHANGED <<args, registered, doomed, restarts, messageVars, main, shutdown>>

(* ph_actor_crash of a supervised actor: two tasks, pushed one at a time.  *)
Crash ==
    LET e == NewTask("FREE_VM_STACK") IN
    /\ worker = "run"
    /\ registered /\ restarts < MaxRestarts
    /\ Room("FREE_VM_STACK")
    /\ Push(e)
    /\ Memory(TaskBlocks(e), {<<"struct", Actor>>}, {})
    /\ state' = "RESTARTING"
    /\ restarts' = restarts + 1
    /\ worker' = "renew"
    /\ UNCHANGED <<args, registered, doomed, messageVars, main, shutdown>>

Renew ==
    LET e == NewTask("NEW_ACTOR") IN
    /\ worker = "renew"
    /\ Room("NEW_ACTOR")
    /\ Push(e)
    /\ Memory(TaskBlocks(e), ActorStrings, StructOnly(result))
    /\ worker' = "loop"
    /\ UNCHANGED <<actorVars, messageVars, main, shutdown>>

(* receive() returns, or throws without a supervisor to restart the actor. *)
End ==
    /\ worker = "run"
    /\ Unregistered
    /\ Memory({}, ActorStrings, StructOnly(result))
    /\ worker' = "loop"
    /\ UNCHANGED <<vars, args, restarts, messageVars, main, shutdown>>

(* A supervisor that ends takes the actor down, from another thread.       *)
EndWithSupervisor ==
    /\ OthersRun
    /\ registered
    /\ Unregistered
    /\ Memory({}, ActorStrings \cup {<<"struct", Actor>>}, {})
    /\ UNCHANGED <<vars, args, restarts, messageVars, threadVars>>

-----------------------------------------------------------------------------
(* The end of the system: scheduler_blocking and worker_function.          *)
Shutdown ==
    /\ OthersRun
    /\ shutdown' = TRUE
    /\ UNCHANGED <<vars, heap, misused, actorVars, messageVars, worker, main>>

MainLeaves ==
    /\ main = "loop" /\ outbox = <<>> /\ shutdown
    /\ main' = "left"
    /\ UNCHANGED <<vars, heap, misused, actorVars, messageVars, worker, shutdown>>

DestroyTables ==
    /\ main = "left" /\ worker = "left"
    /\ Unregistered
    /\ main' = "queues"
    /\ UNCHANGED <<vars, heap, misused, args, restarts, messageVars, worker, shutdown>>

FinalRemovals ==
    /\ worker = "left" /\ main = "queues"
    /\ worker' = "done"
    /\ Removals
    /\ UNCHANGED <<vars, main, shutdown>>

DestroyQueue ==
    /\ main = "queues"
    /\ Destroy
    /\ UNCHANGED <<heap, misused, actorVars, messageVars, threadVars>>

DestroyTask ==
    /\ main = "queues" /\ destroying
    /\ Pop
    /\ Memory({}, {}, TaskFree(result'))
    /\ UNCHANGED <<actorVars, messageVars, threadVars>>

Join ==
    /\ main = "queues" /\ destroying /\ size = 0
    /\ worker = "done"
    /\ main' = "ended"
    /\ UNCHANGED <<vars, heap, misused, actorVars, messageVars, worker, shutdown>>

MailNext ==
    /\ worker # "aborted"
    /\ \/ \E vs \in ArgLists : Create(vs) \/ CreateFails(vs)
       \/ \E m \in Message, v \in Values : Send(m, v)
       \/ Deliver \/ Drop
       \/ PerformActorRemovals \/ PopTask \/ CheckShutdown
       \/ HandleNew \/ HandleResume \/ HandleFree
       \/ WakeNeighbour \/ ResumeNeighbour
       \/ Block \/ Crash \/ Renew \/ End \/ EndWithSupervisor
       \/ Shutdown \/ MainLeaves \/ DestroyTables \/ FinalRemovals
       \/ DestroyQueue \/ DestroyTask \/ Join

MailSpec == MailInit /\ [][MailNext]_mailVars

-----------------------------------------------------------------------------
(* Blocks that a structure still in use points to, and who will free them. *)
Undelivered(m) == SendBlocks(m) \cup Buffer(sent[m], Msg(m))
Unread(m) == {<<"message", Msg(m)>>, <<"from", Msg(m)>>, <<"entry", Msg(m)>>} \cup Buffer(sent[m], Msg(m))
InOutbox == UNION {Undelivered(outbox[i]) : i \in 1 .. Len(outbox)}
InQueue == UNION {TaskBlocks(e) : e \in Queued}
InHand ==
    CASE worker \in {"task", "aborted"} -> TaskBlocks(result)
      [] worker \in {"run", "renew"} -> StructOnly(result)
      [] OTHER -> {}
OfActor ==
    IF state \in {"none", "refused", "freed"} THEN {}
    ELSE ActorBlocks \cup ArgBuffers(args) \cup UNION {Unread(m) : m \in InMailbox}
Owned == InOutbox \cup InQueue \cup InHand \cup OfActor

(* What the code is known not to free: the recipient of a send() by an     *)
(* actor that is no longer registered, all of a message but its task when  *)
(* there is no receiver, serialised objects, and the strings of a          *)
(* NEW_ACTOR task that is handled and not destroyed.                       *)
KnownLeaks ==
    {<<"to", Msg(m)>> : m \in {k \in Message : stage[k] = "refused"}}
    \cup (UNION {Undelivered(m) \ SendTaskFree(m) : m \in {k \in Message : stage[k] = "dropped"}})
    \cup (UNION {Buffer(sent[m], Msg(m)) \ ValueFree(sent[m], Msg(m)) :
                 m \in {k \in Message : stage[k] \in {"received", "discarded"}}})
    \cup (IF state \in {"refused", "freed"} THEN ArgBuffers(args) \ ArgsFree(args) ELSE {})
    \cup (UNION {Strings(<<"NEW_ACTOR", n>>) : n \in 1 .. MaxTasks})

(* Types, the queue's among them; what arrives of an integer is the signed  *)
(* int of an entry.                                                        *)
MailTypeOK ==
    /\ TypeOK
    /\ sent \in [Message -> Values \cup {NoValue}]
    /\ DOMAIN got = Message
    /\ \A m \in Message : got[m].type = "LONG" => got[m].data \in -Half .. Half - 1
    /\ args \in ArgLists \cup {<<>>}
    /\ stage \in [Message -> {"none", "refused", "failed", "posted", "dropped", "mailed",
                              "received", "discarded"}]
    /\ \A q \in {outbox, mailbox} : q \in Seq(Message)
    /\ state \in {"none", "refused", "SPAWNING", "ACTIVE", "IDLE", "RESTARTING",
                  "SHUTTING_DOWN", "freed"}
    /\ restarts \in 0 .. MaxRestarts
    /\ worker \in {"loop", "pop", "empty", "task", "run", "renew", "left", "done", "aborted"}
    /\ main \in {"loop", "left", "queues", "ended"}
    /\ {registered, doomed, shutdown} \subseteq BOOLEAN

(* A block that a task, a message or the actor points to is allocated, and *)
(* none is read or freed once it is not: the entry and the sender's        *)
(* reference change owner without being freed or kept by the old one.      *)
NoDangling == misused = {} /\ Owned \subseteq heap

(* Every block that is allocated will be freed by who owns it, except for  *)
(* the leaks that KnownLeaks lists.                                        *)
NoOtherLeak == heap \ Owned \subseteq KnownLeaks

(* When ActorSystem::block() returns, only those leaks are left, and the   *)
(* messages sent after the main thread had left its loop.                  *)
CleanEnd == main = "ended" => heap \subseteq KnownLeaks \cup InOutbox

(* A value arrives as it was sent, except an integer that a C int cannot   *)
(* hold and the object a closure is bound to.                              *)
Survives(v) ==
    /\ v.type = "LONG" => v.data \in -Half .. Half - 1
    /\ v.type = "CLOSURE" => v.data = Unbound
ValueKept ==
    \A m \in Message : stage[m] = "received" /\ Survives(sent[m]) => got[m] = sent[m]
=============================================================================
