----------------------------- MODULE MailProofs -----------------------------
(***************************************************************************)
(* Every block of memory has one owner, for any values, messages, tasks    *)
(* and restarts.  The books are kept owner by owner: what the heap holds   *)
(* for a message follows from its stage, for a task from where it is       *)
(* (Queue says where), for the actor from its state (Accounts).  That the  *)
(* stages, places and states agree with each other is Order.               *)
(***************************************************************************)
EXTENDS Mail, QueueProofs

(* The queue below is one of module Queue, whatever is done with it.       *)
LEMMA NewTaskFresh ==
    ASSUME NEW kind, Room(kind)
    PROVE  /\ NewTask(kind) \in Element /\ NewTask(kind)[1] = kind
           /\ TaskBlocks(NewTask(kind)) \cap heap = {}
  BY DEF Room, NewTask, Unallocated

LEMMA WorkerOnQueue ==
    ASSUME PopTask \/ HandleNew \/ HandleResume \/ HandleFree \/ ResumeNeighbour
           \/ Block \/ Crash \/ Renew \/ End
    PROVE  Next \/ UNCHANGED vars
  <1>1. CASE PopTask
    BY <1>1 DEF PopTask, Next
  <1>2. CASE Block
    BY <1>2, NewTaskFresh DEF Block, Next
  <1>3. CASE Crash
    BY <1>3, NewTaskFresh DEF Crash, Next
  <1>4. CASE Renew
    BY <1>4, NewTaskFresh DEF Renew, Next
  <1>5. CASE HandleNew \/ HandleResume \/ HandleFree \/ ResumeNeighbour \/ End
    BY <1>5 DEF HandleNew, HandleResume, HandleFree, ResumeNeighbour, End
  <1> QED
    BY <1>1, <1>2, <1>3, <1>4, <1>5

LEMMA MailOnQueue == [MailNext]_mailVars => [Next]_vars
  <1> SUFFICES ASSUME [MailNext]_mailVars PROVE Next \/ UNCHANGED vars
    OBVIOUS
  <1>1. ASSUME NEW vs, Create(vs) PROVE Next
    BY <1>1, NewTaskFresh DEF Create, Next
  <1>2. ASSUME NEW vs, CreateFails(vs) PROVE UNCHANGED vars
    BY <1>2 DEF CreateFails
  <1>3. ASSUME NEW m, NEW v, Send(m, v) PROVE UNCHANGED vars
    BY <1>3 DEF Send
  <1>4. CASE Deliver
    BY <1>4, NewTaskFresh DEF Deliver, Next
  <1>5. CASE WakeNeighbour
    BY <1>5 DEF WakeNeighbour, Unallocated, Next
  <1>6. CASE DestroyQueue \/ DestroyTask
    BY <1>6 DEF DestroyQueue, DestroyTask, Next
  <1>7. CASE Drop \/ PerformActorRemovals \/ CheckShutdown \/ EndWithSupervisor \/ Shutdown
             \/ MainLeaves \/ DestroyTables \/ FinalRemovals \/ Join
    BY <1>7 DEF Drop, PerformActorRemovals, CheckShutdown, EndWithSupervisor, Shutdown,
                MainLeaves, DestroyTables, FinalRemovals, Join
  <1>8. CASE UNCHANGED mailVars
    BY <1>8 DEF mailVars
  <1> QED
    BY <1>1, <1>2, <1>3, <1>4, <1>5, <1>6, <1>7, <1>8, WorkerOnQueue DEF MailNext

LEMMA MailUsesQueue == MailSpec => Spec
  <1>1. MailInit => Init
    BY DEF MailInit
  <1> QED
    BY <1>1, MailOnQueue, PTL DEF MailSpec, Spec

(* The worker's task queue stays a list without a loop, whatever its task  *)
(* handlers and other threads push, and through its own destruction.       *)
THEOREM TasksAlwaysLinked == MailSpec => []LinkedList
  BY MailUsesQueue, AlwaysLinked, PTL

(* Tasks are handled once each, in the order they were pushed.             *)
THEOREM TaskQueueIsFifo == MailSpec => ImplementsFifo
  BY MailUsesQueue, QueueIsFifo, PTL

-----------------------------------------------------------------------------
(* Sequences without repetition: a queue, the outbox and the mailbox.      *)
Entries(s) == {s[i] : i \in 1 .. Len(s)}
Distinct(s) == \A i, j \in 1 .. Len(s) : s[i] = s[j] => i = j

LEMMA AppendEntries ==
    ASSUME NEW S, NEW s \in Seq(S), NEW x \in S
    PROVE  /\ Append(s, x) \in Seq(S) /\ Append(s, x) # <<>>
           /\ Entries(Append(s, x)) = Entries(s) \cup {x}
           /\ x \notin Entries(s) /\ Distinct(s) => Distinct(Append(s, x))
  <1> DEFINE n == Len(s)
             t == Append(s, x)
  <1>1. n \in Nat /\ t \in Seq(S) /\ Len(t) = n + 1 /\ t[n + 1] = x /\ t # <<>>
    OBVIOUS
  <1>2. \A i \in 1 .. n : t[i] = s[i]
    OBVIOUS
  <1>3. 1 .. n + 1 = (1 .. n) \cup {n + 1}
    BY <1>1
  <1> HIDE DEF t, n
  <1>4. Entries(t) = {s[i] : i \in 1 .. n} \cup {x}
    BY <1>1, <1>2, <1>3 DEF Entries
  <1>5. ASSUME x \notin Entries(s), Distinct(s) PROVE Distinct(t)
    <2> SUFFICES ASSUME NEW i \in 1 .. n + 1, NEW j \in 1 .. n + 1, t[i] = t[j] PROVE i = j
      BY <1>1 DEF Distinct
    <2> QED
      BY <1>1, <1>2, <1>3, <1>5 DEF Entries, Distinct, n
  <1> QED
    BY <1>1, <1>4, <1>5 DEF t, n, Entries

LEMMA TailEntries ==
    ASSUME NEW S, NEW s \in Seq(S), s # <<>>
    PROVE  /\ Head(s) \in Entries(s) /\ Head(s) \in S /\ Tail(s) \in Seq(S)
           /\ Entries(s) = Entries(Tail(s)) \cup {Head(s)}
           /\ Distinct(s) => Head(s) \notin Entries(Tail(s)) /\ Distinct(Tail(s))
  <1> DEFINE n == Len(s)
             t == Tail(s)
  <1>1. /\ n \in Nat /\ n > 0 /\ t \in Seq(S) /\ Len(t) = n - 1
        /\ Head(s) = s[1] /\ s[1] \in S
    OBVIOUS
  <1>2. \A i \in 1 .. n - 1 : t[i] = s[i + 1] /\ i + 1 \in 2 .. n
    BY <1>1
  <1>3. \A i \in 2 .. n : i - 1 \in 1 .. n - 1 /\ t[i - 1] = s[i]
    BY <1>1, <1>2
  <1>4. 1 .. n = {1} \cup (2 .. n) /\ 1 \notin 2 .. n
    BY <1>1
  <1> HIDE DEF t, n
  <1>5. Entries(s) = Entries(t) \cup {s[1]}
    <2>1. Entries(s) = {s[1]} \cup {s[i] : i \in 2 .. n}
      BY <1>4 DEF Entries, n
    <2>2. Entries(t) = {t[i] : i \in 1 .. n - 1}
      BY <1>1 DEF Entries
    <2>3. \A i \in 2 .. n : s[i] \in Entries(t)
      BY <1>3, <2>2
    <2>4. \A x \in Entries(t) : x \in {s[i] : i \in 2 .. n}
      BY <1>2, <2>2
    <2> QED
      BY <2>1, <2>3, <2>4
  <1>6. ASSUME Distinct(s) PROVE s[1] \notin Entries(t) /\ Distinct(t)
    <2>1. \A i \in 2 .. n : s[i] # s[1]
      BY <1>4, <1>6 DEF Distinct, n
    <2>2. \A i, j \in 1 .. n - 1 : t[i] = t[j] => i = j
      <3> TAKE i, j \in 1 .. n - 1
      <3>1. i + 1 \in 1 .. n /\ j + 1 \in 1 .. n /\ t[i] = s[i + 1] /\ t[j] = s[j + 1]
        BY <1>2, <1>4
      <3>2. s[i + 1] = s[j + 1] => i + 1 = j + 1
        BY <3>1, <1>6 DEF Distinct, n
      <3> QED
        BY <1>1, <3>1, <3>2
    <2>3. Entries(t) = {t[i] : i \in 1 .. n - 1} /\ (Distinct(t) <=> \A i, j \in 1 .. n - 1 : t[i] = t[j] => i = j)
      BY <1>1 DEF Entries, Distinct
    <2> QED
      BY <1>2, <2>1, <2>2, <2>3
  <1> QED
    BY <1>1, <1>5, <1>6 DEF Entries, t, n

(* What push and pop do to the set of queued tasks.                        *)
LEMMA QueuedIsContent ==
    ASSUME IInv
    PROVE  /\ Queued = Entries(Content) /\ Queued \subseteq Element
           /\ Queued = {} <=> chain = <<>>
  <1>1. Content \in Seq(Element) /\ Len(Content) = Len(chain) /\ chain \in Seq(Cell)
    BY ContentSeq DEF IInv, TypeOK
  <1>2. \A i \in 1 .. Len(chain) : Content[i] = element[chain[i]] /\ Content[i] \in Element
    BY <1>1 DEF Content
  <1>3. Queued = Entries(Content)
    BY <1>1, <1>2 DEF Queued, Entries
  <1>4. chain = <<>> => Queued = {}
    BY DEF Queued
  <1>5. chain # <<>> => element[chain[1]] \in Queued
    BY <1>1 DEF Queued
  <1> QED
    BY <1>1, <1>2, <1>3, <1>4, <1>5 DEF Entries

LEMMA PushQueued ==
    ASSUME IInv, NEW e \in Element, Push(e)
    PROVE  /\ IInv' /\ Queued' = Queued \cup {e} /\ result' = result
           /\ e \notin Queued /\ Distinct(Content) => Distinct(Content)'
  <1>1. IInv'
    BY StepIInv DEF Next
  <1>2. Content' = Append(Content, e) /\ result' = result /\ Content \in Seq(Element)
    BY <1>1, PushRefines, ContentSeq
  <1>3. Queued = Entries(Content)
    BY QueuedIsContent
  <1>4. Queued' = Entries(Content')
    <2>1. IInv' => (Queued = Entries(Content))'
      BY QueuedIsContent, PTL
    <2> QED
      BY <1>1, <2>1 DEF Entries
  <1>5. Distinct(Content)' <=> Distinct(Content')
    BY DEF Distinct
  <1> QED
    BY <1>1, <1>2, <1>3, <1>4, <1>5, AppendEntries

LEMMA PopQueued ==
    ASSUME IInv, Pop, Distinct(Content)
    PROVE  /\ IInv' /\ Distinct(Content)'
           /\ \/ /\ elements # NoCell /\ Queued' = Queued \ {result'}
                 /\ result' \in Queued /\ result' \in Element
              \/ elements = NoCell /\ Queued = {} /\ Queued' = {} /\ chain' = chain
  <1>1. IInv'
    BY StepIInv DEF Next
  <1>2. Content \in Seq(Element)
    BY ContentSeq
  <1>3. Queued = Entries(Content) /\ (Queued = {} <=> chain = <<>>)
    BY QueuedIsContent
  <1>4. Queued' = Entries(Content')
    <2>1. IInv' => (Queued = Entries(Content))'
      BY QueuedIsContent, PTL
    <2> QED
      BY <1>1, <2>1 DEF Entries
  <1>5. Distinct(Content)' <=> Distinct(Content')
    BY DEF Distinct
  <1>6. CASE elements = NoCell
    <2>1. chain = <<>> /\ chain' = chain /\ element' = element
      BY <1>6, CellAssumption DEF Pop, IInv, TypeOK, LinkedList
    <2>2. Queued' = Queued /\ Content' = Content
      BY <2>1 DEF Queued, Content
    <2> QED
      BY <1>1, <1>3, <1>5, <1>6, <2>1, <2>2
  <1>7. CASE elements # NoCell
    <2>1. chain # <<>>
      BY <1>7 DEF IInv, LinkedList
    <2>2. Content # <<>>
      BY <1>3, <2>1 DEF Entries
    <2>3. result' = Head(Content) /\ Content' = Tail(Content)
      BY <1>1, <2>2, PopRefines
    <2>4. /\ result' \in Queued /\ result' \in Element
          /\ Queued = Queued' \cup {result'} /\ result' \notin Queued'
          /\ Distinct(Content')
      BY <1>2, <1>3, <1>4, <2>2, <2>3, TailEntries
    <2> QED
      BY <1>1, <1>5, <1>7, <2>4
  <1> QED
    BY <1>6, <1>7

-----------------------------------------------------------------------------
(* The books.  Held(o) is what the heap holds for owner o.                 *)
Of(S, o) == {b \in S : b[2] = o}
Held(o) == Of(heap, o)

MessageHeap(m) ==
    CASE stage[m] \in {"none", "failed"} -> {}
      [] stage[m] = "refused" -> {<<"to", Msg(m)>>}
      [] stage[m] = "posted" -> Undelivered(m)
      [] stage[m] = "dropped" -> Undelivered(m) \ SendTaskFree(m)
      [] stage[m] = "mailed" -> Unread(m)
      [] stage[m] \in {"received", "discarded"} ->
            Buffer(sent[m], Msg(m)) \ ValueFree(sent[m], Msg(m))

(* A task is in the queue, in the hands of the worker or nowhere.          *)
Taken(e) == e = result /\ worker \in {"task", "run", "renew", "aborted"}
TaskHeap(e) ==
    IF e \in Queued THEN TaskBlocks(e)
    ELSE IF ~Taken(e) THEN {}
    ELSE IF worker \in {"task", "aborted"} THEN TaskBlocks(e) ELSE StructOnly(e)
Lost(e) == IF e[1] = "NEW_ACTOR" THEN Strings(e) ELSE {}

Alive == state \notin {"none", "refused", "freed"}
Owner == Element \cup {Actor} \cup {Msg(m) : m \in Message}
         \cup {Arg(i) : i \in 1 .. Len(args)}

MessagesHeld == \A m \in Message : Held(Msg(m)) = MessageHeap(m)
TasksHeld ==
    \A e \in Element :
        TaskHeap(e) \subseteq Held(e) /\ Held(e) \subseteq TaskHeap(e) \cup Lost(e)
ActorHeld ==
    /\ Held(Actor) = IF Alive THEN ActorBlocks ELSE {}
    /\ \A i \in 1 .. Len(args) :
        IF Alive THEN Held(Arg(i)) = Buffer(args[i], Arg(i))
        ELSE Held(Arg(i)) \subseteq Buffer(args[i], Arg(i)) \ ValueFree(args[i], Arg(i))
AllOwned == \A b \in heap : b[2] \in Owner

Accounts == misused = {} /\ MessagesHeld /\ TasksHeld /\ ActorHeld /\ AllOwned

(* A message is where its stage says, and in one place; so is a task.      *)
MessagePlaces ==
    /\ Distinct(outbox) /\ Distinct(mailbox)
    /\ \A m \in Message : stage[m] = "posted" <=> m \in Entries(outbox)
    /\ \A m \in Message : stage[m] = "mailed" <=> m \in Entries(mailbox)
TaskPlaces ==
    /\ Distinct(Content)
    /\ worker \in {"task", "run", "renew", "aborted"} => result \in Element \ Queued

(* What the state of the actor says of where it is.                        *)
Life ==
    /\ registered <=> state \in {"SPAWNING", "ACTIVE", "IDLE", "RESTARTING"}
    /\ doomed <=> state = "SHUTTING_DOWN"
    /\ mailbox # <<>> => Alive
    /\ state = "none" => args = <<>>
    /\ worker = "run" => state \in {"ACTIVE", "SHUTTING_DOWN"}
    /\ worker = "renew" => state \in {"RESTARTING", "SHUTTING_DOWN"}

(* An actor that is not gone waits for at most one task, which starts it   *)
(* or hands it a message that is there.                                    *)
Pending == Queued \cup IF worker = "task" THEN {result} ELSE {}
OneTask ==
    registered \/ state = "none" =>
        \A e \in Pending :
            /\ e[1] = "NEW_ACTOR" => state \in {"SPAWNING", "RESTARTING"} /\ worker # "renew"
            /\ e[1] = "RESUME_ACTOR" => state = "IDLE" /\ mailbox # <<>>
            /\ e[1] \in {"NEW_ACTOR", "RESUME_ACTOR"} =>
               \A f \in Pending : f[1] = e[1] => f = e

(* The threads end in order.                                               *)
Phases ==
    /\ main \in {"queues", "ended"} => worker \in {"left", "done"} /\ ~registered
    /\ worker = "done" => main \in {"queues", "ended"} /\ ~doomed
    /\ main = "ended" => chain = <<>> /\ worker = "done"

Order == IInv /\ MailTypeOK /\ MessagePlaces /\ TaskPlaces /\ Life /\ OneTask /\ Phases

-----------------------------------------------------------------------------
(* Blocks and owners.                                                      *)
LEMMA OwnersDiffer ==
    /\ \A m, k : Msg(m) = Msg(k) => m = k
    /\ \A i, k : Arg(i) = Arg(k) => i = k
    /\ \A m, i : Msg(m) # Arg(i) /\ Msg(m) # Actor /\ Arg(i) # Actor
    /\ \A e \in Element : e # Actor /\ \A m : e # Msg(m) /\ e # Arg(m)
  <1>1. \A e \in Element : e[1] \in Kind
    BY TaskAssumption
  <1>2. \A m, i : /\ Msg(m)[1] = "message" /\ Msg(m)[2] = m
                  /\ Arg(i)[1] = "arg" /\ Arg(i)[2] = i
                  /\ Actor[1] = "actor"
    BY DEF Msg, Arg, Actor
  <1> QED
    BY <1>1, <1>2 DEF Kind

LEMMA BlockOwners ==
    /\ \A e \in Element : /\ StructOnly(e) \cup Strings(e) = TaskBlocks(e)
                          /\ \A b \in TaskBlocks(e) : b[2] = e
    /\ \A v, o : /\ ValueFree(v, o) \subseteq Buffer(v, o)
                 /\ \A b \in Buffer(v, o) : b[2] = o
    /\ \A b \in ActorBlocks : b[2] = Actor
    /\ \A m : \A b \in SendBlocks(m) \cup MessageFree(m) : b[2] = Msg(m)
  <1>1. ASSUME NEW e \in Element
        PROVE  /\ StructOnly(e) \cup Strings(e) = TaskBlocks(e)
               /\ \A b \in TaskBlocks(e) : b[2] = e
    <2>1. e[1] \in Kind
      BY TaskAssumption
    <2>2. \A b \in Strings(e) : b[2] = e
      BY <2>1 DEF Kind, Strings
    <2> QED
      BY <2>2 DEF TaskBlocks, StructOnly
  <1>2. \A v, o : /\ ValueFree(v, o) \subseteq Buffer(v, o)
                 /\ \A b \in Buffer(v, o) : b[2] = o
    BY DEF ValueFree, Buffer
  <1>3. \A b \in ActorBlocks : b[2] = Actor
    BY DEF ActorBlocks, ActorStrings
  <1>4. \A m : \A b \in SendBlocks(m) : b[2] = Msg(m)
    BY DEF SendBlocks, SendStrings
  <1>5. \A m : \A b \in MessageFree(m) : b[2] = Msg(m)
    BY <1>2 DEF MessageFree, EntryFree
  <1> QED
    BY <1>1, <1>2, <1>3, <1>4, <1>5

(* What an owner holds after a step, and who is not concerned by it.       *)
LEMMA HeldAfter ==
    ASSUME NEW makes, NEW reads, NEW frees, Memory(makes, reads, frees), NEW o
    PROVE  /\ Held(o)' = (Held(o) \cup Of(makes, o)) \ Of(frees, o)
           /\ (\A b \in makes \cup frees : b[2] # o) => Held(o)' = Held(o)
  <1>1. Held(o)' = Of(heap', o)
    BY DEF Held, Of
  <1> QED
    BY <1>1 DEF Memory, Held, Of

LEMMA MessagesUntouched ==
    ASSUME MessagesHeld, NEW makes, NEW reads, NEW frees, Memory(makes, reads, frees),
           \A b \in makes \cup frees : \A m : b[2] # Msg(m),
           UNCHANGED <<sent, stage>>
    PROVE  MessagesHeld'
  <1> SUFFICES ASSUME NEW m \in Message PROVE Held(Msg(m))' = MessageHeap(m)'
    BY DEF MessagesHeld, Msg
  <1>1. Held(Msg(m))' = Held(Msg(m))
    BY HeldAfter
  <1>2. MessageHeap(m)' = MessageHeap(m)
    BY DEF MessageHeap, Undelivered, Unread
  <1> QED
    BY <1>1, <1>2 DEF MessagesHeld

LEMMA TasksUntouched ==
    ASSUME TasksHeld, NEW makes, NEW reads, NEW frees, Memory(makes, reads, frees),
           \A b \in makes \cup frees : b[2] \notin Element,
           UNCHANGED <<Queued, result, worker>>
    PROVE  TasksHeld'
  <1> SUFFICES ASSUME NEW e \in Element
               PROVE  TaskHeap(e)' \subseteq Held(e)' /\ Held(e)' \subseteq TaskHeap(e)' \cup Lost(e)
    BY DEF TasksHeld
  <1>1. Held(e)' = Held(e)
    BY HeldAfter
  <1>2. TaskHeap(e)' = TaskHeap(e)
    BY DEF TaskHeap, Taken
  <1> QED
    BY <1>1, <1>2 DEF TasksHeld

LEMMA ActorUntouched ==
    ASSUME ActorHeld, NEW makes, NEW reads, NEW frees, Memory(makes, reads, frees),
           \A b \in makes \cup frees : b[2] # Actor /\ \A i : b[2] # Arg(i),
           UNCHANGED <<Alive, args>>
    PROVE  ActorHeld'
  <1>1. Held(Actor)' = Held(Actor) /\ \A i : Held(Arg(i))' = Held(Arg(i))
    BY HeldAfter
  <1> QED
    BY <1>1 DEF ActorHeld

LEMMA StillOwned ==
    ASSUME AllOwned, NEW makes, NEW reads, NEW frees, Memory(makes, reads, frees),
           UNCHANGED args, \A b \in makes : b[2] \in Owner
    PROVE  AllOwned'
  <1>1. Owner' = Owner
    BY DEF Owner
  <1> QED
    BY <1>1 DEF AllOwned, Memory

-----------------------------------------------------------------------------
(* Types, and what becomes of a value on its way.                          *)
LEMMA CIntRange ==
    ASSUME NEW n \in Int
    PROVE  CInt(n) \in -Half .. Half - 1 /\ (n \in -Half .. Half - 1 => CInt(n) = n)
  <1> DEFINE w == 2 * Half
             k == n + Half
  <1>1. w \in Nat /\ w > 0 /\ k \in Int /\ Half \in Nat
    BY HalfAssumption
  <1>2. k % w \in 0 .. w - 1 /\ (k \in 0 .. w - 1 => k % w = k)
    <2> HIDE DEF w, k
    <2> QED
      BY <1>1
  <1> QED
    BY <1>1, <1>2 DEF CInt

LEMMA ReceivedValue ==
    ASSUME NEW v \in Values \cup {NoValue}
    PROVE  /\ LET e == Loaded(Stored(v)) IN e.type = "LONG" => e.data \in -Half .. Half - 1
           /\ Survives(v) => Loaded(Stored(v)) = v
  <1>1. /\ v = [type |-> v.type, data |-> v.data]
        /\ v.type # "FUNC" /\ v.data \in Int
    BY ValueAssumption DEF PhpValue, PhpType, NoValue
  <1>2. CASE v.type = "LONG"
    <2>1. Stored(v) = [type |-> "LONG", data |-> CInt(v.data)]
      BY <1>1, <1>2 DEF Stored
    <2>2. Loaded(Stored(v)) = [type |-> "LONG", data |-> CInt(v.data)]
      BY <2>1 DEF Loaded
    <2> QED
      BY <1>1, <1>2, <2>2, CIntRange DEF Survives
  <1>3. CASE v.type = "CLOSURE"
    <2>1. Loaded(Stored(v)) = [type |-> "CLOSURE", data |-> Unbound]
      BY <1>3 DEF Stored, Loaded
    <2> QED
      BY <1>1, <1>3, <2>1 DEF Survives
  <1>4. CASE v.type \notin {"LONG", "CLOSURE"}
    <2>1. Stored(v) = v
      BY <1>4 DEF Stored
    <2> QED
      BY <1>1, <1>4, <2>1 DEF Loaded
  <1> QED
    BY <1>2, <1>3, <1>4

(* A resume task is in the hands of the worker: there is a message.        *)
LEMMA ResumeHasMessage ==
    ASSUME Order, HandleResume, registered
    PROVE  mailbox # <<>> /\ state = "IDLE"
  BY DEF Order, OneTask, HandleResume, Pending

LEMMA SendersKeepTypes ==
    ASSUME MailTypeOK, TypeOK',
           \/ \E vs \in ArgLists : Create(vs) \/ CreateFails(vs)
           \/ \E m \in Message, v \in Values : Send(m, v)
           \/ Deliver \/ Drop
    PROVE  MailTypeOK'
  <1>1. ASSUME NEW vs \in ArgLists, Create(vs) PROVE MailTypeOK'
    BY <1>1 DEF Create, MailTypeOK, messageVars, threadVars
  <1>2. ASSUME NEW vs \in ArgLists, CreateFails(vs) PROVE MailTypeOK'
    BY <1>2 DEF CreateFails, MailTypeOK, messageVars, threadVars
  <1>3. ASSUME NEW m \in Message, NEW v \in Values, Send(m, v) PROVE MailTypeOK'
    <2>1. /\ sent' = sent \/ sent' = [sent EXCEPT ![m] = v]
          /\ outbox' = outbox \/ outbox' = Append(outbox, m)
          /\ \/ stage' = [stage EXCEPT ![m] = "refused"] \/ stage' = [stage EXCEPT ![m] = "failed"]
             \/ stage' = [stage EXCEPT ![m] = "posted"]
          /\ UNCHANGED <<got, mailbox, actorVars, threadVars>>
      BY <1>3 DEF Send
    <2>2. outbox' \in Seq(Message)
      BY <2>1 DEF MailTypeOK
    <2>3. /\ sent' \in [Message -> Values \cup {NoValue}]
          /\ stage' \in [Message -> {"none", "refused", "failed", "posted", "dropped", "mailed",
                                     "received", "discarded"}]
      BY <2>1 DEF MailTypeOK
    <2> QED
      BY <2>1, <2>2, <2>3 DEF MailTypeOK, actorVars, threadVars
  <1>4. CASE Deliver
    <2>1. Head(outbox) \in Message /\ Tail(outbox) \in Seq(Message)
      BY <1>4, TailEntries DEF Deliver, MailTypeOK
    <2> QED
      BY <1>4, <2>1 DEF Deliver, MailTypeOK, actorVars, threadVars
  <1>5. CASE Drop
    <2>1. Head(outbox) \in Message /\ Tail(outbox) \in Seq(Message)
      BY <1>5, TailEntries DEF Drop, MailTypeOK
    <2> QED
      BY <1>5, <2>1 DEF Drop, MailTypeOK, actorVars, threadVars
  <1> QED
    BY <1>1, <1>2, <1>3, <1>4, <1>5

LEMMA RemovalsKeepTypes ==
    ASSUME MailTypeOK, Removals, UNCHANGED <<main, shutdown>>, TypeOK',
           worker' \in {"pop", "done"}
    PROVE  MailTypeOK'
  <1>1. CASE doomed
    <2>1. stage' \in [Message -> {"none", "refused", "failed", "posted", "dropped", "mailed",
                                 "received", "discarded"}]
      BY <1>1 DEF Removals, MailTypeOK
    <2>2. mailbox' \in Seq(Message) /\ outbox' \in Seq(Message)
      BY <1>1 DEF Removals, MailTypeOK
    <2>3. {registered, doomed, shutdown}' \subseteq BOOLEAN
      BY <1>1 DEF Removals, MailTypeOK
    <2> QED
      BY <1>1, <2>1, <2>2, <2>3 DEF Removals, MailTypeOK
  <1>2. CASE ~doomed
    BY <1>2 DEF Removals, MailTypeOK, actorVars, messageVars
  <1> QED
    BY <1>1, <1>2

LEMMA TaskHandlersKeepTypes ==
    ASSUME Order, PopTask \/ HandleNew \/ HandleResume \/ HandleFree \/ ResumeNeighbour,
           TypeOK'
    PROVE  MailTypeOK'
  <1> USE DEF Order
  <1>1. CASE PopTask
    BY <1>1 DEF PopTask, MailTypeOK, actorVars, messageVars
  <1>2. CASE HandleNew
    BY <1>2 DEF HandleNew, MailTypeOK, messageVars
  <1>3. CASE HandleResume
    <2>1. CASE ~registered
      BY <1>3, <2>1 DEF HandleResume, MailTypeOK, messageVars
    <2>2. CASE registered
      <3> DEFINE m == Head(mailbox)
                 w == Loaded(Stored(sent[m]))
      <3>1. m \in Message /\ Tail(mailbox) \in Seq(Message)
        BY <1>3, <2>2, ResumeHasMessage, TailEntries DEF MailTypeOK
      <3>2. w.type = "LONG" => w.data \in -Half .. Half - 1
        BY <3>1, ReceivedValue DEF MailTypeOK
      <3>3. /\ got' = [got EXCEPT ![m] = w]
            /\ stage' = [stage EXCEPT ![m] = "received"]
            /\ mailbox' = Tail(mailbox)
            /\ state' = "ACTIVE" /\ worker' = "run"
            /\ UNCHANGED <<sent, outbox, args, registered, doomed, restarts, main, shutdown>>
        BY <1>3, <2>2 DEF HandleResume
      <3> HIDE DEF m, w
      <3>4. DOMAIN got' = Message
            /\ \A k \in Message : got'[k].type = "LONG" => got'[k].data \in -Half .. Half - 1
        BY <3>1, <3>2, <3>3 DEF MailTypeOK
      <3> QED
        BY <3>1, <3>3, <3>4 DEF MailTypeOK
    <2> QED
      BY <2>1, <2>2
  <1>4. CASE HandleFree
    BY <1>4 DEF HandleFree, MailTypeOK, actorVars, messageVars
  <1>5. CASE ResumeNeighbour
    BY <1>5 DEF ResumeNeighbour, MailTypeOK, actorVars, messageVars
  <1> QED
    BY <1>1, <1>2, <1>3, <1>4, <1>5

LEMMA ActorKeepsTypes ==
    ASSUME MailTypeOK, Block \/ Crash \/ Renew \/ End \/ EndWithSupervisor, TypeOK'
    PROVE  MailTypeOK'
  <1>1. CASE Block
    BY <1>1 DEF Block, MailTypeOK, messageVars
  <1>2. CASE Crash
    <2>1. restarts + 1 \in 0 .. MaxRestarts
      BY <1>2, BoundAssumption DEF Crash, MailTypeOK
    <2> QED
      BY <1>2, <2>1 DEF Crash, MailTypeOK, messageVars
  <1>3. CASE Renew
    BY <1>3 DEF Renew, MailTypeOK, actorVars, messageVars
  <1>4. CASE End
    BY <1>4 DEF End, Unregistered, MailTypeOK, messageVars
  <1>5. CASE EndWithSupervisor
    BY <1>5 DEF EndWithSupervisor, Unregistered, MailTypeOK, messageVars, threadVars
  <1> QED
    BY <1>1, <1>2, <1>3, <1>4, <1>5

LEMMA StepMailTypes ==
    ASSUME Order, MailNext
    PROVE  IInv' /\ MailTypeOK'
  <1>1. IInv' /\ TypeOK' /\ MailTypeOK
    <2>1. IInv'
      BY MailOnQueue, StepIInv DEF Order
    <2> QED
      BY <2>1 DEF Order, IInv
  <1>2. CASE PerformActorRemovals
    BY <1>1, <1>2, RemovalsKeepTypes DEF PerformActorRemovals
  <1>3. CASE FinalRemovals
    BY <1>1, <1>3, RemovalsKeepTypes DEF FinalRemovals
  <1>4. CASE CheckShutdown \/ WakeNeighbour \/ Shutdown \/ MainLeaves \/ DestroyTables
             \/ DestroyQueue \/ DestroyTask \/ Join
    BY <1>1, <1>4 DEF CheckShutdown, WakeNeighbour, Shutdown, MainLeaves, DestroyTables, DestroyQueue,
       DestroyTask, Join, MailTypeOK, Unregistered, actorVars, messageVars, threadVars
  <1> QED
    BY <1>1, <1>2, <1>3, <1>4, SendersKeepTypes, TaskHandlersKeepTypes, ActorKeepsTypes
       DEF MailNext

-----------------------------------------------------------------------------
(* Life and Phases: which actions take the actor from one state to another *)
(* and the threads from one phase to the next.                             *)
LEMMA StepLife ==
    ASSUME Order, MailNext
    PROVE  Life'
  <1> USE DEF Order
  <1>1. ASSUME NEW vs \in ArgLists, Create(vs) \/ CreateFails(vs) PROVE Life'
    BY <1>1 DEF Create, CreateFails, Life, Alive, messageVars, threadVars
  <1>2. ASSUME NEW m \in Message, NEW v \in Values, Send(m, v) PROVE Life'
    BY <1>2 DEF Send, Life, Alive, actorVars, threadVars
  <1>3. CASE Deliver
    BY <1>3 DEF Deliver, Life, Alive, actorVars, threadVars
  <1>4. CASE Drop
    BY <1>4 DEF Drop, Life, Alive, actorVars, threadVars
  <1>5. CASE PerformActorRemovals \/ FinalRemovals
    <2>1. Removals /\ worker' \in {"pop", "done"}
      BY <1>5 DEF PerformActorRemovals, FinalRemovals
    <2>2. CASE doomed
      BY <2>1, <2>2 DEF Removals, Life, Alive
    <2>3. CASE ~doomed
      BY <2>1, <2>3 DEF Removals, Life, Alive, actorVars, messageVars
    <2> QED
      BY <2>2, <2>3
  <1>6. CASE PopTask \/ CheckShutdown
    BY <1>6 DEF PopTask, CheckShutdown, Life, Alive, actorVars, messageVars
  <1>7. CASE HandleNew
    BY <1>7 DEF HandleNew, Life, Alive, messageVars
  <1>8. CASE HandleResume
    BY <1>8 DEF HandleResume, Life, Alive, messageVars
  <1>9. CASE HandleFree \/ ResumeNeighbour \/ WakeNeighbour
    <2>1. UNCHANGED <<actorVars, messageVars>> /\ (worker' = "loop" \/ worker' = worker)
      BY <1>9 DEF HandleFree, ResumeNeighbour, WakeNeighbour, threadVars
    <2> QED
      BY <2>1 DEF Life, Alive, actorVars, messageVars
  <1>10. CASE Block \/ Crash \/ Renew
    BY <1>10 DEF Block, Crash, Renew, Life, Alive, actorVars, messageVars
  <1>11. CASE End \/ EndWithSupervisor \/ DestroyTables
    <2>1. /\ Unregistered /\ UNCHANGED <<args, mailbox>>
          /\ worker' \in {"loop", "left"} \/ worker' = worker
      BY <1>11 DEF End, EndWithSupervisor, DestroyTables, messageVars, threadVars
    <2> QED
      BY <2>1 DEF Unregistered, Life, Alive
  <1>12. CASE Shutdown \/ MainLeaves \/ DestroyQueue \/ DestroyTask \/ Join
    BY <1>12 DEF Shutdown, MainLeaves, DestroyQueue, DestroyTask, Join, Life, Alive, actorVars,
                 messageVars, threadVars
  <1> QED
    BY <1>1, <1>2, <1>3, <1>4, <1>5, <1>6, <1>7, <1>8, <1>9, <1>10, <1>11, <1>12 DEF MailNext

LEMMA StepPhases ==
    ASSUME Order, MailNext
    PROVE  Phases'
  <1> USE DEF Order
  <1>1. ASSUME NEW vs \in ArgLists, Create(vs) \/ CreateFails(vs) PROVE Phases'
    BY <1>1 DEF Create, CreateFails, OthersRun, Phases, threadVars, vars
  <1>2. ASSUME NEW m \in Message, NEW v \in Values, Send(m, v) PROVE Phases'
    BY <1>2 DEF Send, Phases, actorVars, threadVars, vars
  <1>3. CASE Deliver \/ Drop \/ WakeNeighbour
    BY <1>3 DEF Deliver, Drop, WakeNeighbour, Phases, actorVars, threadVars, vars
  <1>4. CASE PerformActorRemovals \/ FinalRemovals
    BY <1>4 DEF PerformActorRemovals, FinalRemovals, Removals, Phases, actorVars, vars
  <1>5. CASE PopTask \/ CheckShutdown \/ HandleNew \/ HandleResume \/ HandleFree \/ ResumeNeighbour
             \/ Block \/ Crash \/ Renew \/ End
    <2>1. worker \notin {"left", "done"} /\ worker' # "done" /\ main' = main
      BY <1>5 DEF PopTask, CheckShutdown, HandleNew, HandleResume, HandleFree, ResumeNeighbour,
                  Block, Crash, Renew, End
    <2> QED
      BY <2>1 DEF Phases
  <1>6. CASE EndWithSupervisor \/ DestroyTables
    BY <1>6 DEF EndWithSupervisor, DestroyTables, OthersRun, Unregistered, Phases, threadVars, vars
  <1>7. CASE Shutdown \/ MainLeaves
    BY <1>7 DEF Shutdown, OthersRun, MainLeaves, Phases, actorVars, vars
  <1>8. CASE DestroyQueue \/ DestroyTask
    BY <1>8 DEF DestroyQueue, DestroyTask, Phases, actorVars, threadVars
  <1>9. CASE Join
    <2>1. Len(chain) = 0 /\ chain \in Seq(Cell)
      BY <1>9 DEF Join, IInv, TypeOK, LinkedList
    <2>2. chain = <<>>
      BY <2>1
    <2> QED
      BY <1>9, <2>2 DEF Join, Phases, actorVars, vars
  <1> QED
    BY <1>1, <1>2, <1>3, <1>4, <1>5, <1>6, <1>7, <1>8, <1>9 DEF MailNext

-----------------------------------------------------------------------------
(* Places.                                                                 *)
LEMMA StepMessagePlaces ==
    ASSUME Order, MailNext
    PROVE  MessagePlaces'
  <1> USE DEF Order
  <1>0. /\ outbox \in Seq(Message) /\ mailbox \in Seq(Message)
        /\ DOMAIN stage = Message
        /\ Distinct(outbox) /\ Distinct(mailbox)
        /\ \A k \in Message : /\ stage[k] = "posted" <=> k \in Entries(outbox)
                              /\ stage[k] = "mailed" <=> k \in Entries(mailbox)
    BY DEF MailTypeOK, MessagePlaces
  <1> SUFFICES
        /\ Distinct(outbox') /\ Distinct(mailbox')
        /\ \A k \in Message : /\ stage'[k] = "posted" <=> k \in Entries(outbox')
                              /\ stage'[k] = "mailed" <=> k \in Entries(mailbox')
    BY DEF MessagePlaces, Distinct, Entries
  <1> DEFINE Goal == /\ Distinct(outbox') /\ Distinct(mailbox')
                     /\ \A k \in Message : /\ stage'[k] = "posted" <=> k \in Entries(outbox')
                                           /\ stage'[k] = "mailed" <=> k \in Entries(mailbox')
  <1>1. ASSUME UNCHANGED <<stage, outbox, mailbox>> PROVE Goal
    BY <1>0, <1>1
  <1>2. ASSUME NEW m \in Message, NEW v \in Values, Send(m, v) PROVE Goal
    <2>1. stage[m] = "none" /\ mailbox' = mailbox
      BY <1>2 DEF Send
    <2>2. \/ /\ stage' = [stage EXCEPT ![m] = "refused"] \/ stage' = [stage EXCEPT ![m] = "failed"]
             /\ outbox' = outbox
          \/ stage' = [stage EXCEPT ![m] = "posted"] /\ outbox' = Append(outbox, m)
      BY <1>2 DEF Send
    <2>3. m \notin Entries(outbox) /\ m \notin Entries(mailbox)
      BY <1>0, <2>1
    <2>4. CASE /\ outbox' = outbox
               /\ stage' = [stage EXCEPT ![m] = "refused"] \/ stage' = [stage EXCEPT ![m] = "failed"]
      BY <1>0, <2>1, <2>3, <2>4
    <2>5. CASE stage' = [stage EXCEPT ![m] = "posted"] /\ outbox' = Append(outbox, m)
      <3> DEFINE ob == Append(outbox, m)
      <3>1. Distinct(ob) /\ Entries(ob) = Entries(outbox) \cup {m}
        BY <1>0, <2>3, AppendEntries
      <3> HIDE DEF ob
      <3>2. \A k \in Message : /\ stage'[k] = "posted" <=> k \in Entries(ob)
                               /\ stage'[k] = "mailed" <=> k \in Entries(mailbox)
        BY <1>0, <2>3, <2>5, <3>1
      <3>3. outbox' = ob
        BY <2>5 DEF ob
      <3>4. Distinct(mailbox) /\ Distinct(ob) /\ mailbox' = mailbox
        BY <1>0, <2>1, <3>1
      <3> QED
        BY <3>2, <3>3, <3>4
    <2> QED
      BY <2>2, <2>4, <2>5
  <1>3. CASE Deliver
    <2> DEFINE m == Head(outbox)
               mb == Append(mailbox, m)
    <2>1. /\ m \in Message /\ m \in Entries(outbox)
          /\ m \notin Entries(Tail(outbox)) /\ Distinct(Tail(outbox))
          /\ Entries(outbox) = Entries(Tail(outbox)) \cup {m}
      BY <1>0, <1>3, TailEntries DEF Deliver
    <2>2. outbox' = Tail(outbox) /\ mailbox' = mb /\ stage' = [stage EXCEPT ![m] = "mailed"]
      BY <1>3 DEF Deliver
    <2>3. stage[m] = "posted" /\ m \notin Entries(mailbox)
      BY <1>0, <2>1
    <2>4. Distinct(mb) /\ Entries(mb) = Entries(mailbox) \cup {m}
      BY <1>0, <2>1, <2>3, AppendEntries
    <2> HIDE DEF m, mb
    <2>5. \A k \in Message : /\ stage'[k] = "posted" <=> k \in Entries(Tail(outbox))
                             /\ stage'[k] = "mailed" <=> k \in Entries(mb)
      BY <1>0, <2>1, <2>2, <2>3, <2>4
    <2>6. outbox' = Tail(outbox) /\ mailbox' = mb /\ Distinct(Tail(outbox)) /\ Distinct(mb)
      BY <2>1, <2>2, <2>4
    <2> QED
      BY <2>5, <2>6
  <1>4. CASE Drop
    <2> DEFINE m == Head(outbox)
    <2>1. /\ m \in Message /\ m \in Entries(outbox)
          /\ m \notin Entries(Tail(outbox)) /\ Distinct(Tail(outbox))
          /\ Entries(outbox) = Entries(Tail(outbox)) \cup {m}
      BY <1>0, <1>4, TailEntries DEF Drop
    <2>2. /\ outbox' = Tail(outbox) /\ mailbox' = mailbox
          /\ stage' = [stage EXCEPT ![m] = "dropped"]
      BY <1>4 DEF Drop
    <2> HIDE DEF m
    <2>3. \A k \in Message : /\ stage'[k] = "posted" <=> k \in Entries(outbox')
                             /\ stage'[k] = "mailed" <=> k \in Entries(mailbox)
      BY <1>0, <2>1, <2>2
    <2> QED
      BY <1>0, <2>1, <2>2, <2>3
  <1>5. CASE (PerformActorRemovals \/ FinalRemovals) /\ doomed
    <2>1. /\ stage' = [m \in Message |-> IF m \in Entries(mailbox) THEN "discarded" ELSE stage[m]]
          /\ mailbox' = <<>> /\ outbox' = outbox
      BY <1>5 DEF PerformActorRemovals, FinalRemovals, Removals, InMailbox, Entries
    <2>2. Entries(mailbox') = {} /\ Distinct(mailbox')
      BY <2>1 DEF Entries, Distinct
    <2>3. \A k \in Message : /\ stage'[k] = "posted" <=> k \in Entries(outbox)
                             /\ stage'[k] # "mailed"
      BY <1>0, <2>1
    <2> QED
      BY <1>0, <2>1, <2>2, <2>3
  <1>6. CASE HandleResume /\ registered
    <2> DEFINE m == Head(mailbox)
    <2>1. /\ m \in Message /\ m \in Entries(mailbox)
          /\ m \notin Entries(Tail(mailbox)) /\ Distinct(Tail(mailbox))
          /\ Entries(mailbox) = Entries(Tail(mailbox)) \cup {m}
      BY <1>0, <1>6, ResumeHasMessage, TailEntries
    <2>2. /\ mailbox' = Tail(mailbox) /\ outbox' = outbox
          /\ stage' = [stage EXCEPT ![m] = "received"]
      BY <1>6 DEF HandleResume
    <2> HIDE DEF m
    <2>3. \A k \in Message : /\ stage'[k] = "posted" <=> k \in Entries(outbox)
                             /\ stage'[k] = "mailed" <=> k \in Entries(mailbox')
      BY <1>0, <2>1, <2>2
    <2> QED
      BY <1>0, <2>1, <2>2, <2>3
  <1>7. ASSUME NEW vs, Create(vs) \/ CreateFails(vs) PROVE UNCHANGED <<stage, outbox, mailbox>>
    BY <1>7 DEF Create, CreateFails, messageVars
  <1>8. CASE (PerformActorRemovals \/ FinalRemovals) /\ ~doomed
    BY <1>1, <1>8 DEF PerformActorRemovals, FinalRemovals, Removals, messageVars
  <1>9. CASE HandleResume /\ ~registered
    BY <1>1, <1>9 DEF HandleResume, messageVars
  <1>10. CASE PopTask \/ CheckShutdown \/ HandleNew \/ HandleFree \/ WakeNeighbour \/ ResumeNeighbour
              \/ Block \/ Crash \/ Renew \/ End
    BY <1>1, <1>10 DEF PopTask, CheckShutdown, HandleNew, HandleFree, WakeNeighbour, ResumeNeighbour,
                       Block, Crash, Renew, End, messageVars
  <1>11. CASE EndWithSupervisor \/ Shutdown \/ MainLeaves \/ DestroyTables \/ DestroyQueue
              \/ DestroyTask \/ Join
    BY <1>1, <1>11 DEF EndWithSupervisor, Shutdown, MainLeaves, DestroyTables, DestroyQueue,
                       DestroyTask, Join, messageVars
  <1> QED
    BY <1>1, <1>2, <1>3, <1>4, <1>5, <1>6, <1>7, <1>8, <1>9, <1>10, <1>11 DEF MailNext

(* A task that malloc has just returned is not in use.                     *)
LEMMA FreshTask ==
    ASSUME TasksHeld, NEW e \in Element, TaskBlocks(e) \cap heap = {}
    PROVE  e \notin Queued /\ ~Taken(e)
  <1>1. <<"task", e>> \in TaskBlocks(e) /\ <<"task", e>> \in StructOnly(e)
    BY DEF TaskBlocks, StructOnly
  <1>2. <<"task", e>> \notin Held(e)
    BY <1>1 DEF Held, Of
  <1>3. <<"task", e>> \notin TaskHeap(e)
    BY <1>2 DEF TasksHeld
  <1> QED
    BY <1>1, <1>3 DEF TaskHeap

LEMMA QueueAsBefore ==
    ASSUME UNCHANGED vars
    PROVE  UNCHANGED <<Content, Queued, result, chain>> /\ (Distinct(Content)' <=> Distinct(Content))
  <1>1. UNCHANGED <<Content, Queued, result, chain>>
    BY DEF vars, Content, Queued
  <1> QED
    BY <1>1 DEF Distinct

LEMMA StepTaskPlaces ==
    ASSUME Order, Accounts, MailNext
    PROVE  TaskPlaces'
  <1> DEFINE InHands == {"task", "run", "renew", "aborted"}
  <1>0. IInv /\ TaskPlaces /\ TasksHeld /\ Distinct(Content)
    BY DEF Order, Accounts, TaskPlaces
  <1>1. ASSUME UNCHANGED vars, worker' \in InHands => worker \in InHands
        PROVE  TaskPlaces'
    BY <1>0, <1>1, QueueAsBefore DEF TaskPlaces
  <1>2. ASSUME NEW e \in Element, Push(e), TaskBlocks(e) \cap heap = {},
               worker' \in InHands => worker \in InHands
        PROVE  TaskPlaces'
    <2>1. e \notin Queued /\ (worker \in InHands => e # result)
      BY <1>0, <1>2, FreshTask DEF Taken
    <2>2. Queued' = Queued \cup {e} /\ result' = result /\ Distinct(Content)'
      BY <1>0, <1>2, <2>1, PushQueued
    <2> QED
      BY <1>0, <1>2, <2>1, <2>2 DEF TaskPlaces
  <1>3. CASE PopTask
    <2>1. Pop /\ worker' = (IF elements = NoCell THEN "empty" ELSE "task")
      BY <1>3 DEF PopTask
    <2> QED
      BY <1>0, <2>1, PopQueued DEF TaskPlaces
  <1>4. CASE DestroyTask
    <2>1. Pop /\ worker' = worker /\ worker \notin InHands
      BY <1>4 DEF DestroyTask, threadVars, Order, Phases
    <2> QED
      BY <1>0, <2>1, PopQueued DEF TaskPlaces
  <1>5. CASE DestroyQueue
    <2>1. UNCHANGED <<chain, element, result, worker>>
      BY <1>5 DEF DestroyQueue, Destroy, threadVars
    <2>2. UNCHANGED <<Content, Queued, result, worker>> /\ (Distinct(Content)' <=> Distinct(Content))
      BY <2>1 DEF Content, Queued, Distinct
    <2> QED
      BY <1>0, <2>2 DEF TaskPlaces
  <1>6. ASSUME NEW vs, Create(vs) \/ CreateFails(vs) PROVE TaskPlaces'
    BY <1>1, <1>2, <1>6, NewTaskFresh DEF Create, CreateFails, threadVars
  <1>7. ASSUME NEW m, NEW v, Send(m, v) PROVE TaskPlaces'
    BY <1>1, <1>7 DEF Send, threadVars
  <1>8. CASE Deliver
    BY <1>1, <1>2, <1>8, NewTaskFresh DEF Deliver, threadVars
  <1>9. CASE WakeNeighbour
    <2>1. PICK n \in 1 .. Neighbours :
            /\ <<"RESUME_OTHER", n>> \in Unallocated("RESUME_OTHER")
            /\ Push(<<"RESUME_OTHER", n>>)
            /\ UNCHANGED threadVars
      BY <1>9 DEF WakeNeighbour
    <2> QED
      BY <1>2, <2>1 DEF Unallocated, threadVars
  <1>10. CASE Block
    BY <1>1, <1>2, <1>10, NewTaskFresh DEF Block
  <1>11. CASE Crash \/ Renew
    BY <1>2, <1>11, NewTaskFresh DEF Crash, Renew
  <1>12. CASE HandleNew \/ HandleResume \/ HandleFree \/ ResumeNeighbour \/ End \/ CheckShutdown
    BY <1>1, <1>12 DEF HandleNew, HandleResume, HandleFree, ResumeNeighbour, End, CheckShutdown
  <1>13. CASE Drop \/ PerformActorRemovals \/ EndWithSupervisor \/ Shutdown
              \/ MainLeaves \/ DestroyTables \/ FinalRemovals \/ Join
    BY <1>1, <1>13 DEF Drop, PerformActorRemovals, EndWithSupervisor, Shutdown,
                MainLeaves, DestroyTables, FinalRemovals, Join, threadVars
  <1> QED
    BY <1>3, <1>4, <1>5, <1>6, <1>7, <1>8, <1>9, <1>10, <1>11, <1>12, <1>13 DEF MailNext

(* OneTask: a step that only takes tasks away, one that adds a task, and   *)
(* the handlers that give the actor another state.                         *)
LEMMA FewerTasks ==
    ASSUME OneTask, Pending' \subseteq Pending, UNCHANGED <<state, mailbox>>,
           registered' => registered, worker' = "renew" => worker = "renew"
    PROVE  OneTask'
  BY DEF OneTask

LEMMA MoreTasks ==
    ASSUME OneTask, NEW e, Pending' \subseteq Pending \cup {e},
           e[1] \notin {"NEW_ACTOR", "RESUME_ACTOR"}, UNCHANGED <<state, mailbox>>,
           registered' => registered, worker' = "renew" => worker = "renew"
    PROVE  OneTask'
  BY DEF OneTask

LEMMA FirstTask ==
    ASSUME NEW e, Pending' \subseteq Pending \cup {e},
           \A f \in Pending : f[1] \notin {"NEW_ACTOR", "RESUME_ACTOR"},
           e[1] = "NEW_ACTOR" => state' \in {"SPAWNING", "RESTARTING"} /\ worker' # "renew",
           e[1] = "RESUME_ACTOR" => state' = "IDLE" /\ mailbox' # <<>>
    PROVE  OneTask'
  BY DEF OneTask

(* No task is on its way to an actor that runs, is about to be started     *)
(* again or waits in vain.                                                 *)
LEMMA NothingPending ==
    ASSUME Order, registered \/ state = "none",
           \/ state \in {"none", "ACTIVE"}
           \/ worker = "renew"
           \/ state = "IDLE" /\ mailbox = <<>>
    PROVE  \A f \in Pending : f[1] \notin {"NEW_ACTOR", "RESUME_ACTOR"}
  BY DEF Order, OneTask, Life

LEMMA HandledTask ==
    ASSUME Order, worker = "task", UNCHANGED vars, worker' # "task"
    PROVE  Pending' = Pending \ {result} /\ result \in Pending
  <1>1. Queued' = Queued /\ result \notin Queued
    BY QueueAsBefore DEF Order, TaskPlaces
  <1> QED
    BY <1>1 DEF Pending

LEMMA PushedTask ==
    ASSUME IInv, NEW e \in Element, Push(e), worker' = "task" <=> worker = "task"
    PROVE  Pending' = Pending \cup {e}
  <1>1. Queued' = Queued \cup {e} /\ result' = result
    BY PushQueued
  <1> QED
    BY <1>1 DEF Pending

LEMMA SamePending ==
    ASSUME UNCHANGED vars, worker' = "task" <=> worker = "task"
    PROVE  Pending' = Pending
  BY QueueAsBefore DEF Pending

LEMMA StepOneTask ==
    ASSUME Order, MailNext, Life'
    PROVE  OneTask'
  <1>0. IInv /\ OneTask /\ TaskPlaces /\ Life
    BY DEF Order
  <1>1. ASSUME ~registered', state' # "none" PROVE OneTask'
    BY <1>1 DEF OneTask
  <1>2. ASSUME NEW vs, Create(vs) PROVE OneTask'
    <2> DEFINE e == NewTask("NEW_ACTOR")
    <2>1. e \in Element /\ e[1] = "NEW_ACTOR" /\ Push(e) /\ state = "none" /\ state' = "SPAWNING"
          /\ worker' = worker
      BY <1>2, NewTaskFresh DEF Create, threadVars
    <2> HIDE DEF e
    <2>2. Pending' = Pending \cup {e} /\ worker # "renew"
      BY <1>0, <2>1, PushedTask DEF Life
    <2> QED
      BY <2>1, <2>2, FirstTask, NothingPending
  <1>3. ASSUME NEW vs, CreateFails(vs) PROVE OneTask'
    BY <1>0, <1>1, <1>3 DEF CreateFails, Life
  <1>4. ASSUME NEW m, NEW v, Send(m, v) PROVE OneTask'
    BY <1>0, <1>4, SamePending, FewerTasks DEF Send, actorVars, threadVars
  <1>5. CASE Deliver
    <2>1. /\ registered /\ UNCHANGED <<actorVars, threadVars>>
          /\ mailbox' = Append(mailbox, Head(outbox)) /\ outbox # <<>>
      BY <1>5 DEF Deliver
    <2>2. mailbox' # <<>>
      BY <1>0, <2>1, TailEntries, AppendEntries DEF Order, MailTypeOK
    <2>3. CASE state = "IDLE" /\ mailbox = <<>>
      <3> DEFINE e == NewTask("RESUME_ACTOR")
      <3>1. e \in Element /\ e[1] = "RESUME_ACTOR" /\ Push(e)
        BY <1>5, <2>3, NewTaskFresh DEF Deliver
      <3> HIDE DEF e
      <3>2. Pending' = Pending \cup {e}
        BY <1>0, <2>1, <3>1, PushedTask DEF threadVars
      <3> QED
        BY <2>1, <2>2, <2>3, <3>1, <3>2, FirstTask, NothingPending DEF actorVars
    <2>4. CASE ~(state = "IDLE" /\ mailbox = <<>>)
      <3>1. Pending' = Pending
        BY <1>5, <2>1, <2>4, SamePending DEF Deliver, threadVars
      <3> QED
        BY <1>0, <2>1, <2>2, <3>1 DEF OneTask, actorVars, threadVars
    <2> QED
      BY <2>3, <2>4
  <1>6. CASE PerformActorRemovals \/ FinalRemovals
    <2>1. /\ Removals /\ UNCHANGED vars
          /\ worker \in {"loop", "left"} /\ worker' \in {"pop", "done"}
      BY <1>6 DEF PerformActorRemovals, FinalRemovals
    <2>2. CASE doomed
      BY <1>0, <1>1, <2>1, <2>2 DEF Removals, Life
    <2>3. CASE ~doomed
      BY <1>0, <2>1, <2>3, SamePending, FewerTasks DEF Removals, actorVars, messageVars
    <2> QED
      BY <2>2, <2>3
  <1>7. CASE PopTask
    <2>1. /\ Pop /\ worker # "task" /\ worker' = (IF elements = NoCell THEN "empty" ELSE "task")
          /\ UNCHANGED <<state, mailbox, registered>>
      BY <1>7 DEF PopTask, actorVars, messageVars
    <2>2. \/ elements # NoCell /\ Queued' = Queued \ {result'} /\ result' \in Queued
          \/ elements = NoCell /\ Queued' = {}
      BY <1>0, <2>1, PopQueued DEF TaskPlaces
    <2>3. Pending' \subseteq Pending
      BY <2>1, <2>2 DEF Pending
    <2> QED
      BY <1>0, <2>1, <2>3, FewerTasks
  <1>8. CASE HandleNew
    <2>1. /\ worker = "task" /\ worker' \in {"run", "loop"} /\ result[1] = "NEW_ACTOR"
          /\ UNCHANGED vars /\ UNCHANGED <<registered, mailbox>>
      BY <1>8 DEF HandleNew, messageVars
    <2>2. Pending' = Pending \ {result} /\ result \in Pending
      BY <2>1, HandledTask
    <2>3. CASE registered
      <3>1. state \in {"SPAWNING", "RESTARTING"} /\ \A f \in Pending : f[1] = "NEW_ACTOR" => f = result
        BY <1>0, <2>1, <2>2, <2>3 DEF OneTask
      <3>2. \A f \in Pending' : f[1] \notin {"NEW_ACTOR", "RESUME_ACTOR"}
        BY <1>0, <2>2, <2>3, <3>1 DEF OneTask
      <3> QED
        BY <3>2 DEF OneTask
    <2>4. CASE ~registered
      BY <1>0, <1>8, <2>1, <2>2, <2>4, FewerTasks DEF HandleNew
    <2> QED
      BY <2>3, <2>4
  <1>9. CASE HandleResume
    <2>1. /\ worker = "task" /\ worker' \in {"run", "aborted"} /\ result[1] = "RESUME_ACTOR"
          /\ UNCHANGED vars /\ UNCHANGED registered
      BY <1>9 DEF HandleResume
    <2>2. Pending' = Pending \ {result} /\ result \in Pending
      BY <2>1, HandledTask
    <2>3. CASE registered
      <3>1. state = "IDLE" /\ \A f \in Pending : f[1] = "RESUME_ACTOR" => f = result
        BY <1>0, <2>1, <2>2, <2>3 DEF OneTask
      <3>2. \A f \in Pending' : f[1] \notin {"NEW_ACTOR", "RESUME_ACTOR"}
        BY <1>0, <2>2, <2>3, <3>1 DEF OneTask
      <3> QED
        BY <3>2 DEF OneTask
    <2>4. CASE ~registered
      BY <1>0, <1>9, <2>1, <2>2, <2>4, FewerTasks DEF HandleResume, messageVars
    <2> QED
      BY <2>3, <2>4
  <1>10. CASE HandleFree \/ ResumeNeighbour
    <2>1. /\ worker = "task" /\ worker' = "loop"
          /\ UNCHANGED vars /\ UNCHANGED <<registered, mailbox, state>>
      BY <1>10 DEF HandleFree, ResumeNeighbour, messageVars, actorVars
    <2> QED
      BY <1>0, <2>1, HandledTask, FewerTasks
  <1>11. CASE WakeNeighbour
    <2>1. PICK n \in 1 .. Neighbours :
            /\ <<"RESUME_OTHER", n>> \in Element
            /\ Push(<<"RESUME_OTHER", n>>)
            /\ UNCHANGED <<actorVars, messageVars, threadVars>>
      BY <1>11 DEF WakeNeighbour, Unallocated
    <2> DEFINE e == <<"RESUME_OTHER", n>>
    <2>2. e[1] \notin {"NEW_ACTOR", "RESUME_ACTOR"}
      OBVIOUS
    <2>3. Pending' = Pending \cup {e}
      BY <1>0, <2>1, PushedTask DEF threadVars
    <2> QED
      BY <1>0, <2>1, <2>2, <2>3, MoreTasks DEF actorVars, messageVars, threadVars
  <1>12. CASE Block
    <2>1. /\ worker = "run" /\ state = "ACTIVE" /\ registered /\ state' = "IDLE" /\ worker' = "loop"
          /\ mailbox' = mailbox
      BY <1>0, <1>12 DEF Block, Life, messageVars
    <2>2. \A f \in Pending : f[1] \notin {"NEW_ACTOR", "RESUME_ACTOR"}
      BY <2>1, NothingPending
    <2>3. CASE mailbox # <<>>
      <3> DEFINE e == NewTask("RESUME_ACTOR")
      <3>1. e \in Element /\ e[1] = "RESUME_ACTOR" /\ Push(e)
        BY <1>12, <2>3, NewTaskFresh DEF Block
      <3> HIDE DEF e
      <3>2. Pending' = Pending \cup {e}
        BY <1>0, <2>1, <3>1, PushedTask
      <3> QED
        BY <2>1, <2>2, <2>3, <3>1, <3>2, FirstTask
    <2>4. CASE mailbox = <<>>
      <3>1. Pending' = Pending
        BY <1>12, <2>1, <2>4, SamePending DEF Block
      <3> QED
        BY <2>2, <3>1 DEF OneTask
    <2> QED
      BY <2>3, <2>4
  <1>13. CASE Crash
    <2> DEFINE e == NewTask("FREE_VM_STACK")
    <2>1. /\ e \in Element /\ e[1] = "FREE_VM_STACK" /\ Push(e)
          /\ worker = "run" /\ registered /\ worker' = "renew"
      BY <1>13, NewTaskFresh DEF Crash
    <2> HIDE DEF e
    <2>2. Pending' = Pending \cup {e} /\ state = "ACTIVE"
      BY <1>0, <2>1, PushedTask DEF Life
    <2> QED
      BY <2>1, <2>2, FirstTask, NothingPending
  <1>14. CASE Renew
    <2> DEFINE e == NewTask("NEW_ACTOR")
    <2>1. /\ e \in Element /\ e[1] = "NEW_ACTOR" /\ Push(e)
          /\ worker = "renew" /\ worker' = "loop" /\ UNCHANGED <<registered, state>>
      BY <1>14, NewTaskFresh DEF Renew, actorVars
    <2> HIDE DEF e
    <2>2. Pending' = Pending \cup {e} /\ state \in {"RESTARTING", "SHUTTING_DOWN"}
      BY <1>0, <2>1, PushedTask DEF Life
    <2>3. CASE registered
      <3>1. state = "RESTARTING"
        BY <1>0, <2>2, <2>3 DEF Life
      <3> QED
        BY <2>1, <2>2, <2>3, <3>1, FirstTask, NothingPending
    <2>4. CASE ~registered
      BY <1>1, <2>1, <2>2, <2>4
    <2> QED
      BY <2>3, <2>4
  <1>15. CASE End \/ EndWithSupervisor \/ DestroyTables
    <2>1. /\ Unregistered /\ UNCHANGED vars /\ UNCHANGED mailbox
          /\ worker' = worker \/ (worker = "run" /\ worker' = "loop")
      BY <1>15 DEF End, EndWithSupervisor, DestroyTables, messageVars, threadVars
    <2>2. CASE registered
      BY <1>1, <2>1, <2>2 DEF Unregistered
    <2>3. CASE ~registered
      <3>1. Pending' = Pending /\ ~registered' /\ UNCHANGED <<state, mailbox>>
        BY <2>1, <2>3, SamePending DEF Unregistered
      <3> QED
        BY <1>0, <2>1, <3>1, FewerTasks
    <2> QED
      BY <2>2, <2>3
  <1>16. CASE DestroyQueue
    <2>1. UNCHANGED <<chain, element, result, worker>> /\ UNCHANGED <<actorVars, messageVars>>
      BY <1>16 DEF DestroyQueue, Destroy, threadVars
    <2>2. Pending' = Pending
      BY <2>1 DEF Pending, Queued
    <2> QED
      BY <1>0, <2>1, <2>2, FewerTasks DEF actorVars, messageVars
  <1>17. CASE DestroyTask
    <2>1. /\ Pop /\ worker' = worker /\ worker # "task"
          /\ UNCHANGED <<registered, state, mailbox>>
      BY <1>17 DEF DestroyTask, threadVars, actorVars, messageVars, Order, Phases
    <2>2. Pending' \subseteq Pending
      BY <1>0, <2>1, PopQueued DEF Pending, TaskPlaces
    <2> QED
      BY <1>0, <2>1, <2>2, FewerTasks
  <1>18. CASE Drop \/ CheckShutdown \/ Shutdown \/ MainLeaves \/ Join
    <2>1. /\ UNCHANGED vars /\ UNCHANGED <<state, mailbox, registered>>
          /\ worker' = worker \/ (worker # "task" /\ worker' \in {"left", "loop"})
      BY <1>18 DEF Drop, CheckShutdown, Shutdown, MainLeaves, Join, actorVars, messageVars, threadVars
    <2>2. Pending' = Pending
      BY <2>1, SamePending
    <2> QED
      BY <1>0, <2>1, <2>2, FewerTasks
  <1> QED
    BY <1>2, <1>3, <1>4, <1>5, <1>6, <1>7, <1>8, <1>9, <1>10, <1>11, <1>12, <1>13, <1>14, <1>15,
       <1>16, <1>17, <1>18 DEF MailNext

-----------------------------------------------------------------------------
(* The books of one message, of one task and of the actor after a step     *)
(* that concerns it.                                                       *)
LEMMA NothingMisused ==
    ASSUME misused = {}, NEW makes, NEW reads, NEW frees, Memory(makes, reads, frees),
           reads \cup frees \subseteq heap \cup makes
    PROVE  misused' = {}
  BY DEF Memory

LEMMA MessageMoves ==
    ASSUME MessagesHeld, NEW makes, NEW reads, NEW frees, Memory(makes, reads, frees),
           NEW m \in Message,
           \A b \in makes \cup frees : \A k \in Message : b[2] = Msg(k) => k = m,
           \A k \in Message \ {m} : stage'[k] = stage[k] /\ sent'[k] = sent[k],
           MessageHeap(m)' = (MessageHeap(m) \cup Of(makes, Msg(m))) \ Of(frees, Msg(m))
    PROVE  MessagesHeld'
  <1> SUFFICES ASSUME NEW k \in Message PROVE Held(Msg(k))' = MessageHeap(k)'
    BY DEF MessagesHeld, Msg
  <1>1. CASE k = m
    <2>1. Held(Msg(m))' = (Held(Msg(m)) \cup Of(makes, Msg(m))) \ Of(frees, Msg(m))
      BY HeldAfter
    <2>2. Held(Msg(m)) = MessageHeap(m)
      BY DEF MessagesHeld
    <2>3. Held(Msg(m))' = MessageHeap(m)'
      BY <2>1, <2>2
    <2> QED
      BY <1>1, <2>3
  <1>2. CASE k # m
    <2>1. Held(Msg(k))' = Held(Msg(k))
      BY <1>2, HeldAfter
    <2>2. MessageHeap(k)' = MessageHeap(k)
      BY <1>2 DEF MessageHeap, Undelivered, Unread
    <2> QED
      BY <2>1, <2>2 DEF MessagesHeld
  <1> QED
    BY <1>1, <1>2

LEMMA TaskMoves ==
    ASSUME NEW makes, NEW reads, NEW frees, Memory(makes, reads, frees),
           \A f \in Element :
              /\ TaskHeap(f)' \subseteq (Held(f) \cup Of(makes, f)) \ Of(frees, f)
              /\ (Held(f) \cup Of(makes, f)) \ Of(frees, f) \subseteq TaskHeap(f)' \cup Lost(f)
    PROVE  TasksHeld'
  <1> SUFFICES ASSUME NEW f \in Element
               PROVE  TaskHeap(f)' \subseteq Held(f)' /\ Held(f)' \subseteq TaskHeap(f)' \cup Lost(f)
    BY DEF TasksHeld
  <1>1. Held(f)' = (Held(f) \cup Of(makes, f)) \ Of(frees, f)
    BY HeldAfter
  <1> QED
    BY <1>1

(* What is in use is in the heap.                                          *)
LEMMA InHeap ==
    ASSUME Accounts
    PROVE  /\ \A m \in Message : MessageHeap(m) \subseteq heap
           /\ \A e \in Element : TaskHeap(e) \subseteq heap
           /\ Alive => ActorBlocks \cup ArgBuffers(args) \subseteq heap
  <1>1. \A o : Held(o) \subseteq heap
    BY DEF Held, Of
  <1>2. Alive => ArgBuffers(args) \subseteq heap
    BY <1>1 DEF Accounts, ActorHeld, ArgBuffers
  <1> QED
    BY <1>1, <1>2 DEF Accounts, MessagesHeld, TasksHeld, ActorHeld

(* A new task in the queue.                                                *)
LEMMA TaskPushed ==
    ASSUME Order, TasksHeld, NEW makes, NEW reads, NEW frees, Memory(makes, reads, frees),
           NEW e \in Element, Push(e), TaskBlocks(e) \cap heap = {},
           TaskBlocks(e) \subseteq makes,
           \A b \in makes : b[2] \in Element => b \in TaskBlocks(e),
           \A b \in frees : b[2] \notin Element,
           \/ worker' = worker
           \/ worker = "run" /\ worker' = "renew"
    PROVE  TasksHeld'
  <1>1. /\ e \notin Queued /\ ~Taken(e)
        /\ Queued' = Queued \cup {e} /\ result' = result
    BY FreshTask, PushQueued DEF Order
  <1>2. \A f \in Element \ {e} : TaskHeap(f)' = TaskHeap(f)
    BY <1>1 DEF TaskHeap, Taken
  <1>3. TaskHeap(e)' = TaskBlocks(e)
    BY <1>1 DEF TaskHeap
  <1>4. Held(e) = {} /\ Of(frees, e) = {}
    <2>1. TaskHeap(e) = {}
      BY <1>1 DEF TaskHeap
    <2>2. Held(e) \subseteq TaskBlocks(e)
      BY <2>1, BlockOwners DEF TasksHeld, Lost
    <2> QED
      BY <2>2 DEF Held, Of
  <1>5. Of(makes, e) = TaskBlocks(e)
    BY BlockOwners DEF Of
  <1>6. \A f \in Element :
           /\ TaskHeap(f)' \subseteq (Held(f) \cup Of(makes, f)) \ Of(frees, f)
           /\ (Held(f) \cup Of(makes, f)) \ Of(frees, f) \subseteq TaskHeap(f)' \cup Lost(f)
    <2> TAKE f \in Element
    <2>1. CASE f = e
      BY <1>3, <1>4, <1>5, <2>1
    <2>2. CASE f # e
      <3>1. Of(makes, f) = {} /\ Of(frees, f) = {}
        BY <2>2, BlockOwners DEF Of
      <3> QED
        BY <1>2, <2>2, <3>1 DEF TasksHeld
    <2> QED
      BY <2>1, <2>2
  <1> QED
    BY <1>6, TaskMoves

-----------------------------------------------------------------------------
(* The books after each action.                                            *)
LEMMA SendAccounts ==
    ASSUME Order, Accounts, NEW m \in Message, NEW v, Send(m, v)
    PROVE  Accounts'
  <1> DEFINE Effect(makes, frees, s, x) ==
               /\ Memory(makes, {}, frees) /\ frees \subseteq makes
               /\ \A b \in makes : b[2] = Msg(m)
               /\ stage' = [stage EXCEPT ![m] = s] /\ sent' = [sent EXCEPT ![m] = x]
               /\ UNCHANGED <<vars, args, state, worker>>
               /\ MessageHeap(m)' = makes \ frees
  <1>1. stage[m] = "none" /\ DOMAIN stage = Message /\ DOMAIN sent = Message
    BY DEF Send, Order, MailTypeOK
  <1>2. ASSUME NEW makes, NEW frees, NEW s, NEW x, Effect(makes, frees, s, x)
        PROVE  Accounts'
    <2>1. misused' = {}
      BY <1>2, NothingMisused DEF Accounts
    <2>2. MessagesHeld'
      <3>1. MessageHeap(m) = {} /\ Of(makes, Msg(m)) = makes /\ Of(frees, Msg(m)) = frees
        BY <1>1, <1>2 DEF MessageHeap, Of
      <3>2. \A k \in Message \ {m} : stage'[k] = stage[k] /\ sent'[k] = sent[k]
        BY <1>1, <1>2
      <3>3. \A b \in makes \cup frees : \A k \in Message : b[2] = Msg(k) => k = m
        BY <1>2, OwnersDiffer
      <3> QED
        BY <1>2, <3>1, <3>2, <3>3, MessageMoves DEF Accounts
    <2>3. TasksHeld' /\ ActorHeld'
      BY <1>2, OwnersDiffer, TasksUntouched, ActorUntouched, QueueAsBefore DEF Accounts, Alive
    <2>4. AllOwned'
      BY <1>2, StillOwned DEF Accounts, Owner
    <2> QED
      BY <2>1, <2>2, <2>3, <2>4 DEF Accounts
  <1>3. UNCHANGED <<vars, args, state, worker>>
    BY DEF Send, actorVars, threadVars
  <1>4. \A b \in SendBlocks(m) \cup Buffer(v, Msg(m)) : b[2] = Msg(m)
    BY BlockOwners
  <1>5. sent = [sent EXCEPT ![m] = sent[m]]
    BY <1>1, OwnersDiffer DEF Order, MailTypeOK
  <1>6. CASE /\ Memory({<<"to", Msg(m)>>}, {}, {})
             /\ stage' = [stage EXCEPT ![m] = "refused"] /\ sent' = sent
    <2>1. MessageHeap(m)' = {<<"to", Msg(m)>>}
      BY <1>1, <1>6 DEF MessageHeap
    <2>2. Effect({<<"to", Msg(m)>>}, {}, "refused", sent[m])
      BY <1>3, <1>5, <1>6, <2>1
    <2> HIDE DEF Effect
    <2> QED
      BY <1>2, <2>2
  <1>7. CASE /\ Memory(SendBlocks(m), {}, FailedSend(m))
             /\ stage' = [stage EXCEPT ![m] = "failed"] /\ sent' = sent
    <2>1. MessageHeap(m)' = {} /\ FailedSend(m) = SendBlocks(m)
      BY <1>1, <1>7 DEF MessageHeap, FailedSend
    <2>2. Effect(SendBlocks(m), SendBlocks(m), "failed", sent[m])
      BY <1>3, <1>4, <1>5, <1>7, <2>1
    <2> HIDE DEF Effect
    <2> QED
      BY <1>2, <2>2
  <1>8. CASE /\ Memory(SendBlocks(m) \cup Buffer(v, Msg(m)), {}, {})
             /\ stage' = [stage EXCEPT ![m] = "posted"] /\ sent' = [sent EXCEPT ![m] = v]
    <2>1. MessageHeap(m)' = SendBlocks(m) \cup Buffer(v, Msg(m))
      BY <1>1, <1>8 DEF MessageHeap, Undelivered
    <2>2. Effect(SendBlocks(m) \cup Buffer(v, Msg(m)), {}, "posted", v)
      BY <1>3, <1>4, <1>8, <2>1
    <2> HIDE DEF Effect
    <2> QED
      BY <1>2, <2>2
  <1> QED
    BY <1>6, <1>7, <1>8 DEF Send

(* The first message of the outbox is one that was posted.                 *)
LEMMA HeadPosted ==
    ASSUME Order, outbox # <<>>
    PROVE  Head(outbox) \in Message /\ stage[Head(outbox)] = "posted"
  BY TailEntries DEF Order, MailTypeOK, MessagePlaces

(* The message takes over the entry and the sender's reference.            *)
LEMMA DeliverAccounts ==
    ASSUME Order, Accounts, Deliver
    PROVE  Accounts'
  <1>0. PICK m \in Message : m = Head(outbox)
    BY HeadPosted DEF Deliver
  <1>e. PICK e : e = NewTask("RESUME_ACTOR")
    OBVIOUS
  <1> DEFINE wakes == state = "IDLE" /\ mailbox = <<>>
             makes == {<<"message", Msg(m)>>} \cup (IF wakes THEN TaskBlocks(e) ELSE {})
             reads == {<<"struct", Actor>>} \cup (IF wakes THEN ActorStrings ELSE {})
  <1>1. /\ m \in Message /\ stage[m] = "posted" /\ registered
        /\ stage' = [stage EXCEPT ![m] = "mailed"] /\ sent' = sent
        /\ Memory(makes, reads, SendTaskFree(m))
        /\ IF wakes THEN Push(e) ELSE UNCHANGED vars
        /\ wakes => e \in Element /\ TaskBlocks(e) \cap heap = {}
        /\ UNCHANGED <<args, state, worker>>
    BY <1>0, <1>e, HeadPosted, NewTaskFresh DEF Deliver, actorVars, threadVars
  <1>2. /\ \A b \in SendTaskFree(m) : b[2] = Msg(m)
        /\ \A b \in makes : b[2] = Msg(m) \/ (wakes /\ b \in TaskBlocks(e) /\ b[2] = e /\ e \in Element)
    BY <1>1, BlockOwners DEF SendTaskFree
  <1>3. misused' = {}
    <2>1. ActorBlocks \subseteq heap /\ MessageHeap(m) \subseteq heap
      BY <1>1, InHeap DEF Order, Life, Alive
    <2>2. SendTaskFree(m) \subseteq MessageHeap(m)
      BY <1>1 DEF MessageHeap, Undelivered, SendTaskFree, SendBlocks, SendStrings
    <2>3. reads \subseteq ActorBlocks
      BY DEF ActorBlocks
    <2> QED
      BY <1>1, <2>1, <2>2, <2>3, NothingMisused DEF Accounts
  <1>4. MessagesHeld'
    <2>1. DOMAIN stage = Message
      BY DEF Order, MailTypeOK
    <2>2. Of(makes, Msg(m)) = {<<"message", Msg(m)>>} /\ Of(SendTaskFree(m), Msg(m)) = SendTaskFree(m)
      <3>1. wakes => \A b \in TaskBlocks(e) : b[2] # Msg(m)
        BY <1>1, BlockOwners, OwnersDiffer
      <3> QED
        BY <1>2, <3>1 DEF Of
    <2>3. MessageHeap(m) = Undelivered(m) /\ MessageHeap(m)' = Unread(m)
      BY <1>1, <2>1 DEF MessageHeap, Unread
    <2>4. Unread(m) = (Undelivered(m) \cup {<<"message", Msg(m)>>}) \ SendTaskFree(m)
      BY DEF Unread, Undelivered, SendTaskFree, SendBlocks, SendStrings, Buffer
    <2>5. \A b \in makes \cup SendTaskFree(m) : \A k \in Message : b[2] = Msg(k) => k = m
      BY <1>2, OwnersDiffer
    <2>6. \A k \in Message \ {m} : stage'[k] = stage[k] /\ sent'[k] = sent[k]
      BY <1>1, <2>1
    <2>7. MessageHeap(m)' = (MessageHeap(m) \cup Of(makes, Msg(m))) \ Of(SendTaskFree(m), Msg(m))
      BY <2>2, <2>3, <2>4
    <2> HIDE DEF makes, reads
    <2> QED
      BY <1>1, <2>5, <2>6, <2>7, MessageMoves DEF Accounts
  <1>5. TasksHeld'
    <2>1. \A b \in SendTaskFree(m) : b[2] \notin Element
      BY <1>2, OwnersDiffer
    <2>2. CASE wakes
      <3>1. TaskBlocks(e) \subseteq makes /\ \A b \in makes : b[2] \in Element => b \in TaskBlocks(e)
        BY <1>2, <2>2, OwnersDiffer
      <3> HIDE DEF makes, reads
      <3> QED
        BY <1>1, <2>1, <2>2, <3>1, TaskPushed DEF Accounts
    <2>3. CASE ~wakes
      <3>1. \A b \in makes : b[2] \notin Element
        BY <1>2, <2>3, OwnersDiffer
      <3> HIDE DEF makes, reads
      <3> QED
        BY <1>1, <2>1, <2>3, <3>1, TasksUntouched, QueueAsBefore DEF Accounts
    <2> QED
      BY <2>2, <2>3
  <1>6. ActorHeld'
    <2>1. \A b \in makes \cup SendTaskFree(m) : b[2] # Actor /\ \A i : b[2] # Arg(i)
      BY <1>2, OwnersDiffer
    <2> HIDE DEF makes, reads
    <2> QED
      BY <1>1, <2>1, ActorUntouched DEF Accounts, Alive
  <1>7. AllOwned'
    <2>1. \A b \in makes : b[2] \in Owner
      BY <1>1, <1>2 DEF Owner
    <2> HIDE DEF makes, reads
    <2> QED
      BY <1>1, <2>1, StillOwned DEF Accounts
  <1> QED
    BY <1>3, <1>4, <1>5, <1>6, <1>7 DEF Accounts

(* Without a receiver only the task and its string go.                     *)
LEMMA DropAccounts ==
    ASSUME Order, Accounts, Drop
    PROVE  Accounts'
  <1>0. PICK m \in Message : m = Head(outbox)
    BY HeadPosted DEF Drop
  <1>1. /\ m \in Message /\ stage[m] = "posted"
        /\ stage' = [stage EXCEPT ![m] = "dropped"] /\ sent' = sent
        /\ Memory({}, {}, SendTaskFree(m))
        /\ UNCHANGED vars /\ UNCHANGED <<args, state, worker>>
    BY <1>0, HeadPosted DEF Drop, actorVars, threadVars
  <1>2. \A b \in SendTaskFree(m) : b[2] = Msg(m)
    BY BlockOwners DEF SendTaskFree
  <1>3. misused' = {}
    <2>1. SendTaskFree(m) \subseteq MessageHeap(m)
      BY <1>1 DEF MessageHeap, Undelivered, SendTaskFree, SendBlocks, SendStrings
    <2> QED
      BY <1>1, <2>1, InHeap, NothingMisused DEF Accounts
  <1>4. MessagesHeld'
    <2>1. DOMAIN stage = Message
      BY DEF Order, MailTypeOK
    <2>2. Of({}, Msg(m)) = {} /\ Of(SendTaskFree(m), Msg(m)) = SendTaskFree(m)
      BY <1>2 DEF Of
    <2>3. MessageHeap(m) = Undelivered(m) /\ MessageHeap(m)' = Undelivered(m) \ SendTaskFree(m)
      BY <1>1, <2>1 DEF MessageHeap, Undelivered
    <2>4. \A b \in {} \cup SendTaskFree(m) : \A k \in Message : b[2] = Msg(k) => k = m
      BY <1>2, OwnersDiffer
    <2>5. \A k \in Message \ {m} : stage'[k] = stage[k] /\ sent'[k] = sent[k]
      BY <1>1, <2>1
    <2>6. MessageHeap(m)' = (MessageHeap(m) \cup Of({}, Msg(m))) \ Of(SendTaskFree(m), Msg(m))
      BY <2>2, <2>3
    <2> QED
      BY <1>1, <2>4, <2>5, <2>6, MessageMoves DEF Accounts
  <1>5. TasksHeld' /\ ActorHeld'
    BY <1>1, <1>2, OwnersDiffer, TasksUntouched, ActorUntouched, QueueAsBefore DEF Accounts, Alive
  <1>6. AllOwned'
    BY <1>1, StillOwned DEF Accounts
  <1> QED
    BY <1>3, <1>4, <1>5, <1>6 DEF Accounts

(* The blocks of the arguments of a constructor, argument by argument.     *)
LEMMA ArgBlocks ==
    ASSUME NEW vs
    PROVE  /\ \A b \in ArgBuffers(vs) : \E i \in 1 .. Len(vs) : b[2] = Arg(i)
           /\ ArgsFree(vs) \subseteq ArgBuffers(vs)
           /\ \A i \in 1 .. Len(vs) : /\ Of(ArgBuffers(vs), Arg(i)) = Buffer(vs[i], Arg(i))
                                      /\ Of(ArgsFree(vs), Arg(i)) = ValueFree(vs[i], Arg(i))
  <1>1. ASSUME NEW i \in 1 .. Len(vs)
        PROVE  /\ Of(ArgBuffers(vs), Arg(i)) = Buffer(vs[i], Arg(i))
               /\ Of(ArgsFree(vs), Arg(i)) = ValueFree(vs[i], Arg(i))
    <2>1. \A k \in 1 .. Len(vs) : \A b \in Buffer(vs[k], Arg(k)) \cup ValueFree(vs[k], Arg(k)) :
              b[2] = Arg(k) /\ (b[2] = Arg(i) => k = i)
      BY BlockOwners, OwnersDiffer
    <2> QED
      BY <2>1 DEF Of, ArgBuffers, ArgsFree
  <1>2. \A b \in ArgBuffers(vs) : \E i \in 1 .. Len(vs) : b \in Buffer(vs[i], Arg(i))
    BY DEF ArgBuffers
  <1>3. \A b \in ArgsFree(vs) : b \in ArgBuffers(vs)
    <2>1. \A b \in ArgsFree(vs) : \E i \in 1 .. Len(vs) : b \in Buffer(vs[i], Arg(i))
      BY BlockOwners DEF ArgsFree
    <2> QED
      BY <2>1 DEF ArgBuffers
  <1> QED
    BY <1>1, <1>2, <1>3, BlockOwners

(* Before there is an actor, no block is one of its.                       *)
LEMMA NoActorYet ==
    ASSUME Order, Accounts, state = "none"
    PROVE  Held(Actor) = {} /\ (\A i : Held(Arg(i)) = {}) /\ mailbox = <<>> /\ args = <<>>
           /\ worker \notin {"run", "renew"} /\ ~registered
  <1>1. args = <<>> /\ mailbox = <<>> /\ worker \notin {"run", "renew"} /\ ~registered
    BY DEF Order, Life, Alive
  <1>2. Held(Actor) = {}
    BY DEF Accounts, ActorHeld, Alive
  <1>3. \A i : Arg(i) \notin Owner
    BY <1>1, OwnersDiffer DEF Owner
  <1> QED
    BY <1>1, <1>2, <1>3 DEF Accounts, AllOwned, Held, Of

(* A new actor, its arguments and its task own what was made for each.     *)
LEMMA CreateAccounts ==
    ASSUME Order, Accounts, NEW vs \in ArgLists, Create(vs)
    PROVE  Accounts'
  <1>0. PICK e : e = NewTask("NEW_ACTOR")
    OBVIOUS
  <1> DEFINE makes == ActorBlocks \cup ArgBuffers(vs) \cup TaskBlocks(e)
  <1>1. /\ e \in Element /\ Push(e) /\ TaskBlocks(e) \cap heap = {}
        /\ Memory(makes, {}, {})
        /\ state = "none" /\ state' = "SPAWNING" /\ args' = vs
        /\ UNCHANGED <<sent, stage, worker>>
    BY <1>0, NewTaskFresh DEF Create, messageVars, threadVars
  <1>2. /\ \A b \in ActorBlocks : b[2] = Actor
        /\ \A b \in TaskBlocks(e) : b[2] = e
        /\ \A b \in ArgBuffers(vs) : \E i \in 1 .. Len(vs) : b[2] = Arg(i)
    BY <1>1, BlockOwners, ArgBlocks
  <1>3. misused' = {}
    BY <1>1, NothingMisused DEF Accounts
  <1>4. MessagesHeld'
    <2>1. \A b \in makes \cup {} : \A m : b[2] # Msg(m)
      BY <1>1, <1>2, OwnersDiffer
    <2> HIDE DEF makes
    <2> QED
      BY <1>1, <2>1, MessagesUntouched DEF Accounts
  <1>5. TasksHeld'
    <2>1. \A b \in makes : b[2] \in Element => b \in TaskBlocks(e)
      BY <1>1, <1>2, OwnersDiffer
    <2>2. TaskBlocks(e) \subseteq makes
      OBVIOUS
    <2> HIDE DEF makes
    <2> QED
      BY <1>1, <2>1, <2>2, TaskPushed DEF Accounts
  <1>6. ActorHeld'
    <2>1. Of(makes, Actor) = ActorBlocks
      BY <1>1, <1>2, OwnersDiffer DEF Of
    <2>2. ASSUME NEW i \in 1 .. Len(vs) PROVE Of(makes, Arg(i)) = Buffer(vs[i], Arg(i))
      <3>1. \A b \in ActorBlocks \cup TaskBlocks(e) : b[2] # Arg(i)
        BY <1>1, <1>2, OwnersDiffer
      <3>2. Of(makes, Arg(i)) = Of(ArgBuffers(vs), Arg(i))
        BY <3>1 DEF Of
      <3> QED
        BY <3>2, ArgBlocks
    <2>3. \A o : Held(o)' = Held(o) \cup Of(makes, o)
      BY <1>1 DEF Held, Of, Memory
    <2> HIDE DEF makes
    <2>4. Held(Actor)' = ActorBlocks
      <3>1. Held(Actor)' = Held(Actor) \cup Of(makes, Actor)
        BY <2>3 DEF Actor
      <3> QED
        BY <1>1, <2>1, <3>1, NoActorYet
    <2>5. \A i \in 1 .. Len(vs) : Held(Arg(i))' = Buffer(vs[i], Arg(i))
      <3>1. \A i : Held(Arg(i))' = Held(Arg(i)) \cup Of(makes, Arg(i))
        BY <2>3 DEF Arg
      <3> QED
        BY <1>1, <2>2, <3>1, NoActorYet
    <2> QED
      BY <1>1, <2>4, <2>5 DEF ActorHeld, Alive
  <1>7. AllOwned'
    <2>1. Owner \subseteq Owner' /\ \A b \in makes : b[2] \in Owner'
      BY <1>1, <1>2, NoActorYet DEF Owner
    <2> QED
      BY <1>1, <2>1 DEF Accounts, AllOwned, Memory
  <1> QED
    BY <1>3, <1>4, <1>5, <1>6, <1>7 DEF Accounts

(* A creation that is undone leaves at most what ArgsFree does not free.   *)
LEMMA RefusedAccounts ==
    ASSUME Order, Accounts, NEW vs \in ArgLists, CreateFails(vs)
    PROVE  Accounts'
  <1>1. /\ state = "none" /\ state' = "refused" /\ args' = vs
        /\ UNCHANGED <<vars, sent, stage, worker>>
    BY DEF CreateFails, messageVars, threadVars
  <1>2. vs \in Seq(PhpValue) /\ Len(vs) \in Nat
    BY ValueAssumption
  <1> DEFINE Undone(makes, frees) ==
               /\ Memory(makes, {}, frees) /\ frees \subseteq makes
               /\ \A b \in makes \ frees : \E i \in 1 .. Len(vs) :
                     b \in Buffer(vs[i], Arg(i)) \ ValueFree(vs[i], Arg(i))
               /\ \A b \in makes : \/ b[2] = Actor
                                   \/ \E i \in 1 .. Len(vs) : b[2] = Arg(i)
                                   \/ (b \notin heap /\ b[2] \in Element)
  <1>3. ASSUME NEW makes, NEW frees, Undone(makes, frees)
        PROVE  Accounts'
    <2>1. misused' = {}
      BY <1>3, NothingMisused DEF Accounts
    <2>2. heap' = heap \cup (makes \ frees)
      <3>1. \A b \in makes : b \notin heap
        <4>1. Held(Actor) = {} /\ \A i : Held(Arg(i)) = {}
          BY <1>1, NoActorYet
        <4> QED
          BY <1>3, <4>1 DEF Held, Of
      <3> QED
        BY <1>3, <3>1 DEF Memory
    <2>3. \A b \in makes \ frees : \E i \in 1 .. Len(vs) : b[2] = Arg(i)
      BY <1>3, BlockOwners
    <2>4. \A b \in makes \ frees : b[2] # Actor /\ b[2] \notin Element /\ \A m : b[2] # Msg(m)
      BY <2>3, OwnersDiffer
    <2>5. Memory(makes \ frees, {}, {})
      BY <1>3, <2>1, <2>2 DEF Memory, Accounts
    <2>6. MessagesHeld' /\ TasksHeld'
      <3> DEFINE left == makes \ frees
      <3>1. \A b \in left \cup {} : b[2] \notin Element /\ \A m : b[2] # Msg(m)
        BY <2>4
      <3>2. Memory(left, {}, {})
        BY <2>5
      <3> HIDE DEF left
      <3> QED
        BY <1>1, <3>1, <3>2, MessagesUntouched, TasksUntouched, QueueAsBefore DEF Accounts
    <2>7. ActorHeld'
      <3>1. Held(Actor)' = {}
        <4>1. \A b \in heap : b[2] # Actor
          BY <1>1, NoActorYet DEF Held, Of
        <4> QED
          BY <2>2, <2>4, <4>1 DEF Held, Of, Actor
      <3>2. ASSUME NEW i \in 1 .. Len(vs)
            PROVE  Held(Arg(i))' \subseteq Buffer(vs[i], Arg(i)) \ ValueFree(vs[i], Arg(i))
        <4>1. \A b \in heap : b[2] # Arg(i)
          BY <1>1, NoActorYet DEF Held, Of
        <4>2. \A b \in makes \ frees : b[2] = Arg(i) => b \in Buffer(vs[i], Arg(i)) \ ValueFree(vs[i], Arg(i))
          BY <1>3, BlockOwners, OwnersDiffer
        <4>3. \A b \in heap' : b[2] = Arg(i) => b \in Buffer(vs[i], Arg(i)) \ ValueFree(vs[i], Arg(i))
          BY <2>2, <4>1, <4>2
        <4> QED
          BY <4>3 DEF Held, Of, Arg
      <3> QED
        BY <1>1, <3>1, <3>2 DEF ActorHeld, Alive
    <2>8. AllOwned'
      <3>1. Owner \subseteq Owner' /\ \A b \in makes \ frees : b[2] \in Owner'
        BY <1>1, <2>3, NoActorYet DEF Owner
      <3> QED
        BY <2>2, <3>1 DEF Accounts, AllOwned
    <2> QED
      BY <2>1, <2>6, <2>7, <2>8 DEF Accounts
  <1>4. ASSUME NEW i \in 1 .. Len(vs), ArgsRefused(vs, i) PROVE Accounts'
    <2> DEFINE before == SubSeq(vs, 1, i - 1)
               makes == ArgBuffers(before) \cup {<<"args", Actor>>}
               frees == ArgsFree(before) \cup {<<"args", Actor>>}
    <2>1. Memory(makes, {}, frees)
      BY <1>4 DEF ArgsRefused
    <2>2. Len(before) = i - 1 /\ \A k \in 1 .. i - 1 : before[k] = vs[k] /\ k \in 1 .. Len(vs)
      BY <1>2
    <2> HIDE DEF before
    <2>3. /\ ArgBuffers(before) = UNION {Buffer(vs[k], Arg(k)) : k \in 1 .. i - 1}
          /\ ArgsFree(before) = UNION {ValueFree(vs[k], Arg(k)) : k \in 1 .. i - 1}
      BY <2>2 DEF ArgBuffers, ArgsFree
    <2>4. frees \subseteq makes
      BY ArgBlocks
    <2>5. \A b \in makes \ frees : \E k \in 1 .. i - 1 :
              b \in Buffer(vs[k], Arg(k)) /\ b \notin ValueFree(vs[k], Arg(k))
      BY <2>3
    <2>6. \A b \in makes : b[2] = Actor \/ \E k \in 1 .. Len(vs) : b[2] = Arg(k)
      BY <2>2, <2>3, BlockOwners
    <2>7. Undone(makes, frees)
      BY <2>1, <2>2, <2>4, <2>5, <2>6
    <2> HIDE DEF Undone, makes, frees
    <2> QED
      BY <1>3, <2>7
  <1>5. ASSUME Room("NEW_ACTOR"), NEW e, e = NewTask("NEW_ACTOR"),
               Memory(ActorBlocks \cup ArgBuffers(vs) \cup TaskBlocks(e), {},
                      ActorFree(vs) \cup TaskFree(e))
        PROVE  Accounts'
    <2> DEFINE makes == ActorBlocks \cup ArgBuffers(vs) \cup TaskBlocks(e)
               frees == ActorBlocks \cup ArgsFree(vs) \cup TaskBlocks(e)
    <2>1. e \in Element /\ TaskBlocks(e) \cap heap = {}
      BY <1>5, NewTaskFresh
    <2>2. ActorFree(vs) \cup TaskFree(e) = frees
      <3>1. InMailbox = {}
        BY <1>1, NoActorYet DEF InMailbox
      <3> QED
        BY <3>1 DEF ActorFree, TaskFree
    <2>3. frees \subseteq makes
      BY ArgBlocks
    <2>4. \A b \in makes \ frees : b \in ArgBuffers(vs) /\ b \notin ArgsFree(vs)
      OBVIOUS
    <2>5. \A b \in makes \ frees : \E k \in 1 .. Len(vs) :
              b \in Buffer(vs[k], Arg(k)) /\ b \notin ValueFree(vs[k], Arg(k))
      BY <2>4 DEF ArgBuffers, ArgsFree
    <2>6. \A b \in makes : \/ b[2] = Actor
                           \/ \E k \in 1 .. Len(vs) : b[2] = Arg(k)
                           \/ (b \notin heap /\ b[2] \in Element)
      BY <2>1, ArgBlocks, BlockOwners
    <2>7. Undone(makes, frees)
      BY <1>5, <2>2, <2>3, <2>5, <2>6
    <2> HIDE DEF Undone, makes, frees
    <2> QED
      BY <1>3, <2>7
  <1> QED
    BY <1>4, <1>5 DEF CreateFails
(* Steps that move no block.                                               *)
LEMMA NothingMoves ==
    ASSUME Accounts, UNCHANGED <<heap, misused, sent, stage, args, Alive>>,
           \A e \in Element : TaskHeap(e)' = TaskHeap(e)
    PROVE  Accounts'
  <1>1. \A o : Held(o)' = Held(o)
    BY DEF Held, Of
  <1>2. MessagesHeld'
    <2>1. \A m : MessageHeap(m)' = MessageHeap(m)
      BY DEF MessageHeap, Undelivered, Unread
    <2>2. \A m : Held(Msg(m))' = Held(Msg(m))
      BY <1>1 DEF Msg
    <2> QED
      BY <2>1, <2>2 DEF MessagesHeld, Accounts
  <1>3. TasksHeld'
    BY <1>1 DEF TasksHeld, Accounts
  <1>4. ActorHeld'
    <2>1. Held(Actor)' = Held(Actor) /\ \A i : Held(Arg(i))' = Held(Arg(i))
      BY <1>1 DEF Actor, Arg
    <2> QED
      BY <2>1 DEF ActorHeld, Accounts
  <1>5. AllOwned'
    BY DEF AllOwned, Owner, Accounts
  <1> QED
    BY <1>2, <1>3, <1>4, <1>5 DEF Accounts

LEMMA SameHands ==
    ASSUME UNCHANGED vars,
           \/ worker' = worker
           \/ {worker, worker'} \cap {"task", "run", "renew", "aborted"} = {}
           \/ worker = "task" /\ worker' = "aborted"
    PROVE  \A e \in Element : TaskHeap(e)' = TaskHeap(e)
  <1>1. Queued' = Queued /\ result' = result
    BY QueueAsBefore
  <1> QED
    BY <1>1 DEF TaskHeap, Taken

LEMMA QuietAccounts ==
    ASSUME Order, Accounts,
           \/ CheckShutdown \/ Shutdown \/ MainLeaves \/ DestroyTables \/ DestroyQueue \/ Join
           \/ (HandleResume /\ ~registered)
           \/ ((PerformActorRemovals \/ FinalRemovals) /\ ~doomed)
    PROVE  Accounts'
  <1>1. UNCHANGED <<heap, misused, sent, stage, args>>
    BY DEF CheckShutdown, Shutdown, MainLeaves, DestroyTables, DestroyQueue, Join, HandleResume,
           PerformActorRemovals, FinalRemovals, Removals, actorVars, messageVars
  <1>2. Alive' = Alive
    <2>1. CASE DestroyTables
      BY <2>1 DEF DestroyTables, Unregistered, Alive, Order, Life
    <2>2. CASE ~DestroyTables
      BY <2>2 DEF CheckShutdown, Shutdown, MainLeaves, DestroyQueue, Join, HandleResume,
                  PerformActorRemovals, FinalRemovals, Removals, actorVars, Alive
    <2> QED
      BY <2>1, <2>2
  <1>3. \A e \in Element : TaskHeap(e)' = TaskHeap(e)
    <2>1. CASE DestroyQueue
      BY <2>1 DEF DestroyQueue, Destroy, threadVars, TaskHeap, Taken, Queued
    <2>2. CASE Shutdown \/ MainLeaves \/ DestroyTables \/ Join
      BY <2>2, SameHands DEF Shutdown, MainLeaves, DestroyTables, Join
    <2>3. CASE CheckShutdown
      BY <2>3, SameHands DEF CheckShutdown
    <2>4. CASE HandleResume /\ ~registered
      BY <2>4, SameHands DEF HandleResume
    <2>5. CASE PerformActorRemovals \/ FinalRemovals
      BY <2>5, SameHands DEF PerformActorRemovals, FinalRemovals
    <2> QED
      BY <2>1, <2>2, <2>3, <2>4, <2>5
  <1> QED
    BY <1>1, <1>2, <1>3, NothingMoves

(* The worker takes a task from the queue.                                 *)
LEMMA PopTaskAccounts ==
    ASSUME Order, Accounts, PopTask
    PROVE  Accounts'
  <1>1. /\ Pop /\ worker' = IF elements = NoCell THEN "empty" ELSE "task"
        /\ worker \in {"pop", "loop"}
        /\ UNCHANGED <<heap, misused, sent, stage, args, state>>
    BY DEF PopTask, actorVars, messageVars
  <1>2. \/ elements # NoCell /\ Queued' = Queued \ {result'} /\ result' \in Queued
        \/ elements = NoCell /\ Queued = {} /\ Queued' = {}
    BY <1>1, PopQueued DEF Order, TaskPlaces
  <1>3. \A e \in Element : TaskHeap(e)' = TaskHeap(e)
    BY <1>1, <1>2 DEF TaskHeap, Taken
  <1> QED
    BY <1>1, <1>3, NothingMoves DEF Alive
(* The worker is done with its task, or keeps its block alone.             *)
LEMMA TaskLeft ==
    ASSUME Order, TasksHeld, NEW reads, NEW frees, Memory({}, reads, frees),
           worker \in {"task", "run", "renew"}, UNCHANGED vars,
           \A b \in frees : b[2] \in Element => b[2] = result,
           \/ worker' = "loop" /\ TaskHeap(result) \ frees \subseteq Lost(result)
           \/ /\ worker' = "run"
              /\ TaskHeap(result) \ frees \subseteq StructOnly(result) \cup Lost(result)
              /\ StructOnly(result) \subseteq TaskHeap(result) \ frees
    PROVE  TasksHeld'
  <1>0. result \in Element /\ result \notin Queued
    BY DEF Order, TaskPlaces
  <1>p. PICK e \in Element : e = result
    BY <1>0
  <1>1. e \notin Queued /\ Queued' = Queued /\ result' = e /\ result = e
    BY <1>0, <1>p, QueueAsBefore
  <1>2. \A f \in Element \ {e} : TaskHeap(f)' = TaskHeap(f) /\ Of(frees, f) = {}
    BY <1>1 DEF TaskHeap, Taken, Of
  <1>3. TaskHeap(e)' = IF worker' = "run" THEN StructOnly(e) ELSE {}
    BY <1>1 DEF TaskHeap, Taken
  <1>4. \A b \in TaskHeap(e) \cup Lost(e) \cup StructOnly(e) : b[2] = e
    BY <1>1, BlockOwners DEF TaskHeap, Lost
  <1>5. /\ TaskHeap(e)' \subseteq Held(e) \ Of(frees, e)
        /\ Held(e) \ Of(frees, e) \subseteq TaskHeap(e)' \cup Lost(e)
    <2>1. TaskHeap(e) \subseteq Held(e) /\ Held(e) \subseteq TaskHeap(e) \cup Lost(e)
      BY DEF TasksHeld
    <2>2. \A b \in Held(e) : b \in Of(frees, e) <=> b \in frees
      BY DEF Held, Of
    <2> QED
      BY <1>1, <1>3, <1>4, <2>1, <2>2
  <1>6. \A f \in Element :
           /\ TaskHeap(f)' \subseteq (Held(f) \cup Of({}, f)) \ Of(frees, f)
           /\ (Held(f) \cup Of({}, f)) \ Of(frees, f) \subseteq TaskHeap(f)' \cup Lost(f)
    <2> TAKE f \in Element
    <2>1. CASE f = e
      BY <1>5, <2>1 DEF Of
    <2>2. CASE f # e
      BY <1>2, <2>2 DEF TasksHeld, Of
    <2> QED
      BY <2>1, <2>2
  <1> QED
    BY <1>6, TaskMoves

LEMMA TaskInHand ==
    ASSUME Order, worker \in {"task", "run", "renew"}
    PROVE  /\ result \in Element
           /\ TaskHeap(result) = IF worker = "task" THEN TaskBlocks(result) ELSE StructOnly(result)
           /\ \A b \in TaskBlocks(result) : b[2] = result
           /\ TaskBlocks(result) = StructOnly(result) \cup Strings(result)
  <1>1. result \in Element /\ result \notin Queued
    BY DEF Order, TaskPlaces
  <1> QED
    BY <1>1, BlockOwners DEF TaskHeap, Taken

LEMMA OwnTaskOnly ==
    ASSUME Order, Accounts, NEW reads, NEW frees, Memory({}, reads, frees),
           worker \in {"task", "run", "renew"}, reads \subseteq heap,
           frees \subseteq TaskHeap(result),
           UNCHANGED vars, UNCHANGED <<sent, stage, args, Alive>>,
           \/ worker' = "loop" /\ TaskHeap(result) \ frees \subseteq Lost(result)
           \/ /\ worker' = "run"
              /\ TaskHeap(result) \ frees \subseteq StructOnly(result) \cup Lost(result)
              /\ StructOnly(result) \subseteq TaskHeap(result) \ frees
    PROVE  Accounts'
  <1>1. result \in Element /\ \A b \in frees : b[2] = result
    BY TaskInHand
  <1>2. misused' = {}
    BY <1>1, InHeap, NothingMisused DEF Accounts
  <1>3. \A b \in {} \cup frees : \A m : b[2] # Msg(m) /\ b[2] # Actor /\ b[2] # Arg(m)
    BY <1>1, OwnersDiffer
  <1>4. MessagesHeld' /\ ActorHeld' /\ AllOwned'
    BY <1>3, MessagesUntouched, ActorUntouched, StillOwned DEF Accounts
  <1>5. TasksHeld'
    BY <1>1, TaskLeft DEF Accounts
  <1> QED
    BY <1>2, <1>4, <1>5 DEF Accounts

(* The task handlers that touch no message.                                *)
LEMMA HandleTaskAccounts ==
    ASSUME Order, Accounts, HandleNew \/ HandleFree \/ ResumeNeighbour
    PROVE  Accounts'
  <1>1. worker = "task" /\ UNCHANGED vars /\ UNCHANGED <<sent, stage, args>>
    BY DEF HandleNew, HandleFree, ResumeNeighbour, actorVars, messageVars
  <1>2. /\ TaskHeap(result) = TaskBlocks(result) /\ TaskHeap(result) \subseteq heap
        /\ TaskBlocks(result) = StructOnly(result) \cup Strings(result)
    BY <1>1, TaskInHand, InHeap
  <1>3. CASE HandleNew /\ registered
    <2> DEFINE reads == Strings(result) \cup ActorBlocks \cup ArgBuffers(args)
    <2>1. Memory({}, reads, {}) /\ worker' = "run" /\ state' = "ACTIVE"
      BY <1>3 DEF HandleNew
    <2>2. Alive /\ Alive'
      BY <1>3, <2>1 DEF Order, Life, Alive
    <2>3. reads \subseteq heap
      BY <1>2, <2>2, InHeap
    <2>4. Lost(result) = Strings(result)
      BY <1>3 DEF HandleNew, Lost
    <2> HIDE DEF reads
    <2>5. UNCHANGED Alive
      BY <2>2
    <2> QED
      BY <1>1, <1>2, <2>1, <2>3, <2>4, <2>5, OwnTaskOnly
  <1>4. CASE HandleNew /\ ~registered
    <2>1. Memory({}, Strings(result), StructOnly(result)) /\ worker' = "loop" /\ UNCHANGED Alive
      BY <1>4 DEF HandleNew, Alive
    <2>2. Lost(result) = Strings(result)
      BY <1>4 DEF HandleNew, Lost
    <2> QED
      BY <1>1, <1>2, <2>1, <2>2, OwnTaskOnly
  <1>5. CASE HandleFree
    <2>1. Memory({}, {}, StructOnly(result)) /\ worker' = "loop" /\ UNCHANGED Alive
      BY <1>5 DEF HandleFree, Alive, actorVars
    <2>2. Strings(result) = {}
      BY <1>5 DEF HandleFree, Strings
    <2> QED
      BY <1>1, <1>2, <2>1, <2>2, OwnTaskOnly
  <1>6. CASE ResumeNeighbour
    <2>1. /\ Memory({}, {}, Strings(result) \cup StructOnly(result))
          /\ worker' = "loop" /\ UNCHANGED Alive
      BY <1>6 DEF ResumeNeighbour, Alive, actorVars
    <2> QED
      BY <1>1, <1>2, <2>1, OwnTaskOnly
  <1> QED
    BY <1>3, <1>4, <1>5, <1>6

(* The actor returns: it frees the task, and leaves itself to Removals.    *)
LEMMA EndAccounts ==
    ASSUME Order, Accounts, End
    PROVE  Accounts'
  <1>1. /\ worker = "run" /\ worker' = "loop" /\ UNCHANGED vars /\ UNCHANGED <<sent, stage, args>>
        /\ Memory({}, ActorStrings, StructOnly(result))
    BY DEF End, messageVars
  <1>2. Alive /\ Alive'
    BY DEF End, Unregistered, Order, Life, Alive
  <1>3. TaskHeap(result) = StructOnly(result)
    BY <1>1, TaskInHand
  <1>4. ActorStrings \subseteq heap
    BY <1>2, InHeap DEF ActorBlocks
  <1>5. UNCHANGED Alive
    BY <1>2
  <1> QED
    BY <1>1, <1>3, <1>4, <1>5, OwnTaskOnly

(* A resumed actor takes its message: the task's string, the message and   *)
(* all of the entry but an object go.                                      *)
LEMMA HandleResumeAccounts ==
    ASSUME Order, Accounts, HandleResume, registered
    PROVE  Accounts'
  <1>0. PICK m \in Message : m = Head(mailbox) /\ stage[m] = "mailed"
    BY ResumeHasMessage, TailEntries DEF Order, MailTypeOK, MessagePlaces
  <1> DEFINE reads == {<<"struct", Actor>>} \cup Buffer(sent[m], Msg(m))
             frees == Strings(result) \cup MessageFree(m)
  <1>1. /\ Memory({}, reads, frees)
        /\ stage' = [stage EXCEPT ![m] = "received"]
        /\ worker = "task" /\ worker' = "run" /\ state' = "ACTIVE"
        /\ result[1] = "RESUME_ACTOR" /\ UNCHANGED vars /\ UNCHANGED <<sent, args>>
    BY <1>0 DEF HandleResume
  <1>2. /\ result \in Element /\ TaskHeap(result) = TaskBlocks(result)
        /\ TaskBlocks(result) = StructOnly(result) \cup Strings(result)
        /\ \A b \in TaskBlocks(result) : b[2] = result
    BY <1>1, TaskInHand
  <1>3. /\ \A b \in MessageFree(m) : b[2] = Msg(m)
        /\ \A b \in Strings(result) : b[2] = result
    BY <1>2, BlockOwners
  <1>4. MessageHeap(m) = Unread(m) /\ MessageFree(m) \subseteq Unread(m)
    BY <1>0, BlockOwners DEF MessageHeap, MessageFree, EntryFree, Unread
  <1>5. Alive /\ Alive'
    BY <1>1 DEF Alive, Order, Life
  <1>6. misused' = {}
    <2>1. ActorBlocks \subseteq heap /\ Unread(m) \subseteq heap /\ TaskBlocks(result) \subseteq heap
      BY <1>2, <1>4, <1>5, InHeap
    <2>2. reads \subseteq ActorBlocks \cup Unread(m)
      BY DEF ActorBlocks, Unread
    <2>3. frees \subseteq TaskBlocks(result) \cup Unread(m)
      BY <1>2, <1>4
    <2> HIDE DEF reads, frees
    <2> QED
      BY <1>1, <2>1, <2>2, <2>3, NothingMisused DEF Accounts
  <1>7. MessagesHeld'
    <2>1. DOMAIN stage = Message
      BY DEF Order, MailTypeOK
    <2>2. Of(frees, Msg(m)) = MessageFree(m) /\ Of({}, Msg(m)) = {}
      <3>1. \A b \in Strings(result) : b[2] # Msg(m)
        BY <1>2, <1>3, OwnersDiffer
      <3> QED
        BY <1>3, <3>1 DEF Of
    <2>3. MessageHeap(m)' = Buffer(sent[m], Msg(m)) \ ValueFree(sent[m], Msg(m))
      BY <1>1, <2>1 DEF MessageHeap
    <2>4. Unread(m) \ MessageFree(m) = Buffer(sent[m], Msg(m)) \ ValueFree(sent[m], Msg(m))
      <3>1. \A b \in Buffer(sent[m], Msg(m)) : b = <<"buffer", Msg(m)>>
        BY DEF Buffer
      <3> QED
        BY <3>1, BlockOwners DEF Unread, MessageFree, EntryFree
    <2>5. \A b \in {} \cup frees : \A k \in Message : b[2] = Msg(k) => k = m
      BY <1>2, <1>3, OwnersDiffer
    <2>6. \A k \in Message \ {m} : stage'[k] = stage[k] /\ sent'[k] = sent[k]
      BY <1>1, <2>1
    <2>7. MessageHeap(m)' = (MessageHeap(m) \cup Of({}, Msg(m))) \ Of(frees, Msg(m))
      BY <1>4, <2>2, <2>3, <2>4
    <2> HIDE DEF reads, frees
    <2> QED
      BY <1>1, <2>5, <2>6, <2>7, MessageMoves DEF Accounts
  <1>8. TasksHeld'
    <2>1. \A b \in frees : b[2] \in Element => b[2] = result
      BY <1>2, <1>3, OwnersDiffer
    <2>2. TaskHeap(result) \ frees \subseteq StructOnly(result) \cup Lost(result)
      BY <1>2
    <2>3. StructOnly(result) \subseteq TaskHeap(result) \ frees
      <3>1. <<"task", result>> \notin MessageFree(m)
        BY <1>2, <1>3, OwnersDiffer
      <3>2. <<"task", result>> \notin Strings(result)
        BY <1>1 DEF Strings
      <3> QED
        BY <1>2, <3>1, <3>2 DEF StructOnly
    <2> HIDE DEF reads, frees
    <2> QED
      BY <1>1, <2>1, <2>2, <2>3, TaskLeft DEF Accounts
  <1>9. ActorHeld' /\ AllOwned'
    <2>1. \A b \in {} \cup frees : b[2] # Actor /\ \A i : b[2] # Arg(i)
      BY <1>2, <1>3, OwnersDiffer
    <2>2. UNCHANGED Alive
      BY <1>5
    <2> HIDE DEF reads, frees
    <2> QED
      BY <1>1, <2>1, <2>2, ActorUntouched, StillOwned DEF Accounts
  <1> QED
    BY <1>6, <1>7, <1>8, <1>9 DEF Accounts
(* A new task, made by the worker as it leaves the one it is done with.    *)
LEMMA PushedAndLeft ==
    ASSUME Order, TasksHeld, NEW reads, NEW e \in Element, Push(e),
           TaskBlocks(e) \cap heap = {},
           Memory(TaskBlocks(e), reads, StructOnly(result)),
           worker \in {"run", "renew"}, worker' = "loop"
    PROVE  TasksHeld'
  <1>0. result \in Element /\ result \notin Queued /\ TaskHeap(result) = StructOnly(result)
    BY TaskInHand DEF Order, TaskPlaces
  <1>p. PICK r \in Element : r = result
    BY <1>0
  <1>1. /\ e \notin Queued /\ e # r /\ r \notin Queued
        /\ Queued' = Queued \cup {e} /\ result' = r
    BY <1>0, <1>p, FreshTask, PushQueued DEF Order, Taken
  <1>2. \A f \in Element \ {e, r} : TaskHeap(f)' = TaskHeap(f)
    BY <1>p, <1>1 DEF TaskHeap, Taken
  <1>3. TaskHeap(e)' = TaskBlocks(e) /\ TaskHeap(e) = {} /\ TaskHeap(r)' = {}
    BY <1>p, <1>1 DEF TaskHeap, Taken
  <1>4. TaskHeap(r) = StructOnly(r)
    BY <1>0, <1>p
  <1>5. Held(e) = {}
    <2>1. Held(e) \subseteq TaskBlocks(e)
      BY <1>3, BlockOwners DEF TasksHeld, Lost
    <2> QED
      BY <2>1 DEF Held, Of
  <1>6. /\ \A b \in TaskBlocks(e) : b[2] = e
        /\ \A b \in StructOnly(r) : b[2] = r
    BY BlockOwners
  <1>7. \A f \in Element :
           /\ TaskHeap(f)' \subseteq (Held(f) \cup Of(TaskBlocks(e), f)) \ Of(StructOnly(r), f)
           /\ (Held(f) \cup Of(TaskBlocks(e), f)) \ Of(StructOnly(r), f) \subseteq TaskHeap(f)' \cup Lost(f)
    <2> TAKE f \in Element
    <2>1. CASE f = e
      <3>1. Of(TaskBlocks(e), e) = TaskBlocks(e) /\ Of(StructOnly(r), e) = {}
        BY <1>1, <1>6 DEF Of
      <3> QED
        BY <1>3, <1>5, <2>1, <3>1
    <2>2. CASE f = r
      <3>1. Of(TaskBlocks(e), r) = {} /\ Of(StructOnly(r), r) = StructOnly(r)
        BY <1>1, <1>6 DEF Of
      <3>2. Held(r) \subseteq StructOnly(r) \cup Lost(r)
        BY <1>4 DEF TasksHeld
      <3> QED
        BY <1>3, <2>2, <3>1, <3>2
    <2>3. CASE f \notin {e, r}
      <3>1. Of(TaskBlocks(e), f) = {} /\ Of(StructOnly(r), f) = {}
        BY <1>6, <2>3 DEF Of
      <3> QED
        BY <1>2, <2>3, <3>1 DEF TasksHeld
    <2> QED
      BY <2>1, <2>2, <2>3
  <1>8. Memory(TaskBlocks(e), reads, StructOnly(r))
    BY <1>p
  <1> QED
    BY <1>7, <1>8, TaskMoves

(* The books of messages and of the actor, when only tasks are concerned.  *)
LEMMA OnlyTasks ==
    ASSUME Accounts, NEW makes, NEW reads, NEW frees, Memory(makes, reads, frees),
           \A b \in makes \cup frees : b[2] \in Element,
           reads \cup frees \subseteq heap \cup makes,
           UNCHANGED <<sent, stage, args, Alive>>, TasksHeld'
    PROVE  Accounts'
  <1>1. \A b \in makes \cup frees : \A m : b[2] # Msg(m) /\ b[2] # Actor /\ b[2] # Arg(m)
    BY OwnersDiffer
  <1>2. MessagesHeld' /\ ActorHeld'
    BY <1>1, MessagesUntouched, ActorUntouched DEF Accounts
  <1>3. AllOwned'
    <2>1. \A b \in makes : b[2] \in Owner
      BY DEF Owner
    <2> QED
      BY <2>1, StillOwned DEF Accounts
  <1> QED
    BY <1>2, <1>3, NothingMisused DEF Accounts

(* Wake-ups and restarts hand the worker new tasks.                        *)
LEMMA WakeNeighbourAccounts ==
    ASSUME Order, Accounts, WakeNeighbour
    PROVE  Accounts'
  <1>1. PICK e \in Element : /\ TaskBlocks(e) \cap heap = {}
                             /\ Push(e) /\ Memory(TaskBlocks(e), {}, {})
                             /\ UNCHANGED <<sent, stage, args, state, worker>>
    BY DEF WakeNeighbour, Unallocated, actorVars, messageVars, threadVars
  <1>2. \A b \in TaskBlocks(e) : b[2] = e
    BY BlockOwners
  <1>3. TasksHeld'
    BY <1>1, TaskPushed DEF Accounts
  <1>4. UNCHANGED Alive
    BY <1>1 DEF Alive
  <1> QED
    BY <1>1, <1>2, <1>3, <1>4, OnlyTasks

LEMMA CrashAccounts ==
    ASSUME Order, Accounts, Crash
    PROVE  Accounts'
  <1>0. PICK e : e = NewTask("FREE_VM_STACK")
    OBVIOUS
  <1> DEFINE reads == {<<"struct", Actor>>}
  <1>1. /\ e \in Element /\ TaskBlocks(e) \cap heap = {}
        /\ Push(e) /\ Memory(TaskBlocks(e), reads, {})
        /\ worker = "run" /\ worker' = "renew" /\ registered /\ state' = "RESTARTING"
        /\ UNCHANGED <<sent, stage, args>>
    BY <1>0, NewTaskFresh DEF Crash, messageVars
  <1>2. Alive /\ Alive'
    BY <1>1 DEF Order, Life, Alive
  <1>3. reads \subseteq heap
    BY <1>2, InHeap DEF ActorBlocks
  <1>4. \A b \in TaskBlocks(e) : b[2] = e
    BY <1>1, BlockOwners
  <1> HIDE DEF reads
  <1>5. TasksHeld'
    BY <1>1, TaskPushed DEF Accounts
  <1>6. UNCHANGED Alive
    BY <1>2
  <1> QED
    BY <1>1, <1>3, <1>4, <1>5, <1>6, OnlyTasks

LEMMA WokenAccounts ==
    ASSUME Order, Accounts, NEW e \in Element, Push(e), TaskBlocks(e) \cap heap = {},
           Memory(TaskBlocks(e), ActorStrings, StructOnly(result)),
           worker \in {"run", "renew"}, worker' = "loop",
           UNCHANGED <<sent, stage, args>>, Alive, Alive'
    PROVE  Accounts'
  <1>1. result \in Element /\ StructOnly(result) \subseteq heap
    BY TaskInHand, InHeap
  <1>2. ActorStrings \subseteq heap
    BY InHeap DEF ActorBlocks
  <1>3. \A b \in TaskBlocks(e) \cup StructOnly(result) : b[2] \in Element
    BY <1>1, BlockOwners
  <1>4. TasksHeld'
    BY PushedAndLeft DEF Accounts
  <1>5. UNCHANGED Alive
    OBVIOUS
  <1>6. ActorStrings \cup StructOnly(result) \subseteq heap \cup TaskBlocks(e)
    BY <1>1, <1>2
  <1> QED
    BY <1>3, <1>4, <1>5, <1>6, OnlyTasks

LEMMA BlockAccounts ==
    ASSUME Order, Accounts, Block
    PROVE  Accounts'
  <1>0. PICK e : e = NewTask("RESUME_ACTOR")
    OBVIOUS
  <1>1. /\ worker = "run" /\ worker' = "loop" /\ state = "ACTIVE" /\ state' = "IDLE"
        /\ UNCHANGED <<sent, stage, args>>
    BY DEF Block, messageVars
  <1>2. Alive /\ Alive'
    BY <1>1 DEF Alive
  <1>3. CASE mailbox # <<>>
    <2>1. /\ e \in Element /\ TaskBlocks(e) \cap heap = {}
          /\ Push(e) /\ Memory(TaskBlocks(e), ActorStrings, StructOnly(result))
      BY <1>0, <1>3, NewTaskFresh DEF Block
    <2> QED
      BY <1>1, <1>2, <2>1, WokenAccounts
  <1>4. CASE mailbox = <<>>
    <2>1. Memory({}, ActorStrings, StructOnly(result)) /\ UNCHANGED vars
      BY <1>4 DEF Block
    <2>2. TaskHeap(result) = StructOnly(result)
      BY <1>1, TaskInHand
    <2>3. ActorStrings \subseteq heap
      BY <1>2, InHeap DEF ActorBlocks
    <2>4. UNCHANGED Alive
      BY <1>2
    <2> QED
      BY <1>1, <2>1, <2>2, <2>3, <2>4, OwnTaskOnly
  <1> QED
    BY <1>3, <1>4

LEMMA RenewAccounts ==
    ASSUME Order, Accounts, Renew
    PROVE  Accounts'
  <1>0. PICK e : e = NewTask("NEW_ACTOR")
    OBVIOUS
  <1>1. /\ e \in Element /\ TaskBlocks(e) \cap heap = {}
        /\ Push(e) /\ Memory(TaskBlocks(e), ActorStrings, StructOnly(result))
        /\ worker = "renew" /\ worker' = "loop" /\ state' = state
        /\ UNCHANGED <<sent, stage, args>>
    BY <1>0, NewTaskFresh DEF Renew, messageVars, actorVars
  <1>2. Alive /\ Alive'
    BY <1>1 DEF Alive, Order, Life
  <1> QED
    BY <1>1, <1>2, WokenAccounts

(* A supervisor's end frees nothing yet: the actor only changes lists.     *)
LEMMA EndWithSupervisorAccounts ==
    ASSUME Order, Accounts, EndWithSupervisor
    PROVE  Accounts'
  <1> DEFINE reads == ActorStrings \cup {<<"struct", Actor>>}
  <1>1. /\ Memory({}, reads, {}) /\ registered /\ state' = "SHUTTING_DOWN"
        /\ UNCHANGED vars /\ UNCHANGED <<sent, stage, args, worker>>
    BY DEF EndWithSupervisor, Unregistered, messageVars, threadVars
  <1>2. Alive /\ Alive'
    BY <1>1 DEF Order, Life, Alive
  <1>3. reads \subseteq heap
    BY <1>2, InHeap DEF ActorBlocks
  <1> HIDE DEF reads
  <1>4. TasksHeld'
    BY <1>1, TasksUntouched, QueueAsBefore DEF Accounts
  <1>5. UNCHANGED Alive
    BY <1>2
  <1> QED
    BY <1>1, <1>3, <1>4, <1>5, OnlyTasks
(* The end of an actor frees it, its messages and what it was built from,  *)
(* but for the objects among them.                                         *)
LEMMA ActorFreeOwners ==
    /\ Of(ActorFree(args), Actor) = ActorBlocks
    /\ \A i \in 1 .. Len(args) : Of(ActorFree(args), Arg(i)) = ValueFree(args[i], Arg(i))
    /\ \A m \in InMailbox : Of(ActorFree(args), Msg(m)) = MessageFree(m)
    /\ \A m : m \notin InMailbox => Of(ActorFree(args), Msg(m)) = {}
    /\ \A b \in ActorFree(args) : b[2] \notin Element
  <1>1. /\ \A b \in ActorBlocks : b[2] = Actor
        /\ \A m : \A b \in MessageFree(m) : b[2] = Msg(m)
        /\ \A b \in ArgsFree(args) : \E i \in 1 .. Len(args) : b[2] = Arg(i)
    BY BlockOwners, ArgBlocks
  <1>2. \A b : b \in ActorFree(args) <=> \/ b \in ActorBlocks
                                         \/ b \in ArgsFree(args)
                                         \/ \E m \in InMailbox : b \in MessageFree(m)
    BY DEF ActorFree
  <1>3. Of(ActorFree(args), Actor) = ActorBlocks
    BY <1>1, <1>2, OwnersDiffer DEF Of
  <1>4. ASSUME NEW i \in 1 .. Len(args)
        PROVE  Of(ActorFree(args), Arg(i)) = ValueFree(args[i], Arg(i))
    <2>1. Of(ActorFree(args), Arg(i)) = Of(ArgsFree(args), Arg(i))
      BY <1>1, <1>2, OwnersDiffer DEF Of
    <2> QED
      BY <2>1, ArgBlocks
  <1>5. ASSUME NEW m \in InMailbox PROVE Of(ActorFree(args), Msg(m)) = MessageFree(m)
    <2>1. \A b \in ActorBlocks \cup ArgsFree(args) : b[2] # Msg(m)
      BY <1>1, OwnersDiffer
    <2>2. \A k \in InMailbox : \A b \in MessageFree(k) : b[2] = Msg(m) => b \in MessageFree(m)
      BY <1>1, OwnersDiffer
    <2> QED
      BY <1>1, <1>2, <2>1, <2>2 DEF Of
  <1>6. ASSUME NEW m, m \notin InMailbox PROVE Of(ActorFree(args), Msg(m)) = {}
    <2>1. \A b \in ActorBlocks \cup ArgsFree(args) : b[2] # Msg(m)
      BY <1>1, OwnersDiffer
    <2>2. \A k \in InMailbox : \A b \in MessageFree(k) : b[2] # Msg(m)
      BY <1>1, <1>6, OwnersDiffer
    <2> QED
      BY <1>2, <2>1, <2>2 DEF Of
  <1>7. \A b \in ActorFree(args) : b[2] \notin Element
    BY <1>1, <1>2, OwnersDiffer
  <1> QED
    BY <1>3, <1>4, <1>5, <1>6, <1>7

LEMMA RemovalsAccounts ==
    ASSUME Order, Accounts, PerformActorRemovals \/ FinalRemovals, doomed
    PROVE  Accounts'
  <1> DEFINE frees == ActorFree(args)
  <1>1. /\ Memory({}, {}, frees)
        /\ stage' = [m \in Message |-> IF m \in InMailbox THEN "discarded" ELSE stage[m]]
        /\ state' = "freed" /\ UNCHANGED vars /\ UNCHANGED <<args, sent>>
        /\ {worker, worker'} \cap {"task", "run", "renew", "aborted"} = {}
    BY DEF PerformActorRemovals, FinalRemovals, Removals
  <1>2. Alive /\ ~Alive' /\ InMailbox = Entries(mailbox)
    BY <1>1 DEF Order, Life, Alive, InMailbox, Entries
  <1>3. \A m \in InMailbox : m \in Message /\ stage[m] = "mailed" /\ MessageHeap(m) = Unread(m)
    <2>1. \A m \in InMailbox : m \in Message
      BY DEF Order, MailTypeOK, InMailbox
    <2> QED
      BY <1>2, <2>1 DEF Order, MessagePlaces, MessageHeap
  <1>4. misused' = {}
    <2>1. \A m \in InMailbox : MessageFree(m) \subseteq heap
      <3>1. \A m \in InMailbox : MessageFree(m) \subseteq Unread(m)
        BY BlockOwners DEF MessageFree, EntryFree, Unread
      <3> QED
        BY <1>3, <3>1, InHeap
    <2>2. ActorBlocks \cup ArgsFree(args) \subseteq heap
      BY <1>2, ArgBlocks, InHeap
    <2>3. frees \subseteq heap
      BY <2>1, <2>2 DEF ActorFree
    <2> HIDE DEF frees
    <2> QED
      BY <1>1, <2>3, NothingMisused DEF Accounts
  <1>5. MessagesHeld'
    <2> SUFFICES ASSUME NEW m \in Message PROVE Held(Msg(m))' = MessageHeap(m)'
      BY DEF MessagesHeld, Msg
    <2>1. Held(Msg(m))' = MessageHeap(m) \ Of(frees, Msg(m))
      <3>1. Held(Msg(m)) = MessageHeap(m)
        BY DEF Accounts, MessagesHeld
      <3> HIDE DEF frees
      <3>2. Held(Msg(m))' = (Held(Msg(m)) \cup Of({}, Msg(m))) \ Of(frees, Msg(m))
        BY <1>1, HeldAfter
      <3> QED
        BY <3>1, <3>2 DEF Of
    <2>2. CASE m \in InMailbox
      <3>1. MessageHeap(m)' = Buffer(sent[m], Msg(m)) \ ValueFree(sent[m], Msg(m))
        BY <1>1, <2>2 DEF MessageHeap
      <3>2. Unread(m) \ MessageFree(m) = Buffer(sent[m], Msg(m)) \ ValueFree(sent[m], Msg(m))
        <4>1. \A b \in Buffer(sent[m], Msg(m)) : b = <<"buffer", Msg(m)>>
          BY DEF Buffer
        <4> QED
          BY <4>1, BlockOwners DEF Unread, MessageFree, EntryFree
      <3> QED
        BY <1>3, <2>1, <2>2, <3>1, <3>2, ActorFreeOwners
    <2>3. CASE m \notin InMailbox
      <3>1. MessageHeap(m)' = MessageHeap(m)
        BY <1>1, <2>3 DEF MessageHeap, Undelivered, Unread
      <3> QED
        BY <2>1, <2>3, <3>1, ActorFreeOwners
    <2> QED
      BY <2>2, <2>3
  <1>6. TasksHeld'
    <2>1. \A e \in Element : TaskHeap(e)' = TaskHeap(e)
      BY <1>1, SameHands
    <2>2. \A b \in {} \cup frees : b[2] \notin Element
      BY ActorFreeOwners
    <2>3. \A e \in Element : Held(e)' = Held(e)
      <3> HIDE DEF frees
      <3> QED
        BY <1>1, <2>2, HeldAfter
    <2> QED
      BY <2>1, <2>3 DEF TasksHeld, Accounts
  <1>7. ActorHeld'
    <2>1. Held(Actor)' = {}
      <3>1. Held(Actor) = ActorBlocks /\ Of(frees, Actor) = ActorBlocks
        BY <1>2, ActorFreeOwners DEF Accounts, ActorHeld
      <3> HIDE DEF frees
      <3>2. Held(Actor)' = (Held(Actor) \cup Of({}, Actor)) \ Of(frees, Actor)
        BY <1>1, HeldAfter
      <3> QED
        BY <3>1, <3>2 DEF Of
    <2>2. ASSUME NEW i \in 1 .. Len(args)
          PROVE  Held(Arg(i))' = Buffer(args[i], Arg(i)) \ ValueFree(args[i], Arg(i))
      <3>1. /\ Held(Arg(i)) = Buffer(args[i], Arg(i))
            /\ Of(frees, Arg(i)) = ValueFree(args[i], Arg(i))
        BY <1>2, ActorFreeOwners DEF Accounts, ActorHeld
      <3> HIDE DEF frees
      <3>2. Held(Arg(i))' = (Held(Arg(i)) \cup Of({}, Arg(i))) \ Of(frees, Arg(i))
        BY <1>1, HeldAfter
      <3> QED
        BY <3>1, <3>2 DEF Of
    <2> QED
      BY <1>1, <1>2, <2>1, <2>2 DEF ActorHeld
  <1>8. AllOwned'
    <2> HIDE DEF frees
    <2> QED
      BY <1>1, StillOwned DEF Accounts
  <1> QED
    BY <1>4, <1>5, <1>6, <1>7, <1>8 DEF Accounts

(* What the queue still holds when it is destroyed is freed whole.         *)
LEMMA DestroyTaskAccounts ==
    ASSUME Order, Accounts, DestroyTask
    PROVE  Accounts'
  <1>1. /\ Pop /\ elements # NoCell
        /\ UNCHANGED <<sent, stage, args, state, worker>>
    <2>1. /\ Pop /\ size > 0
          /\ UNCHANGED <<sent, stage, args, state, worker>>
      BY DEF DestroyTask, actorVars, messageVars, threadVars, Pop
    <2>2. chain \in Seq(Cell) /\ Len(chain) > 0 /\ elements = chain[1]
      BY <2>1 DEF Order, IInv, TypeOK, LinkedList
    <2> QED
      BY <2>1, <2>2, CellAssumption
  <1>2. worker \notin {"task", "run", "renew", "aborted"}
    BY DEF DestroyTask, Order, Phases
  <1>3. PICK e \in Element : e = result' /\ e \in Queued /\ Queued' = Queued \ {e}
    BY <1>1, PopQueued DEF Order, TaskPlaces
  <1>4. Memory({}, {}, TaskBlocks(e))
    BY <1>3 DEF DestroyTask, TaskFree
  <1>5. TaskHeap(e) = TaskBlocks(e) /\ TaskHeap(e)' = {}
    BY <1>1, <1>2, <1>3 DEF TaskHeap, Taken
  <1>6. \A f \in Element \ {e} : TaskHeap(f)' = TaskHeap(f)
    BY <1>1, <1>2, <1>3 DEF TaskHeap, Taken
  <1>7. \A b \in TaskBlocks(e) : b[2] = e
    BY BlockOwners
  <1>8. TasksHeld'
    <2>1. \A f \in Element :
             /\ TaskHeap(f)' \subseteq (Held(f) \cup Of({}, f)) \ Of(TaskBlocks(e), f)
             /\ (Held(f) \cup Of({}, f)) \ Of(TaskBlocks(e), f) \subseteq TaskHeap(f)' \cup Lost(f)
      <3> TAKE f \in Element
      <3>1. CASE f = e
        <4>1. Of(TaskBlocks(e), e) = TaskBlocks(e) /\ Of({}, e) = {}
          BY <1>7 DEF Of
        <4> QED
          BY <1>5, <3>1, <4>1 DEF Accounts, TasksHeld
      <3>2. CASE f # e
        <4>1. Of(TaskBlocks(e), f) = {} /\ Of({}, f) = {}
          BY <1>7, <3>2 DEF Of
        <4> QED
          BY <1>6, <3>2, <4>1 DEF Accounts, TasksHeld
      <3> QED
        BY <3>1, <3>2
    <2> QED
      BY <1>4, <2>1, TaskMoves
  <1>9. TaskBlocks(e) \subseteq heap /\ UNCHANGED Alive
    BY <1>1, <1>5, InHeap DEF Alive
  <1> QED
    BY <1>1, <1>4, <1>7, <1>8, <1>9, OnlyTasks
-----------------------------------------------------------------------------
(* The books and the places are kept by every step.                        *)
LEMMA BooksAtFirst == MailInit => Order /\ Accounts
  <1> SUFFICES ASSUME MailInit PROVE Order /\ Accounts
    OBVIOUS
  <1>1. IInv /\ chain = <<>> /\ Queued = {} /\ result = NoElement
    BY InitIInv DEF MailInit, Init, Queued
  <1>2. MailTypeOK
    <2>1. <<>> \in Seq(Message) /\ NoValue.type # "LONG" /\ 0 \in 0 .. MaxRestarts
      BY BoundAssumption DEF NoValue
    <2> QED
      BY <1>1, <2>1 DEF MailInit, MailTypeOK, IInv
  <1>3. MessagePlaces /\ TaskPlaces
    <2>1. Distinct(<<>>) /\ Entries(<<>>) = {} /\ Distinct(Content)
      BY <1>1 DEF Distinct, Entries, Content
    <2> QED
      BY <2>1 DEF MailInit, MessagePlaces, TaskPlaces
  <1>4. Life /\ OneTask /\ Phases
    BY <1>1 DEF MailInit, Life, OneTask, Phases, Pending
  <1>5. \A o : Held(o) = {}
    BY DEF MailInit, Held, Of
  <1>6. MessagesHeld /\ TasksHeld
    BY <1>1, <1>5 DEF MailInit, MessagesHeld, MessageHeap, TasksHeld, TaskHeap, Taken
  <1>7. ActorHeld /\ AllOwned
    BY <1>5 DEF MailInit, ActorHeld, Alive, AllOwned
  <1> QED
    BY <1>1, <1>2, <1>3, <1>4, <1>6, <1>7 DEF Order, Accounts, MailInit

LEMMA StepAccounts ==
    ASSUME Order, Accounts, MailNext
    PROVE  Accounts'
  <1>1. ASSUME NEW vs \in ArgLists, Create(vs) \/ CreateFails(vs) PROVE Accounts'
    BY <1>1, CreateAccounts, RefusedAccounts
  <1>2. ASSUME NEW m \in Message, NEW v \in Values, Send(m, v) PROVE Accounts'
    BY <1>2, SendAccounts
  <1>3. CASE HandleResume
    BY <1>3, HandleResumeAccounts, QuietAccounts
  <1>4. CASE PerformActorRemovals \/ FinalRemovals
    BY <1>4, RemovalsAccounts, QuietAccounts
  <1> QED
    BY <1>1, <1>2, <1>3, <1>4, DeliverAccounts, DropAccounts, PopTaskAccounts, QuietAccounts,
       HandleTaskAccounts, WakeNeighbourAccounts, BlockAccounts, CrashAccounts, RenewAccounts,
       EndAccounts, EndWithSupervisorAccounts, DestroyTaskAccounts DEF MailNext

LEMMA StepOrder ==
    ASSUME Order, Accounts, MailNext
    PROVE  Order'
  BY StepMailTypes, StepLife, StepPhases, StepMessagePlaces, StepTaskPlaces, StepOneTask DEF Order

LEMMA BooksStutter ==
    ASSUME Order, Accounts, UNCHANGED mailVars
    PROVE  Order' /\ Accounts'
  <1>0. /\ UNCHANGED vars
        /\ UNCHANGED <<heap, misused, sent, got, stage, outbox, mailbox, args, registered,
                       doomed, state, restarts, worker, main, shutdown>>
    BY DEF mailVars, actorVars, messageVars, threadVars
  <1>1. UNCHANGED <<Content, Queued>>
    BY <1>0, QueueAsBefore
  <1>2. IInv'
    BY StepIInv, <1>0 DEF Order
  <1>3. MailTypeOK'
    BY <1>0, <1>2 DEF Order, MailTypeOK, IInv
  <1>4. MessagePlaces' /\ TaskPlaces'
    <2>1. MessagePlaces'
      BY <1>0 DEF Order, MessagePlaces
    <2>2. Distinct(Content)'
      BY <1>0, QueueAsBefore DEF Order, TaskPlaces
    <2>3. TaskPlaces'
      BY <1>0, <1>1, <2>2 DEF Order, TaskPlaces, vars
    <2> QED
      BY <2>1, <2>3
  <1>5. Life'
    BY <1>0 DEF Order, Life, Alive
  <1>6. OneTask' /\ Phases'
    BY <1>0, <1>1 DEF Order, OneTask, Pending, Phases, vars
  <1>7. Accounts'
    BY <1>0, SameHands, NothingMoves DEF Alive
  <1> QED
    BY <1>2, <1>3, <1>4, <1>5, <1>6, <1>7 DEF Order

LEMMA BooksKept == MailSpec => [](Order /\ Accounts)
  <1>1. Order /\ Accounts /\ [MailNext]_mailVars => (Order /\ Accounts)'
    BY StepOrder, StepAccounts, BooksStutter
  <1> QED
    BY <1>1, BooksAtFirst, PTL DEF MailSpec

-----------------------------------------------------------------------------
(* What the books say.                                                     *)
(* The variables keep their types, and the integers that receiveBlock()    *)
(* returns are those of the signed int in an entry (ph_entry.h:30).        *)
THEOREM MailTypes == MailSpec => []MailTypeOK
  <1>1. Order => MailTypeOK
    BY DEF Order
  <1> QED
    BY <1>1, BooksKept, PTL

(* Outbox, queue, hands and actor point to blocks that are in the books.   *)
LEMMA OwnedInHeap ==
    ASSUME Order, Accounts
    PROVE  Owned \subseteq heap
  <1>1. InOutbox \subseteq heap
    <2>1. \A i \in 1 .. Len(outbox) : outbox[i] \in Message /\ stage[outbox[i]] = "posted"
      <3>1. outbox \in Seq(Message)
        BY DEF Order, MailTypeOK
      <3>2. \A i \in 1 .. Len(outbox) : outbox[i] \in Message /\ outbox[i] \in Entries(outbox)
        BY <3>1 DEF Entries
      <3> QED
        BY <3>2 DEF Order, MessagePlaces
    <2>2. \A i \in 1 .. Len(outbox) : Undelivered(outbox[i]) \subseteq heap
      BY <2>1, InHeap DEF MessageHeap
    <2> QED
      BY <2>2 DEF InOutbox
  <1>2. InQueue \subseteq heap
    <2>1. \A e \in Queued : e \in Element /\ TaskBlocks(e) = TaskHeap(e)
      BY QueuedIsContent DEF Order, TaskHeap
    <2> QED
      BY <2>1, InHeap DEF InQueue
  <1>3. InHand \subseteq heap
    <2>1. CASE worker \in {"task", "run", "renew", "aborted"}
      <3>1. result \in Element /\ TaskHeap(result) = InHand
        BY <2>1 DEF Order, TaskPlaces, TaskHeap, Taken, InHand
      <3> QED
        BY <3>1, InHeap
    <2>2. CASE worker \notin {"task", "run", "renew", "aborted"}
      BY <2>2 DEF InHand
    <2> QED
      BY <2>1, <2>2
  <1>4. OfActor \subseteq heap
    <2>1. \A m \in InMailbox : m \in Message /\ stage[m] = "mailed"
      BY DEF Order, MailTypeOK, MessagePlaces, InMailbox, Entries
    <2>2. \A m \in InMailbox : Unread(m) \subseteq heap
      BY <2>1, InHeap DEF MessageHeap
    <2> QED
      BY <2>2, InHeap DEF OfActor, Alive
  <1> QED
    BY <1>1, <1>2, <1>3, <1>4 DEF Owned

(* Each block in the books is pointed to, or is one of the leaks.          *)
LEMMA HeapIsOwned ==
    ASSUME Order, Accounts
    PROVE  heap \subseteq Owned \cup KnownLeaks
  <1> SUFFICES ASSUME NEW b \in heap PROVE b \in Owned \cup KnownLeaks
    OBVIOUS
  <1>1. b[2] \in Owner /\ b \in Held(b[2])
    BY DEF Accounts, AllOwned, Held, Of
  <1>2. CASE b[2] \in Element
    <2>1. PICK e \in Element : e = b[2]
      BY <1>2
    <2>2. b \in TaskHeap(e) \cup Lost(e)
      BY <1>1, <2>1 DEF Accounts, TasksHeld
    <2>3. TaskHeap(e) \subseteq InQueue \cup InHand
      <3>1. CASE e \in Queued
        BY <3>1 DEF TaskHeap, InQueue
      <3>2. CASE e \notin Queued
        BY <3>2 DEF TaskHeap, Taken, InHand
      <3> QED
        BY <3>1, <3>2
    <2>4. Lost(e) \subseteq KnownLeaks
      <3>1. e = <<e[1], e[2]>> /\ e[2] \in 1 .. MaxTasks
        BY TaskAssumption
      <3>2. CASE e[1] = "NEW_ACTOR"
        <4>1. Strings(e) \in {Strings(<<"NEW_ACTOR", n>>) : n \in 1 .. MaxTasks}
          BY <3>1, <3>2
        <4> QED
          BY <3>2, <4>1 DEF Lost, KnownLeaks
      <3>3. CASE e[1] # "NEW_ACTOR"
        BY <3>3 DEF Lost
      <3> QED
        BY <3>2, <3>3
    <2> QED
      BY <2>2, <2>3, <2>4 DEF Owned
  <1>3. ASSUME NEW m \in Message, b[2] = Msg(m) PROVE b \in Owned \cup KnownLeaks
    <2>1. b \in MessageHeap(m)
      BY <1>1, <1>3 DEF Accounts, MessagesHeld
    <2>2. stage[m] \in {"none", "refused", "failed", "posted", "dropped", "mailed",
                        "received", "discarded"}
      BY DEF Order, MailTypeOK
    <2>3. CASE stage[m] \in {"none", "failed"}
      BY <2>1, <2>3 DEF MessageHeap
    <2>4. CASE stage[m] = "refused"
      BY <2>1, <2>4 DEF MessageHeap, KnownLeaks
    <2>5. CASE stage[m] = "posted"
      <3>1. PICK i \in 1 .. Len(outbox) : outbox[i] = m
        BY <2>5 DEF Order, MessagePlaces, Entries
      <3> QED
        BY <2>1, <2>5, <3>1 DEF MessageHeap, InOutbox, Owned
    <2>6. CASE stage[m] = "dropped"
      BY <2>1, <2>6 DEF MessageHeap, KnownLeaks
    <2>7. CASE stage[m] = "mailed"
      <3>1. m \in InMailbox /\ mailbox # <<>>
        BY <2>7 DEF Order, MessagePlaces, Entries, InMailbox
      <3>2. Alive
        BY <3>1 DEF Order, Life
      <3> QED
        BY <2>1, <2>7, <3>1, <3>2 DEF MessageHeap, OfActor, Alive, Owned
    <2>8. CASE stage[m] \in {"received", "discarded"}
      BY <2>1, <2>8 DEF MessageHeap, KnownLeaks
    <2> QED
      BY <2>2, <2>3, <2>4, <2>5, <2>6, <2>7, <2>8
  <1>4. CASE b[2] = Actor
    <2>1. Alive /\ b \in ActorBlocks
      BY <1>1, <1>4 DEF Accounts, ActorHeld
    <2> QED
      BY <2>1 DEF OfActor, Alive, Owned
  <1>5. ASSUME NEW i \in 1 .. Len(args), b[2] = Arg(i) PROVE b \in Owned \cup KnownLeaks
    <2>1. CASE Alive
      <3>1. b \in Buffer(args[i], Arg(i))
        BY <1>1, <1>5, <2>1 DEF Accounts, ActorHeld
      <3> QED
        BY <2>1, <3>1 DEF OfActor, Alive, Owned, ArgBuffers
    <2>2. CASE ~Alive
      <3>1. b \in Buffer(args[i], Arg(i)) /\ b \notin ValueFree(args[i], Arg(i))
        BY <1>1, <1>5, <2>2 DEF Accounts, ActorHeld
      <3>2. b \in ArgBuffers(args) \ ArgsFree(args)
        <4>1. b \in ArgBuffers(args)
          BY <3>1 DEF ArgBuffers
        <4>2. b \in ArgsFree(args) => b \in Of(ArgsFree(args), Arg(i))
          BY <1>5 DEF Of
        <4> QED
          BY <3>1, <4>1, <4>2, ArgBlocks
      <3>3. state \in {"refused", "freed"}
        BY <1>5, <2>2 DEF Alive, Order, Life
      <3> QED
        BY <3>2, <3>3 DEF KnownLeaks
    <2> QED
      BY <2>1, <2>2
  <1> QED
    BY <1>1, <1>2, <1>3, <1>4, <1>5 DEF Owner

(* No handler reads or frees a block that another path has freed, and all  *)
(* that a task, a message or the actor points to is allocated: an entry    *)
(* changes owner in send_message() (actor_system.c:45) and is freed by the *)
(* last one, be it the receiver or the end of the actor.                   *)
THEOREM NeverDangling == MailSpec => []NoDangling
  <1>1. Order /\ Accounts => NoDangling
    BY OwnedInHeap DEF NoDangling, Accounts
  <1> QED
    BY <1>1, BooksKept, PTL

(* No path but those of KnownLeaks forgets a block: the refused, failed    *)
(* and undone calls, crashes, restarts and the destruction of the queue    *)
(* included.                                                               *)
THEOREM OnlyKnownLeaks == MailSpec => []NoOtherLeak
  <1>1. Order /\ Accounts => NoOtherLeak
    BY HeapIsOwned DEF NoOtherLeak
  <1> QED
    BY <1>1, BooksKept, PTL

(* When scheduler_blocking() has joined its threads, the queues, the       *)
(* worker and the actor own nothing any more.                              *)
THEOREM EndsClean == MailSpec => []CleanEnd
  <1>1. ASSUME Order, Accounts, main = "ended" PROVE heap \subseteq KnownLeaks \cup InOutbox
    <2>1. InQueue = {} /\ InHand = {}
      BY <1>1 DEF Order, Phases, InQueue, Queued, InHand
    <2>2. OfActor = {}
      BY <1>1 DEF Order, Phases, Life, MailTypeOK, OfActor
    <2> QED
      BY <1>1, <2>1, <2>2, HeapIsOwned DEF Owned
  <1>2. Order /\ Accounts => CleanEnd
    BY <1>1 DEF CleanEnd
  <1> QED
    BY <1>2, BooksKept, PTL

-----------------------------------------------------------------------------
(* A message that was received carries what its entry held, since nothing  *)
(* writes to the entry on its way.                                         *)
Arrived == \A m \in Message : stage[m] = "received" => got[m] = Loaded(Stored(sent[m]))

LEMMA StepArrived ==
    ASSUME Order, Arrived, [MailNext]_mailVars
    PROVE  Arrived'
  <1>0. DOMAIN stage = Message /\ DOMAIN sent = Message /\ DOMAIN got = Message
    BY DEF Order, MailTypeOK
  <1>1. CASE UNCHANGED <<sent, got, stage>>
    BY <1>1 DEF Arrived
  <1>2. ASSUME NEW m \in Message, NEW s, s # "received", stage[m] # "received",
               stage' = [stage EXCEPT ![m] = s], got' = got,
               \A k \in Message \ {m} : sent'[k] = sent[k]
        PROVE  Arrived'
    <2> SUFFICES ASSUME NEW k \in Message, stage'[k] = "received"
                 PROVE  got'[k] = Loaded(Stored(sent'[k]))
      BY DEF Arrived
    <2> QED
      BY <1>0, <1>2 DEF Arrived
  <1>3. ASSUME NEW m \in Message, NEW v \in Values, Send(m, v) PROVE Arrived'
    <2>1. /\ stage[m] = "none" /\ got' = got
          /\ \A k \in Message \ {m} : sent'[k] = sent[k]
      BY <1>0, <1>3 DEF Send
    <2>2. \E s \in {"refused", "failed", "posted"} : stage' = [stage EXCEPT ![m] = s]
      BY <1>3 DEF Send
    <2> QED
      BY <1>2, <2>1, <2>2
  <1>4. CASE Deliver \/ Drop
    <2>1. PICK m \in Message : m = Head(outbox) /\ stage[m] = "posted"
      BY <1>4, HeadPosted DEF Deliver, Drop
    <2>2. /\ stage' = [stage EXCEPT ![m] = "mailed"] \/ stage' = [stage EXCEPT ![m] = "dropped"]
          /\ got' = got /\ sent' = sent
      BY <1>4, <2>1 DEF Deliver, Drop
    <2> QED
      BY <1>2, <2>1, <2>2
  <1>5. CASE (PerformActorRemovals \/ FinalRemovals) /\ doomed
    <2>1. /\ \A k \in Message : stage'[k] = "received" => stage[k] = "received"
          /\ got' = got /\ sent' = sent
      BY <1>5 DEF PerformActorRemovals, FinalRemovals, Removals
    <2> QED
      BY <2>1 DEF Arrived
  <1>6. CASE HandleResume /\ registered
    <2>1. PICK m \in Message : m = Head(mailbox)
      BY <1>6, ResumeHasMessage, TailEntries DEF Order, MailTypeOK
    <2>2. /\ got' = [got EXCEPT ![m] = Loaded(Stored(sent[m]))]
          /\ stage' = [stage EXCEPT ![m] = "received"] /\ sent' = sent
      BY <1>6, <2>1 DEF HandleResume
    <2> QED
      BY <1>0, <2>2 DEF Arrived
  <1>7. ASSUME NEW vs, Create(vs) \/ CreateFails(vs) PROVE UNCHANGED <<sent, got, stage>>
    BY <1>7 DEF Create, CreateFails, messageVars
  <1>8. CASE (PerformActorRemovals \/ FinalRemovals) /\ ~doomed
    BY <1>1, <1>8 DEF PerformActorRemovals, FinalRemovals, Removals, messageVars
  <1>9. CASE HandleResume /\ ~registered
    BY <1>1, <1>9 DEF HandleResume, messageVars
  <1>10. CASE PopTask \/ CheckShutdown \/ HandleNew \/ HandleFree \/ WakeNeighbour \/ ResumeNeighbour
              \/ Block \/ Crash \/ Renew \/ End
    BY <1>1, <1>10 DEF PopTask, CheckShutdown, HandleNew, HandleFree, WakeNeighbour, ResumeNeighbour,
                       Block, Crash, Renew, End, messageVars
  <1>11. CASE EndWithSupervisor \/ Shutdown \/ MainLeaves \/ DestroyTables \/ DestroyQueue
              \/ DestroyTask \/ Join \/ UNCHANGED mailVars
    BY <1>1, <1>11 DEF EndWithSupervisor, Shutdown, MainLeaves, DestroyTables, DestroyQueue,
                       DestroyTask, Join, messageVars, mailVars
  <1> QED
    BY <1>1, <1>3, <1>4, <1>5, <1>6, <1>7, <1>8, <1>9, <1>10, <1>11 DEF MailNext

(* A value that fits an entry arrives as it was sent, whatever becomes of  *)
(* the actor between send() and receiveBlock().                            *)
THEOREM ValuesKept == MailSpec => []ValueKept
  <1>1. MailInit => Arrived
    BY DEF MailInit, Arrived
  <1>2. Order /\ Arrived => ValueKept
    BY ReceivedValue DEF Order, MailTypeOK, Arrived, ValueKept
  <1>3. Order /\ Arrived /\ [MailNext]_mailVars => Arrived'
    BY StepArrived
  <1> QED
    BY <1>1, <1>2, <1>3, BooksKept, PTL DEF MailSpec
=============================================================================
