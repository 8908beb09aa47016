------------------------------ MODULE Registry ------------------------------
(***************************************************************************)
(* The tables every thread of phactor shares: the actors by reference and  *)
(* by name, and the supervision trees threaded through the actors.  Every  *)
(* operation here is the body of one critical section of the mutex         *)
(* actors_by_ref.lock, so an operation is one atomic step.                 *)
(*                                                                         *)
(* A member of Actor stands for one ph_actor_t, that is one call of        *)
(* ph_actor_ref_create: references come from a counter and are never       *)
(* reused, so an actor whose creation was refused, or that was removed,    *)
(* never comes back.                                                       *)
(***************************************************************************)
EXTENDS Integers

CONSTANTS
    Actor,      \* the actors the program may ever try to create
    Name,       \* the names it gives some of them
    NameOf,     \* the name each actor is created with, NoName if it has none
    NoActor,    \* a NULL ph_actor_t pointer
    NoName

ASSUME ActorAssumption == NoActor \notin Actor
ASSUME NameAssumption ==
    /\ NoName \notin Name
    /\ NameOf \in [Actor -> Name \cup {NoName}]

VARIABLES
    created,            \* actors whose reference has been drawn
    by_ref,             \* actors_by_ref: the registered actors
    by_name,            \* actors_by_name
    lock,               \* actors_by_ref.lock: "free", or why it never is again
    supervisor,         \* actor->supervisor
    supervision,        \* actors with a supervision structure (new Supervisor)
    workers,            \* actor->supervision->workers
    tree_number,        \* actor->tree_number, -1 before it is supervised
    sup_tree,           \* actor->supervision->tree_number
    global_tree_number

treeVars == <<supervisor, supervision, workers, tree_number, sup_tree,
              global_tree_number>>
registryVars == <<created, by_ref, by_name, lock, treeVars>>

LockState == {"free", "leaked", "walking"}

RegistryInit ==
    /\ created = {}
    /\ by_ref = {}
    /\ by_name = [n \in Name |-> NoActor]
    /\ lock = "free"
    /\ supervisor = [a \in Actor |-> NoActor]
    /\ supervision = {}
    /\ workers = [a \in Actor |-> {}]
    /\ tree_number = [a \in Actor |-> -1]
    /\ sup_tree = [a \in Actor |-> -1]
    /\ global_tree_number = 0

-----------------------------------------------------------------------------
(* What a breadth first walk from a visits: the least set that holds a's   *)
(* workers and the workers of each of its members.                         *)
Closed(S) == \A x \in S : workers[x] \subseteq S
Below(a) == {d \in Actor : \A S \in SUBSET Actor :
                               workers[a] \subseteq S /\ Closed(S) => d \in S}

Subtree(a) == {a} \cup Below(a)

(* The walk looks at the descendants of w only, never at w itself.         *)
CycleDetected(s, w) ==
    /\ w \in supervision
    /\ \E d \in Below(w) : tree_number[d] = sup_tree[s]

NameTaken(a) == NameOf[a] # NoName /\ by_name[NameOf[a]] # NoActor

(* The actors whose tree number ph_supervisor_add_worker overwrites.       *)
RenumberWorkerOnly(w) == {w}
Renumbered(w) == Subtree(w)

(* ph_supervisor_add_worker: link, and renumber the tree below the worker. *)
Attach(s, w) ==
    LET n == sup_tree[s] IN
    /\ workers' = [workers EXCEPT ![s] = @ \cup {w}]
    /\ supervisor' = [supervisor EXCEPT ![w] = s]
    /\ tree_number' = [a \in Actor |-> IF a \in Renumbered(w) THEN n ELSE tree_number[a]]
    /\ sup_tree' = [a \in Actor |-> IF a \in Renumbered(w) \cap supervision THEN n
                                    ELSE sup_tree[a]]
    /\ UNCHANGED <<supervision, global_tree_number>>

(* The renumbering walk runs under the lock; on a ring it never ends.      *)
WalkEnds(s, w) == s \notin Subtree(w)

Refused(a, s) == NameTaken(a) \/ (s # NoActor /\ s \notin by_ref)

(* The locked section of ph_actor_ref_create; s is NoActor unless the call *)
(* came from Supervisor::newWorker.                                        *)
Insert(a, s) ==
    /\ lock = "free"
    /\ a \notin created
    /\ s # NoActor => s \in supervision
    /\ created' = created \cup {a}
    /\ IF Refused(a, s)
       THEN UNCHANGED <<by_ref, by_name, treeVars>>
       ELSE /\ by_ref' = by_ref \cup {a}
            /\ by_name' = [n \in Name |-> IF n = NameOf[a] THEN a ELSE by_name[n]]
            /\ IF s = NoActor THEN UNCHANGED treeVars ELSE Attach(s, a)
    /\ UNCHANGED lock

(* global_tree_number++: each new supervisor draws the next number.        *)
PreIncremented == global_tree_number + 1
NeverIncremented == 0
DrawnTreeNumber == global_tree_number

(* new Supervisor(a), when a is registered and does not supervise yet.     *)
SupervisorConstruct(a) ==
    /\ lock = "free"
    /\ a \in by_ref \ supervision
    /\ supervision' = supervision \cup {a}
    /\ sup_tree' = [sup_tree EXCEPT ![a] = DrawnTreeNumber]
    /\ global_tree_number' = global_tree_number + 1
    /\ UNCHANGED <<created, by_ref, by_name, lock, supervisor, workers, tree_number>>

AddUnlessCycle(s, w) == w \in by_ref /\ ~CycleDetected(s, w)
CanAdd(s, w) == w \in by_ref /\ tree_number[w] = -1 /\ ~CycleDetected(s, w)

(* $supervisor->addWorker($worker): the early return for a dead supervisor *)
(* does not unlock; the three refusals throw and unlock.                   *)
AddWorker(s, w) ==
    /\ lock = "free"
    /\ s \in supervision
    /\ w \in created
    /\ \/ /\ s \notin by_ref
          /\ lock' = "leaked"
          /\ UNCHANGED treeVars
       \/ /\ s \in by_ref
          /\ CanAdd(s, w)
          /\ Attach(s, w)
          /\ lock' = IF WalkEnds(s, w) THEN "free" ELSE "walking"
       \/ /\ s \in by_ref
          /\ ~CanAdd(s, w)
          /\ UNCHANGED <<lock, treeVars>>
    /\ UNCHANGED <<created, by_ref, by_name>>

(* The actors that ph_actor_remove_from_table(a) takes out: the table's    *)
(* destructor is ph_actor_mark_for_removal, which removes the workers too. *)
GoneAlone(a) == {a} \cap by_ref
Gone(a) == IF a \in by_ref THEN Subtree(a) ELSE {}

(* Each removal deletes the actor's name, whoever holds that name by now.  *)
ForgottenAlone(a) == {NameOf[a]}
Forgotten(a) == {NameOf[x] : x \in Gone(a) \cup {a}}

(* ph_actor_remove_from_table.  It is also called for an actor that is no  *)
(* longer registered: one whose supervisor died while it was running.      *)
Remove(a) ==
    LET gone == Gone(a) IN
    /\ lock = "free"
    /\ a \in created
    /\ by_ref' = by_ref \ gone
    /\ by_name' = [n \in Name |-> IF n \in Forgotten(a) THEN NoActor ELSE by_name[n]]
    /\ supervisor' = [x \in Actor |-> IF x \in gone THEN NoActor ELSE supervisor[x]]
    /\ workers' = [x \in Actor |-> IF x \in gone THEN {} ELSE workers[x] \ gone]
    /\ UNCHANGED <<created, lock, supervision, tree_number, sup_tree, global_tree_number>>

(* The end of scheduler_blocking: both tables are destroyed.               *)
DestroyTables ==
    /\ by_ref' = {}
    /\ by_name' = [n \in Name |-> NoActor]
    /\ supervisor' = [x \in Actor |-> IF x \in by_ref THEN NoActor ELSE supervisor[x]]
    /\ workers' = [x \in Actor |-> IF x \in by_ref THEN {} ELSE workers[x] \ by_ref]
    /\ UNCHANGED <<created, lock, supervision, tree_number, sup_tree, global_tree_number>>

RegistryNext ==
    \/ \E a \in Actor, s \in Actor \cup {NoActor} : Insert(a, s)
    \/ \E a \in Actor : SupervisorConstruct(a)
    \/ \E s, w \in Actor : AddWorker(s, w)
    \/ \E a \in Actor : Remove(a)
    \/ DestroyTables

RegistrySpec == RegistryInit /\ [][RegistryNext]_registryVars

-----------------------------------------------------------------------------
(* Shapes of the variables; a tree number is one that has been drawn.      *)
TreeNumber == -1 .. (global_tree_number - 1)
RegistryTypeOK ==
    /\ created \subseteq Actor
    /\ by_ref \subseteq created
    /\ by_name \in [Name -> Actor \cup {NoActor}]
    /\ lock \in LockState
    /\ supervisor \in [Actor -> Actor \cup {NoActor}]
    /\ supervision \subseteq created
    /\ workers \in [Actor -> SUBSET Actor]
    /\ global_tree_number \in Nat
    /\ tree_number \in [Actor -> TreeNumber]
    /\ sup_tree \in [Actor -> TreeNumber]

(* The up pointers and the worker tables describe the same forest, and it  *)
(* holds registered actors only: a crash never follows actor->supervisor   *)
(* to an actor that was removed, and a removal never leaves an orphan.     *)
LinksAgree ==
    \A s, w \in Actor :
        /\ w \in workers[s] <=> supervisor[w] = s
        /\ w \in workers[s] => {s, w} \subseteq by_ref /\ s \in supervision

(* A name never leads to an actor that is gone, nor to one created under   *)
(* another name: what send() and addWorker() find by name is alive.        *)
NamesPointHome ==
    \A n \in Name : by_name[n] # NoActor =>
        by_name[n] \in by_ref /\ NameOf[by_name[n]] = n

(* A worker carries the number of its supervisor's tree: it is what the    *)
(* cycle check compares, and what "already being supervised" relies on.    *)
TreeNumbers ==
    \A s, w \in Actor : w \in workers[s] =>
        tree_number[w] = sup_tree[s] /\ tree_number[w] # -1

(* addWorker() throws "A cycle has been detected" only if there is one:    *)
(* stale numbers, left by a renumbering or by a tree that came apart,      *)
(* never make two trees that have nothing in common look like one.         *)
NoFalseAlarm ==
    lock = "free" =>
        \A s \in by_ref \cap supervision, w \in by_ref :
            tree_number[w] = -1 /\ CycleDetected(s, w) => s \in Subtree(w)

(* A supervised actor keeps its supervisor for as long as it is            *)
(* registered: no second addWorker() steals it.                            *)
SupervisorKept ==
    [][\A w \in Actor :
         supervisor[w] # NoActor =>
             supervisor'[w] = supervisor[w] \/ w \notin by_ref']_registryVars

(* No actor is, directly or not, its own supervisor: what the exception    *)
(* "A cycle has been detected in the supervision tree" is there to ensure. *)
NoCycle == \A a \in Actor : a \notin Below(a)

(* addWorker() on a supervisor that has died aborts silently, and the      *)
(* actor system goes on.                                                   *)
LockGivenBack == lock # "leaked"
=============================================================================
