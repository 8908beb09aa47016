------------------------------ MODULE VmStack ------------------------------
(***************************************************************************)
(* The VM stacks of PHP under the threads of ActorSystem.  PHP keeps its   *)
(* call frames in a chain of pages, which the engine of a thread reaches   *)
(* through EG(vm_stack).  phactor gives every actor object a page of its   *)
(* own and swaps the engine between that chain and the thread's.  (The top *)
(* and the end of the page in use move with it, so a page stands for all   *)
(* three fields of a ph_vmcontext_t.)                                      *)
(*                                                                         *)
(* Every action is one of ActorSystem, with what it does to the pages.     *)
(***************************************************************************)
EXTENDS ActorSystem

CONSTANTS
    NoPage,         \* a NULL zend_vm_stack
    Nests,          \* actors whose receive() may need another page
    MaxPages        \* bound on the pages an object takes besides its first

ASSUME PageAssumption == NoPage \notin (Worker \cup Actor) \X Nat \X Nat
ASSUME MaxPagesAssumption == Nests \subseteq Actor /\ MaxPages \in Nat

VARIABLES
    pages,      \* the allocated pages, with page->prev of each
    engine,     \* EG(vm_stack) of each worker
    saved,      \* actor->internal->context.vmc.vm_stack
    to_clear,   \* the pages in the FREE_VM_STACK tasks of each worker, in order
    object,     \* not in the program: the objects made for an actor so far,
    drawn,      \* the pages the last of them has taken besides its first,
    overtaken   \* and the objects that a restart found running or not yet made

vmVars == <<pages, engine, saved, to_clear, object, drawn, overtaken>>

(* Pages are named apart by what they were allocated for, so that the use  *)
(* of one that was freed shows: the one a thread starts with, and the n-th *)
(* page of the k-th object of an actor.                                    *)
Own(t) == <<t, 0, 0>>
PageOf(a, n) == <<a, object[a], n>>
ObjectOf(p) == <<p[1], p[2]>>

VmInit ==
    /\ Init
    /\ pages = [p \in {Own(t) : t \in Worker} |-> NoPage]
    /\ engine = [t \in Worker |-> Own(t)]
    /\ saved = [a \in Actor |-> NoPage]
    /\ to_clear = [t \in Worker |-> <<>>]
    /\ object = [a \in Actor |-> 0]
    /\ drawn = [a \in Actor |-> 0]
    /\ overtaken = {}

Live == DOMAIN pages

(* A page and those below it, as far as they are still allocated; the last *)
(* of them, where ph_vmcontext_reset stops; and the rest.                  *)
PagesFrom(p) ==
    LET below[q \in Live] == {q} \cup IF pages[q] \in Live THEN below[pages[q]] ELSE {}
    IN  IF p \in Live THEN below[p] ELSE {}
Bottom(p) == IF p \in Live THEN CHOOSE q \in PagesFrom(p) : pages[q] \notin Live ELSE p
Above(p) == PagesFrom(p) \ {Bottom(p)}

Allocate(p, prev) ==
    pages' = [q \in Live \cup {p} |-> IF q = p THEN prev ELSE pages[q]]
Release(S) == pages' = [p \in Live \ S |-> pages[p]]
SetEngine(t, p) == engine' = [engine EXCEPT ![t] = p]

-----------------------------------------------------------------------------
(* phactor_actor_ctor: the new object gets a page, and the engine moves    *)
(* there at once; only a registered actor then takes the object.           *)
NewObject(t) ==
    LET a == Head(tasks[t]).actor
        p == <<a, object[a] + 1, 0>>
    IN
    /\ HandleNew(t)
    /\ object' = [object EXCEPT ![a] = @ + 1]
    /\ drawn' = [drawn EXCEPT ![a] = 0]
    /\ Allocate(p, NoPage)
    /\ SetEngine(t, p)
    /\ saved' = IF a \in by_ref THEN [saved EXCEPT ![a] = p] ELSE saved
    /\ UNCHANGED <<to_clear, overtaken>>

(* process_message and resume_actor: ph_vmcontext_set to the actor's.      *)
EnterReceive(t) ==
    /\ StartReceive(t)
    /\ SetEngine(t, saved[current[t]])
    /\ UNCHANGED <<pages, saved, to_clear, object, drawn, overtaken>>

Reenter(t) ==
    /\ HandleResume(t)
    /\ IF fault' = "none" THEN SetEngine(t, saved[Head(tasks[t]).actor])
       ELSE UNCHANGED engine
    /\ UNCHANGED <<pages, saved, to_clear, object, drawn, overtaken>>

(* receive() calls deep enough for PHP to add a page, and returns far      *)
(* enough for PHP to free it.  (The pages a constructor takes are gone     *)
(* again before anything but the engine has seen them.)                    *)
Grow(t) ==
    LET a == current[t] IN
    /\ At(t, "receive")
    /\ a \in Nests
    /\ drawn[a] < MaxPages
    /\ drawn' = [drawn EXCEPT ![a] = @ + 1]
    /\ Allocate(PageOf(a, drawn[a] + 1), engine[t])
    /\ SetEngine(t, PageOf(a, drawn[a] + 1))
    /\ UNCHANGED <<vars, saved, to_clear, object, overtaken>>

Shrink(t) ==
    /\ At(t, "receive")
    /\ engine[t] # Bottom(engine[t])
    /\ SetEngine(t, pages[engine[t]])
    /\ Release({engine[t]})
    /\ UNCHANGED <<vars, saved, to_clear, object, drawn, overtaken>>

(* receive_block: ph_vmcontext_swap, which keeps the engine's page in the  *)
(* actor's context and takes the thread's.                                 *)
StayOnPage(t) == engine[t]
ThreadPage(t) == Own(t)
Block(t) ==
    /\ Swap(t)
    /\ saved' = [saved EXCEPT ![current[t]] = engine[t]]
    /\ SetEngine(t, ThreadPage(t))
    /\ UNCHANGED <<pages, to_clear, object, drawn, overtaken>>

(* receive() is left, by a return or an exception, with all its frames,    *)
(* and process_message_handler swaps in the same way; an exception in the  *)
(* constructor leaves the engine on the actor's page.                      *)
LeftOn(t) == Bottom(engine[t])
LeaveReceive(t) ==
    /\ pc[t] = "receive"
    /\ Return(t) \/ Throw(t)
    /\ Release(Above(engine[t]))
    /\ saved' = [saved EXCEPT ![current[t]] = LeftOn(t)]
    /\ SetEngine(t, ThreadPage(t))
    /\ UNCHANGED <<to_clear, object, drawn, overtaken>>

LeaveCtor(t) ==
    /\ pc[t] = "ctor"
    /\ Throw(t)
    /\ UNCHANGED vmVars

-----------------------------------------------------------------------------
(* ph_supervisor_one_for_one: the page the context was saved with goes to  *)
(* the actor's thread, and the context starts over at the chain's last.    *)
WithoutCheck(w) == TRUE
HasInternal(w) == context[w] # "none"
ResetFirst(w) == Bottom(saved[w])
PageToClear(w) == saved[w]

(* Objects that no FREE_VM_STACK task of this restart will clean up after. *)
RunningPhp == {"ctor", "workers", "start", "receive", "swap", "resume"}
IsExecuted(w) ==
    \E u \in Worker : current[u] = w /\ pc[u] \in RunningPhp \cup {"walking"}
StartsQueued(w) ==
    LET queue == tasks[thread_offset[w]]
    IN  Cardinality({i \in DOMAIN queue : queue[i] = NewTask(w)})
Overtaken(w) ==
    {<<w, object[w] + i>> : i \in 1 .. StartsQueued(w)}
    \cup IF IsExecuted(w) THEN {ObjectOf(saved[w])} ELSE {}

ResetPages(w) ==
    /\ IF HasInternal(w)
       THEN /\ to_clear' = [to_clear EXCEPT ![RestartThread(w)] = Append(@, PageToClear(w))]
            /\ saved' = [saved EXCEPT ![w] = Bottom(@)]
       ELSE UNCHANGED <<to_clear, saved>>
    /\ overtaken' = overtaken \cup Overtaken(w)
    /\ UNCHANGED <<pages, engine, object, drawn>>

ResetCrashed(t) == CrashRestart(t) /\ ResetPages(current[t])
ResetWorker(t) ==
    \E w \in todo[t] :
        /\ RestartWorker(t)
        /\ todo'[t] = todo[t] \ {w}
        /\ ResetPages(w)

(* ph_vmcontext_clear: all pages of the chain, except for the last one.    *)
ClearAll(p) == PagesFrom(p)
Cleared(p) == Above(p)
ClearPages(t) ==
    /\ HandleFree(t)
    /\ Release(Cleared(Head(to_clear[t])))
    /\ to_clear' = [to_clear EXCEPT ![t] = Tail(@)]
    /\ UNCHANGED <<engine, saved, object, drawn, overtaken>>

(* ph_actor_internal_free destroys the chain of every object it frees, and *)
(* gives the engine back the page it had.                                  *)
DestroyPages(t) ==
    /\ PerformActorRemovals(t) \/ FinalRemovals(t)
    /\ Release(UNION {PagesFrom(saved[a]) : a \in actor_removals[t]})
    /\ UNCHANGED <<engine, saved, to_clear, object, drawn, overtaken>>

(* The steps that leave the VM stacks alone.                               *)
Elsewhere(t) ==
    /\ \/ Create(t) \/ Schedule(t) \/ WriteRef(t)
       \/ Promote(t) \/ Add(t) \/ Send(t) \/ Shutdown(t)
       \/ BlockInCtor(t) \/ ReceiveBlock(t) \/ CtorReturn(t)
       \/ CrashRemove(t) \/ CrashEscalate(t) \/ WorkersRestarted(t)
       \/ HandleSend(t) \/ Resume(t) \/ FindNothing(t) \/ CheckShutdown(t)
       \/ TouchFreed(t)
    /\ UNCHANGED vmVars

VmWorkerStep(t) ==
    \/ NewObject(t) \/ EnterReceive(t) \/ Reenter(t) \/ Grow(t) \/ Shrink(t)
    \/ Block(t) \/ LeaveReceive(t) \/ LeaveCtor(t) \/ ResetCrashed(t) \/ ResetWorker(t)
    \/ ClearPages(t) \/ DestroyPages(t) \/ Elsewhere(t)

(* The main thread runs no actor.                                          *)
VmMainStep ==
    /\ ThreadStep(Main) \/ MainStep \/ ScriptFails
    /\ UNCHANGED vmVars

VmNext == (\E t \in Worker : VmWorkerStep(t)) \/ VmMainStep

VmSpec == VmInit /\ [][VmNext]_<<vars, vmVars>>
FairVmSpec == VmSpec /\ Fairness

-----------------------------------------------------------------------------
(* Shapes; a NULL page is never queued, nor run on.                        *)
Page == (Worker \X {0} \X {0}) \cup (Actor \X Nat \X (0 .. MaxPages))
VmTypeOK ==
    /\ Live \subseteq Page
    /\ \A p \in Live : pages[p] \in Page \cup {NoPage}
    /\ engine \in [Worker -> Page]
    /\ saved \in [Actor -> Page \cup {NoPage}]
    /\ to_clear \in [Worker -> Seq(Page)]
    /\ object \in [Actor -> Nat]
    /\ drawn \in [Actor -> 0 .. MaxPages]
    /\ overtaken \subseteq Actor \X Nat

(* An actor's code runs on allocated pages, on the chain of its present    *)
(* object; a thread that runs none is not left on the pages of an actor    *)
(* that waits in receiveBlock(), where a destructor would overwrite them.  *)
OnOwnPages ==
    \A t \in Worker : fault = "none" =>
        IF pc[t] \in RunningPhp
        THEN \/ current[t] \in raced
             \/ engine[t] \in Live /\ Bottom(engine[t]) = PageOf(current[t], 0)
        ELSE \A a \in Actor \ raced :
                 context[a] = "saved" => engine[t] \notin PagesFrom(saved[a])

(* The pages an actor waits on, is to be started on or is destroyed with   *)
(* are allocated and its own, whatever was cleared or freed meanwhile.     *)
SavedPagesLive ==
    \A a \in Actor \ raced :
        context[a] \in {"blank", "saved"} /\ heap[a] = "live" =>
            \/ ObjectOf(saved[a]) \in overtaken
            \/ saved[a] \in Live /\ Bottom(saved[a])[1] = a

(* The restart of an actor that waits, has crashed or has never run does   *)
(* not send its thread to walk a chain that is freed by the time it gets   *)
(* there, or that never was.                                               *)
ClearsLivePages ==
    \A t \in Worker : \A i \in DOMAIN to_clear[t] :
        LET p == to_clear[t][i] IN
        /\ p # NoPage
        /\ p \in Live \/ ObjectOf(p) \in overtaken \/ p[1] \in Freed \cup raced

(* However deep in its calls an object was when its actor was restarted or *)
(* removed, all its pages but the first are freed or about to be.          *)
ToBeCleared(t) == UNION {PagesFrom(to_clear[t][i]) : i \in DOMAIN to_clear[t]}
Reached ==
    UNION ({PagesFrom(engine[t]) \cup ToBeCleared(t) : t \in Worker}
           \cup {PagesFrom(saved[a]) : a \in Actor})
DeepPagesFreed ==
    fault = "none" => \A p \in Live \ Reached :
        p[3] = 0 \/ ObjectOf(p) \in overtaken \/ p[1] \in raced
=============================================================================
