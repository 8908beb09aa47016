--------------------------- MODULE VmStackProofs ---------------------------
(***************************************************************************)
(* What VmStack adds to a step of ActorSystem are the pages: nothing it    *)
(* does to them lets a thread take a step that ActorSystem does not have.  *)
(* So all that is proved of the threads holds; the rest of this module is  *)
(* about the pages.  In order: chains in a table of pages; what each step  *)
(* does to the pages (the effects Enters, Grows, ...); the pages are of    *)
(* the actors they are used for (Housed), and the queues of tasks and of   *)
(* pages to clear go together (ClearsQueued); and the invariant Kept of    *)
(* one actor and its thread, for each effect once for the actor it is      *)
(* about (...Kept) and once for all others (...Else).                      *)
(***************************************************************************)
EXTENDS VmStack, MailboxesProofs, FiniteSetTheorems

(* A step with pages is a step of the threads, or one of PHP between two   *)
(* calls, which the threads do not see.                                    *)
LEMMA WorkerStepIsStep ==
    ASSUME NEW t \in Worker, VmWorkerStep(t)
    PROVE  [Next]_vars
<1>1. t \in Thread
    BY DEF Thread
<1>2. ThreadStep(t) => Next
    BY <1>1 DEF Next
<1>3. WorkerEnds(t) => Next
    BY DEF Next
<1>4. CASE NewObject(t) \/ EnterReceive(t) \/ Reenter(t)
    BY <1>2, <1>4 DEF NewObject, EnterReceive, Reenter, ThreadStep, Loop
<1>5. CASE Grow(t) \/ Shrink(t)
    BY <1>5 DEF Grow, Shrink
<1>6. CASE Block(t) \/ LeaveReceive(t) \/ LeaveCtor(t)
    BY <1>2, <1>6 DEF Block, LeaveReceive, LeaveCtor, ThreadStep, Php
<1>7. CASE ResetCrashed(t) \/ ResetWorker(t)
    BY <1>2, <1>7 DEF ResetCrashed, ResetWorker, ThreadStep, CrashHandling
<1>8. CASE ClearPages(t) \/ DestroyPages(t)
    BY <1>2, <1>3, <1>8 DEF ClearPages, DestroyPages, ThreadStep, Loop, WorkerEnds
<1>9. CASE Elsewhere(t)
    BY <1>2, <1>9 DEF Elsewhere, ThreadStep, Php, CrashHandling, Loop
<1> QED
    BY <1>4, <1>5, <1>6, <1>7, <1>8, <1>9 DEF VmWorkerStep

LEMMA VmStepIsStep ==
    ASSUME [VmNext]_<<vars, vmVars>>
    PROVE  [Next]_vars
<1>1. CASE \E t \in Worker : VmWorkerStep(t)
    BY <1>1, WorkerStepIsStep
<1>2. CASE VmMainStep
  <2>1. Main \in Thread
      BY DEF Thread
  <2> QED
      BY <1>2, <2>1 DEF VmMainStep, Next
<1>3. CASE UNCHANGED <<vars, vmVars>>
    BY <1>3
<1> QED
    BY <1>1, <1>2, <1>3 DEF VmNext

(* Seen without its pages, VmStack is ActorSystem: the switching of VM     *)
(* stacks, and the tasks that clear them, restrict no thread.              *)
THEOREM ImplementsActorSystem == VmSpec => Spec
<1>1. VmInit => Init
    BY DEF VmInit
<1>2. [VmNext]_<<vars, vmVars>> => [Next]_vars
    BY VmStepIsStep
<1> QED
    BY <1>1, <1>2, PTL DEF VmSpec, Spec

(* What is proved of the threads therefore holds with their VM stacks: no  *)
(* wake-up or message is lost, actors stay on their threads, and none is   *)
(* freed under its own code, twice or never.                               *)
COROLLARY ThreadsKeepInvariants ==
    VmSpec => [](TypeOK /\ NoLostWakeup /\ OwnedOnce /\ Pinned /\ RunningNotFreed
                 /\ NothingLeaks /\ MailInOrder)
  BY ImplementsActorSystem, TypeCorrect, WakeupNeverLost, AlwaysOwnedOnce, AlwaysPinned,
     NeverFreedRunning, NeverLeaks, MailAlwaysInOrder, PTL

COROLLARY StacksKeepMail == VmSpec => MailboxesSpec
  BY ImplementsActorSystem, ImplementsMailboxes, PTL
-----------------------------------------------------------------------------
(* The chains.  A page table pg gives the page before each allocated page; *)
(* it is grounded if every set of pages has one whose page before is not   *)
(* in the set, so that a walk comes to an end.                             *)
Chain(pg, p) ==
    LET below[q \in DOMAIN pg] == {q} \cup IF pg[q] \in DOMAIN pg THEN below[pg[q]] ELSE {}
    IN  IF p \in DOMAIN pg THEN below[p] ELSE {}
End(pg, p) == IF p \in DOMAIN pg THEN CHOOSE q \in Chain(pg, p) : pg[q] \notin DOMAIN pg ELSE p
Grounded(pg) == \A S \in SUBSET DOMAIN pg : S # {} => \E q \in S : pg[q] \notin S

LEMMA PagesAreChains ==
    ASSUME NEW p
    PROVE  PagesFrom(p) = Chain(pages, p) /\ Bottom(p) = End(pages, p)
  BY DEF PagesFrom, Chain, Bottom, End, Live

(* The recursive definition of a chain has a solution whatever the table   *)
(* is, the least set that the walk cannot leave, so it may be unfolded.    *)
LeastChain(pg, p) ==
    {q \in DOMAIN pg : \A S \in SUBSET DOMAIN pg :
        p \in S /\ (\A r \in S : pg[r] \in DOMAIN pg => pg[r] \in S) => q \in S}

LEMMA LeastUnfolds ==
    ASSUME NEW pg, NEW p \in DOMAIN pg
    PROVE  LeastChain(pg, p) =
             {p} \cup IF pg[p] \in DOMAIN pg THEN LeastChain(pg, pg[p]) ELSE {}
<1>1. p \in LeastChain(pg, p)
  BY DEF LeastChain
<1>2. pg[p] \in DOMAIN pg => LeastChain(pg, pg[p]) \subseteq LeastChain(pg, p)
  <2> SUFFICES ASSUME pg[p] \in DOMAIN pg, NEW q \in LeastChain(pg, pg[p]),
                      NEW S \in SUBSET DOMAIN pg, p \in S,
                      \A r \in S : pg[r] \in DOMAIN pg => pg[r] \in S
               PROVE  q \in S
    BY DEF LeastChain
  <2>1. pg[p] \in S
    OBVIOUS
  <2> QED
    BY <2>1 DEF LeastChain
<1>3. ASSUME NEW q \in LeastChain(pg, p), q # p
      PROVE  pg[p] \in DOMAIN pg /\ q \in LeastChain(pg, pg[p])
  <2>1. pg[p] \in DOMAIN pg
    <3>1. ASSUME pg[p] \notin DOMAIN pg PROVE FALSE
      <4>1. q \in {p}
        BY <1>3, <3>1 DEF LeastChain
      <4> QED
        BY <1>3, <4>1
    <3> QED
      BY <3>1
  <2> SUFFICES ASSUME NEW S \in SUBSET DOMAIN pg, pg[p] \in S,
                      \A r \in S : pg[r] \in DOMAIN pg => pg[r] \in S
               PROVE  q \in S
    BY <2>1, <1>3 DEF LeastChain
  <2>2. /\ S \cup {p} \in SUBSET DOMAIN pg
        /\ \A r \in S \cup {p} : pg[r] \in DOMAIN pg => pg[r] \in S \cup {p}
    OBVIOUS
  <2>3. q \in S \cup {p}
    BY <1>3, <2>2 DEF LeastChain
  <2> QED
    BY <1>3, <2>3
<1> QED
  BY <1>1, <1>2, <1>3 DEF LeastChain

LEMMA ChainUnfolds ==
    ASSUME NEW pg
    PROVE  \A p \in DOMAIN pg :
             Chain(pg, p) = {p} \cup IF pg[p] \in DOMAIN pg THEN Chain(pg, pg[p]) ELSE {}
<1> DEFINE D == DOMAIN pg
           IsBelow(f) == f = [q \in D |-> {q} \cup IF pg[q] \in D THEN f[pg[q]] ELSE {}]
           below == CHOOSE f : IsBelow(f)
<1>1. \A q \in D : Chain(pg, q) = below[q]
  BY DEF Chain
<1>2. IsBelow([q \in D |-> LeastChain(pg, q)])
  BY LeastUnfolds
<1>3. IsBelow(below)
  BY <1>2
<1> HIDE DEF below
<1> QED
  BY <1>1, <1>3

(* What holds of a page if it holds of the page before it, holds of all.   *)
LEMMA GroundedInduction ==
    ASSUME NEW pg, Grounded(pg), NEW S \in SUBSET DOMAIN pg,
           \A p \in DOMAIN pg : (pg[p] \in DOMAIN pg => pg[p] \in S) => p \in S
    PROVE  \A p \in DOMAIN pg : p \in S
  <1>1. CASE DOMAIN pg \ S # {}
    <2>1. PICK q \in DOMAIN pg \ S : pg[q] \notin DOMAIN pg \ S
      BY <1>1 DEF Grounded
    <2> QED
      BY <2>1
  <1> QED
    BY <1>1

LEMMA ChainInside ==
    ASSUME NEW pg, Grounded(pg)
    PROVE  \A p \in DOMAIN pg : Chain(pg, p) \subseteq DOMAIN pg /\ p \in Chain(pg, p)
  <1> DEFINE S == {p \in DOMAIN pg : Chain(pg, p) \subseteq DOMAIN pg /\ p \in Chain(pg, p)}
  <1>1. \A p \in DOMAIN pg : (pg[p] \in DOMAIN pg => pg[p] \in S) => p \in S
    BY ChainUnfolds
  <1> HIDE DEF S
  <1>2. \A p \in DOMAIN pg : p \in S
    BY <1>1, GroundedInduction DEF S
  <1> QED
    BY <1>2 DEF S

(* A chain stays in any set that a walk from its first page does not leave.*)
LEMMA ChainWithin ==
    ASSUME NEW pg, Grounded(pg), NEW T,
           \A r \in DOMAIN pg : r \in T /\ pg[r] \in DOMAIN pg => pg[r] \in T
    PROVE  \A p \in DOMAIN pg : p \in T => Chain(pg, p) \subseteq T
  <1> DEFINE S == {p \in DOMAIN pg : p \in T => Chain(pg, p) \subseteq T}
  <1>1. \A p \in DOMAIN pg : (pg[p] \in DOMAIN pg => pg[p] \in S) => p \in S
    BY ChainUnfolds
  <1> HIDE DEF S
  <1>2. \A p \in DOMAIN pg : p \in S
    BY <1>1, GroundedInduction DEF S
  <1> QED
    BY <1>2 DEF S

LEMMA ChainClosed ==
    ASSUME NEW pg, Grounded(pg)
    PROVE  \A p \in DOMAIN pg : \A q \in Chain(pg, p) :
             pg[q] \in DOMAIN pg => pg[q] \in Chain(pg, p)
  <1> DEFINE S == {p \in DOMAIN pg : \A q \in Chain(pg, p) :
                     pg[q] \in DOMAIN pg => pg[q] \in Chain(pg, p)}
  <1>1. ASSUME NEW p \in DOMAIN pg, pg[p] \in DOMAIN pg => pg[p] \in S
        PROVE  p \in S
    <2>1. Chain(pg, p) = {p} \cup IF pg[p] \in DOMAIN pg THEN Chain(pg, pg[p]) ELSE {}
      BY ChainUnfolds
    <2>2. CASE pg[p] \in DOMAIN pg
      <3>1. pg[p] \in Chain(pg, pg[p])
        BY <2>2, ChainInside
      <3> QED
        BY <1>1, <2>1, <2>2, <3>1
    <2>3. CASE pg[p] \notin DOMAIN pg
      BY <2>1, <2>3
    <2> QED
      BY <2>2, <2>3
  <1> HIDE DEF S
  <1>2. \A p \in DOMAIN pg : p \in S
    BY <1>1, GroundedInduction DEF S
  <1> QED
    BY <1>2 DEF S

(* Every chain has one end, on which the walk from any of its pages stops. *)
LEMMA OneEnd ==
    ASSUME NEW pg, Grounded(pg)
    PROVE  \A p \in DOMAIN pg : \E e \in Chain(pg, p) :
             /\ pg[e] \notin DOMAIN pg
             /\ \A q \in Chain(pg, p) : pg[q] \notin DOMAIN pg => q = e
  <1> DEFINE S == {p \in DOMAIN pg : \E e \in Chain(pg, p) :
                     /\ pg[e] \notin DOMAIN pg
                     /\ \A q \in Chain(pg, p) : pg[q] \notin DOMAIN pg => q = e}
  <1>1. ASSUME NEW p \in DOMAIN pg, pg[p] \in DOMAIN pg => pg[p] \in S
        PROVE  p \in S
    <2>1. Chain(pg, p) = {p} \cup IF pg[p] \in DOMAIN pg THEN Chain(pg, pg[p]) ELSE {}
      BY ChainUnfolds
    <2>2. CASE pg[p] \in DOMAIN pg
      <3>1. PICK e \in Chain(pg, pg[p]) :
              /\ pg[e] \notin DOMAIN pg
              /\ \A q \in Chain(pg, pg[p]) : pg[q] \notin DOMAIN pg => q = e
        BY <1>1, <2>2
      <3>2. /\ e \in Chain(pg, p)
            /\ \A q \in Chain(pg, p) : pg[q] \notin DOMAIN pg => q = e
        BY <2>1, <2>2, <3>1
      <3> QED
        BY <3>1, <3>2
    <2>3. CASE pg[p] \notin DOMAIN pg
      BY <2>1, <2>3
    <2> QED
      BY <2>2, <2>3
  <1> HIDE DEF S
  <1>2. \A p \in DOMAIN pg : p \in S
    BY <1>1, GroundedInduction DEF S
  <1> QED
    BY <1>2 DEF S

LEMMA EndIs ==
    ASSUME NEW pg, Grounded(pg), NEW p \in DOMAIN pg
    PROVE  /\ End(pg, p) \in Chain(pg, p)
           /\ pg[End(pg, p)] \notin DOMAIN pg
           /\ \A q \in Chain(pg, p) : pg[q] \notin DOMAIN pg => q = End(pg, p)
  <1> DEFINE Stops(q) == pg[q] \notin DOMAIN pg
             e == CHOOSE q \in Chain(pg, p) : Stops(q)
  <1>1. e \in Chain(pg, p) /\ Stops(e)
    <2>1. \E q \in Chain(pg, p) : Stops(q)
      BY OneEnd
    <2> QED
      BY <2>1
  <1>2. End(pg, p) = e
    BY DEF End
  <1> HIDE DEF e
  <1> QED
    BY <1>1, <1>2, OneEnd

LEMMA EndUnfolds ==
    ASSUME NEW pg, Grounded(pg), NEW p \in DOMAIN pg
    PROVE  End(pg, p) = IF pg[p] \in DOMAIN pg THEN End(pg, pg[p]) ELSE p
  <1>1. Chain(pg, p) = {p} \cup IF pg[p] \in DOMAIN pg THEN Chain(pg, pg[p]) ELSE {}
    BY ChainUnfolds
  <1>2. CASE pg[p] \in DOMAIN pg
    <2>1. /\ End(pg, pg[p]) \in Chain(pg, pg[p])
          /\ pg[End(pg, pg[p])] \notin DOMAIN pg
      BY <1>2, EndIs
    <2> QED
      BY <1>1, <1>2, <2>1, EndIs
  <1>3. CASE pg[p] \notin DOMAIN pg
    BY <1>1, <1>3, EndIs
  <1> QED
    BY <1>2, <1>3

LEMMA NoReturn ==
    ASSUME NEW pg, Grounded(pg)
    PROVE  \A p \in DOMAIN pg : pg[p] \in DOMAIN pg => p \notin Chain(pg, pg[p])
  <1> DEFINE S == {p \in DOMAIN pg : pg[p] \in DOMAIN pg => p \notin Chain(pg, pg[p])}
  <1>1. ASSUME NEW p \in DOMAIN pg, pg[p] \in DOMAIN pg => pg[p] \in S
        PROVE  p \in S
    <2> SUFFICES ASSUME pg[p] \in DOMAIN pg, p \in Chain(pg, pg[p])
                 PROVE  FALSE
      OBVIOUS
    <2> DEFINE r == pg[p]
    <2>1. r # p
      <3>1. {p} \in SUBSET DOMAIN pg /\ {p} # {}
        OBVIOUS
      <3>2. \E q \in {p} : pg[q] \notin {p}
        BY <3>1 DEF Grounded
      <3> QED
        BY <3>2
    <2>2. Chain(pg, r) = {r} \cup IF pg[r] \in DOMAIN pg THEN Chain(pg, pg[r]) ELSE {}
      BY ChainUnfolds
    <2>3. pg[r] \in DOMAIN pg /\ p \in Chain(pg, pg[r])
      BY <2>1, <2>2
    <2>4. r \in Chain(pg, pg[r])
      BY <2>3, ChainClosed
    <2>5. r \in S
      BY <1>1
    <2> QED
      BY <2>3, <2>4, <2>5
  <1> HIDE DEF S
  <1>2. \A p \in DOMAIN pg : p \in S
    BY <1>1, GroundedInduction DEF S
  <1> QED
    BY <1>2 DEF S
-----------------------------------------------------------------------------
(* A page that is put in front of a chain, or begins one, changes no other.*)
Extended(pg, n, v) == [q \in DOMAIN pg \cup {n} |-> IF q = n THEN v ELSE pg[q]]

LEMMA ExtensionDoes ==
    ASSUME NEW pg, Grounded(pg), NEW n, NEW v, n \notin DOMAIN pg, v # n,
           \A q \in DOMAIN pg : pg[q] # n
    PROVE  LET pg2 == Extended(pg, n, v) IN
           /\ DOMAIN pg2 = DOMAIN pg \cup {n}
           /\ Grounded(pg2)
           /\ pg2[n] = v
           /\ \A p \in DOMAIN pg : /\ pg2[p] = pg[p]
                                   /\ Chain(pg2, p) = Chain(pg, p)
                                   /\ End(pg2, p) = End(pg, p)
           /\ Chain(pg2, n) = {n} \cup IF v \in DOMAIN pg THEN Chain(pg, v) ELSE {}
           /\ End(pg2, n) = IF v \in DOMAIN pg THEN End(pg, v) ELSE n
  <1> DEFINE D == DOMAIN pg
             pg2 == Extended(pg, n, v)
             S == {p \in D : Chain(pg2, p) = Chain(pg, p)}
  <1>1. /\ DOMAIN pg2 = D \cup {n}
        /\ pg2[n] = v
        /\ \A p \in D : pg2[p] = pg[p] /\ p # n
    BY DEF Extended
  <1> HIDE DEF pg2
  <1>2. Grounded(pg2)
    <2> SUFFICES ASSUME NEW R \in SUBSET DOMAIN pg2, R # {}
                 PROVE  \E q \in R : pg2[q] \notin R
      BY DEF Grounded
    <2>1. CASE R = {n}
      BY <1>1, <2>1
    <2>2. CASE R # {n}
      <3>1. R \ {n} \in SUBSET D /\ R \ {n} # {}
        BY <1>1, <2>2
      <3>2. PICK q \in R \ {n} : pg[q] \notin R \ {n}
        BY <3>1 DEF Grounded
      <3> QED
        BY <1>1, <3>1, <3>2
    <2> QED
      BY <2>1, <2>2
  <1>3. ASSUME NEW p \in D, pg[p] \in D => pg[p] \in S
        PROVE  p \in S
    <2>1. Chain(pg, p) = {p} \cup IF pg[p] \in D THEN Chain(pg, pg[p]) ELSE {}
      BY ChainUnfolds
    <2>2. Chain(pg2, p) = {p} \cup IF pg2[p] \in DOMAIN pg2 THEN Chain(pg2, pg2[p]) ELSE {}
      BY <1>1, ChainUnfolds
    <2>3. pg2[p] = pg[p] /\ (pg2[p] \in DOMAIN pg2 <=> pg[p] \in D)
      BY <1>1
    <2> QED
      BY <1>3, <2>1, <2>2, <2>3
  <1> HIDE DEF S
  <1>4. \A p \in D : p \in S
    BY <1>3, GroundedInduction DEF S
  <1>5. ASSUME NEW p \in D
        PROVE  Chain(pg2, p) = Chain(pg, p) /\ End(pg2, p) = End(pg, p)
    <2>1. Chain(pg2, p) = Chain(pg, p)
      BY <1>4 DEF S
    <2>2. End(pg2, p) \in Chain(pg2, p) /\ pg2[End(pg2, p)] \notin DOMAIN pg2
      BY <1>1, <1>2, EndIs
    <2>3. End(pg2, p) \in D
      BY <2>1, <2>2, ChainInside
    <2>4. pg[End(pg2, p)] \notin D
      BY <1>1, <2>2, <2>3
    <2> QED
      BY <2>1, <2>2, <2>4, EndIs
  <1>6. Chain(pg2, n) = {n} \cup IF v \in D THEN Chain(pg, v) ELSE {}
    <2>1. Chain(pg2, n) = {n} \cup IF pg2[n] \in DOMAIN pg2 THEN Chain(pg2, pg2[n]) ELSE {}
      BY <1>1, ChainUnfolds
    <2> QED
      BY <1>1, <1>5, <2>1
  <1>7. End(pg2, n) = IF v \in D THEN End(pg, v) ELSE n
    <2>1. End(pg2, n) = IF pg2[n] \in DOMAIN pg2 THEN End(pg2, pg2[n]) ELSE n
      BY <1>1, <1>2, EndUnfolds
    <2> QED
      BY <1>1, <1>5, <2>1
  <1> QED
    BY <1>1, <1>2, <1>5, <1>6, <1>7 DEF pg2

(* Pages that are freed change the chains they were in only.               *)
Without(pg, S) == [p \in DOMAIN pg \ S |-> pg[p]]

LEMMA StillGrounded ==
    ASSUME NEW pg, Grounded(pg), NEW S
    PROVE  Grounded(Without(pg, S))
  <1> SUFFICES ASSUME NEW R \in SUBSET (DOMAIN pg \ S), R # {}
               PROVE  \E q \in R : pg[q] \notin R
    BY DEF Grounded, Without
  <1> QED
    BY DEF Grounded

(* A chain that loses no page, or only its end, is otherwise as before.    *)
LEMMA FreeingKeeps ==
    ASSUME NEW pg, Grounded(pg), NEW S, NEW p \in DOMAIN pg, p \notin S,
           \A q \in Chain(pg, p) \cap S : pg[q] \notin DOMAIN pg
    PROVE  Chain(Without(pg, S), p) = Chain(pg, p) \ S
  <1> DEFINE D == DOMAIN pg
             pg2 == Without(pg, S)
             T == {q \in D : q \notin S /\ (\A r \in Chain(pg, q) \cap S : pg[r] \notin D)
                               => Chain(pg2, q) = Chain(pg, q) \ S}
  <1>1. DOMAIN pg2 = D \ S /\ \A q \in D \ S : pg2[q] = pg[q]
    BY DEF Without
  <1> HIDE DEF pg2
  <1>2. ASSUME NEW q \in D, pg[q] \in D => pg[q] \in T,
               q \notin S, \A r \in Chain(pg, q) \cap S : pg[r] \notin D
        PROVE  Chain(pg2, q) = Chain(pg, q) \ S
    <2>1. Chain(pg, q) = {q} \cup IF pg[q] \in D THEN Chain(pg, pg[q]) ELSE {}
      BY ChainUnfolds
    <2>2. Chain(pg2, q) = {q} \cup IF pg[q] \in D \ S THEN Chain(pg2, pg[q]) ELSE {}
      BY <1>1, <1>2, ChainUnfolds
    <2>3. CASE pg[q] \in D \ S
      <3>1. Chain(pg2, pg[q]) = Chain(pg, pg[q]) \ S
        BY <1>2, <2>1, <2>3
      <3> QED
        BY <1>2, <2>1, <2>2, <2>3, <3>1
    <2>4. CASE pg[q] \in D \cap S
      <3>1. pg[q] \in Chain(pg, q)
        BY <2>1, <2>4, ChainInside
      <3>2. pg[pg[q]] \notin D
        BY <1>2, <2>4, <3>1
      <3>3. Chain(pg, pg[q]) = {pg[q]}
        BY <2>4, <3>2, ChainUnfolds
      <3> QED
        BY <1>2, <2>1, <2>2, <2>4, <3>3
    <2>5. CASE pg[q] \notin D
      BY <1>2, <2>1, <2>2, <2>5
    <2> QED
      BY <2>3, <2>4, <2>5
  <1> HIDE DEF T
  <1>3. \A q \in D : (pg[q] \in D => pg[q] \in T) => q \in T
    BY <1>2 DEF T
  <1>4. \A q \in D : q \in T
    BY <1>3, GroundedInduction DEF T
  <1> QED
    BY <1>4 DEF T, pg2

LEMMA FreeingElsewhere ==
    ASSUME NEW pg, Grounded(pg), NEW S, NEW p \in DOMAIN pg,
           \A q \in Chain(pg, p) : q \notin S
    PROVE  /\ p \in DOMAIN Without(pg, S)
           /\ Without(pg, S)[p] = pg[p]
           /\ Chain(Without(pg, S), p) = Chain(pg, p)
           /\ End(Without(pg, S), p) = End(pg, p)
  <1> DEFINE pg2 == Without(pg, S)
  <1>1. DOMAIN pg2 = DOMAIN pg \ S /\ \A q \in DOMAIN pg \ S : pg2[q] = pg[q]
    BY DEF Without
  <1>2. Grounded(pg2)
    BY StillGrounded
  <1>3. p \in DOMAIN pg2
    BY <1>1, ChainInside
  <1>4. Chain(pg2, p) = Chain(pg, p)
    <2>1. p \notin S /\ \A q \in Chain(pg, p) \cap S : pg[q] \notin DOMAIN pg
      BY <1>1, <1>3
    <2>2. Chain(pg2, p) = Chain(pg, p) \ S
      BY <2>1, FreeingKeeps
    <2> HIDE DEF pg2
    <2> QED
      BY <2>2
  <1> HIDE DEF pg2
  <1>5. /\ End(pg2, p) \in Chain(pg, p)
        /\ pg2[End(pg2, p)] \notin DOMAIN pg2
    BY <1>2, <1>3, <1>4, EndIs
  <1>6. End(pg2, p) \in DOMAIN pg \ S
    BY <1>1, <1>5, ChainInside
  <1>7. pg[End(pg2, p)] \notin DOMAIN pg \ S
    BY <1>1, <1>5, <1>6
  <1>8. pg[End(pg2, p)] \notin DOMAIN pg
    BY <1>5, <1>7, ChainClosed
  <1>9. End(pg2, p) = End(pg, p)
    BY <1>5, <1>8, EndIs
  <1> QED
    BY <1>1, <1>3, <1>4, <1>9 DEF pg2

(* All pages of a chain but the last are freed: that one stays.            *)
LEMMA FirstPageStays ==
    ASSUME NEW pg, Grounded(pg), NEW S, NEW p \in DOMAIN pg, pg[p] \notin DOMAIN pg, p \notin S
    PROVE  /\ p \in DOMAIN Without(pg, S)
           /\ Chain(Without(pg, S), p) = {p}
           /\ End(Without(pg, S), p) = p
  <1> DEFINE pg2 == Without(pg, S)
  <1>1. p \in DOMAIN pg2 /\ pg2[p] \notin DOMAIN pg2
    BY DEF Without
  <1>2. Grounded(pg2)
    BY StillGrounded
  <1> HIDE DEF pg2
  <1>3. Chain(pg2, p) = {p} /\ End(pg2, p) = p
    BY <1>1, <1>2, ChainUnfolds, EndUnfolds
  <1> QED
    BY <1>1, <1>3 DEF pg2
-----------------------------------------------------------------------------
(* What the steps do, as far as the pages depend on it.                    *)
Busy(t) == pc[t] \in RunningPhp \cup {"walking"}
Early(t) == pc[t] \in {"ctor", "workers", "start"}
Executes(a, t) == current[t] = a /\ Busy(t)

othersVars == <<heap, by_ref, created, raced, thread_offset, newborn, actor_removals>>

MakesObject(t, a) ==
    LET p == <<a, object[a] + 1, 0>> IN
    /\ pc[t] = "pop" /\ tasks[t] # <<>> /\ Head(tasks[t]) = NewTask(a)
    /\ tasks' = [tasks EXCEPT ![t] = Tail(@)]
    /\ IF a \in by_ref
       THEN /\ context' = [context EXCEPT ![a] = "blank"]
            /\ current' = [current EXCEPT ![t] = a]
            /\ pc' = [pc EXCEPT ![t] = "ctor"]
            /\ saved' = [saved EXCEPT ![a] = p]
       ELSE pc' = [pc EXCEPT ![t] = "loop"] /\ UNCHANGED <<context, current, saved>>
    /\ object' = [object EXCEPT ![a] = @ + 1]
    /\ drawn' = [drawn EXCEPT ![a] = 0]
    /\ pages' = Extended(pages, p, NoPage)
    /\ engine' = [engine EXCEPT ![t] = p]
    /\ UNCHANGED <<to_clear, overtaken, fault, othersVars>>

Enters(t) ==
    /\ pc[t] = "start"
    /\ pc' = [pc EXCEPT ![t] = "receive"]
    /\ engine' = [engine EXCEPT ![t] = saved[current[t]]]
    /\ UNCHANGED <<current, context, tasks, pages, saved, to_clear, object, drawn, overtaken,
                   fault, othersVars>>

Reenters(t, a) ==
    /\ pc[t] = "pop" /\ tasks[t] # <<>> /\ Head(tasks[t]) = ResumeTask(a)
    /\ a \in by_ref /\ context[a] = "saved"
    /\ tasks' = [tasks EXCEPT ![t] = Tail(@)]
    /\ context' = [context EXCEPT ![a] = "stale"]
    /\ current' = [current EXCEPT ![t] = a]
    /\ pc' = [pc EXCEPT ![t] = "resume"]
    /\ engine' = [engine EXCEPT ![t] = saved[a]]
    /\ UNCHANGED <<pages, saved, to_clear, object, drawn, overtaken, fault, othersVars>>

Grows(t) ==
    LET a == current[t]
        p == <<a, object[a], drawn[a] + 1>>
    IN
    /\ pc[t] = "receive" /\ a \in Actor /\ drawn[a] < MaxPages
    /\ drawn' = [drawn EXCEPT ![a] = @ + 1]
    /\ pages' = Extended(pages, p, engine[t])
    /\ engine' = [engine EXCEPT ![t] = p]
    /\ UNCHANGED <<pc, current, context, tasks, saved, to_clear, object, overtaken, fault,
                   othersVars>>

Shrinks(t) ==
    /\ pc[t] = "receive" /\ engine[t] # End(pages, engine[t])
    /\ pages' = Without(pages, {engine[t]})
    /\ engine' = [engine EXCEPT ![t] = pages[engine[t]]]
    /\ UNCHANGED <<pc, current, context, tasks, saved, to_clear, object, drawn, overtaken,
                   fault, othersVars>>

Blocks(t) ==
    /\ pc[t] = "swap"
    /\ pc' = [pc EXCEPT ![t] = "loop"]
    /\ current' = [current EXCEPT ![t] = NoActor]
    /\ context' = [context EXCEPT ![current[t]] = "saved"]
    /\ saved' = [saved EXCEPT ![current[t]] = engine[t]]
    /\ engine' = [engine EXCEPT ![t] = Own(t)]
    /\ UNCHANGED <<tasks, pages, to_clear, object, drawn, overtaken, fault, othersVars>>

Leaves(t) ==
    /\ pc[t] = "receive"
    /\ \E label \in {"loop", "crash"} : pc' = [pc EXCEPT ![t] = label]
    /\ \E x \in Actor \cup {NoActor} : current' = [current EXCEPT ![t] = x]
    /\ pages' = Without(pages, Chain(pages, engine[t]) \ {End(pages, engine[t])})
    /\ saved' = [saved EXCEPT ![current[t]] = End(pages, engine[t])]
    /\ engine' = [engine EXCEPT ![t] = Own(t)]
    /\ by_ref' \subseteq by_ref /\ raced \subseteq raced'
    /\ UNCHANGED <<context, tasks, heap, created, thread_offset, newborn, to_clear, object,
                   drawn, overtaken, fault>>

LeavesCtor(t) ==
    /\ pc[t] = "ctor"
    /\ pc' = [pc EXCEPT ![t] = "crash"]
    /\ UNCHANGED <<current, context, tasks, fault, vmVars, othersVars>>

Resets(t, w) ==
    /\ \/ /\ pc[t] = "crash"
          /\ pc' = [pc EXCEPT ![t] = "loop"]
          /\ current' = [current EXCEPT ![t] = NoActor]
       \/ pc[t] = "workers" /\ UNCHANGED <<pc, current>>
    /\ tasks' = [tasks EXCEPT ![thread_offset[w]] = @ \o RestartTasks(w)]
    /\ context' = [context EXCEPT ![w] = IF @ = "none" THEN "none" ELSE "blank"]
    /\ IF context[w] # "none"
       THEN /\ to_clear' = [to_clear EXCEPT ![thread_offset[w]] = Append(@, saved[w])]
            /\ saved' = [saved EXCEPT ![w] = End(pages, @)]
       ELSE UNCHANGED <<to_clear, saved>>
    /\ overtaken' = overtaken \cup Overtaken(w)
    /\ raced' = raced \cup ({w} \cap Unscheduled)
    /\ UNCHANGED <<heap, by_ref, created, thread_offset, newborn, actor_removals, pages, engine,
                   object, drawn, fault>>

Clears(t, a) ==
    LET p == Head(to_clear[t]) IN
    /\ pc[t] = "pop" /\ tasks[t] # <<>> /\ Head(tasks[t]) = FreeTask(a)
    /\ pc' = [pc EXCEPT ![t] = "loop"]
    /\ tasks' = [tasks EXCEPT ![t] = Tail(@)]
    /\ pages' = Without(pages, Chain(pages, p) \ {End(pages, p)})
    /\ to_clear' = [to_clear EXCEPT ![t] = Tail(@)]
    /\ fault' = IF heap[a] = "freed" THEN "useAfterFree" ELSE "none"
    /\ UNCHANGED <<current, context, engine, saved, object, drawn, overtaken, othersVars>>

Destroys(t) ==
    /\ \/ pc[t] = "loop" /\ pc' = [pc EXCEPT ![t] = "pop"]
       \/ pc[t] = "spin" /\ pc' = [pc EXCEPT ![t] = "ended"]
    /\ heap' = [a \in Actor |-> IF a \in actor_removals[t] THEN "freed" ELSE heap[a]]
    /\ pages' = Without(pages, UNION {Chain(pages, saved[a]) : a \in actor_removals[t]})
    /\ UNCHANGED <<current, context, tasks, by_ref, created, raced, thread_offset, newborn,
                   engine, saved, to_clear, object, drawn, overtaken, fault>>

(* The other steps change no page and begin and end no execution.          *)
Calm ==
    /\ UNCHANGED <<vmVars, context>>
    /\ \A t \in Worker : /\ Busy(t)' <=> Busy(t)
                         /\ Busy(t) => current'[t] = current[t]
                         /\ Early(t)' => Early(t)
                         /\ pc'[t] = "script" => pc[t] = "script"
    /\ \A a \in Actor : /\ heap'[a] = "live" => heap[a] = "live"
                        /\ a \in by_ref' => a \in by_ref \/ a \notin created
    /\ raced \subseteq raced'
    /\ fault' = "none" => fault = "none"

(* Their queues: tasks of workers are added at the end, and none of them   *)
(* clears pages; a new actor's first task is the only one that starts it.  *)
Idling(t) == pc[t] \in {"loop", "pop"}
CalmQueues ==
    /\ \A t \in Worker : tasks[t] # <<>> /\ Idling(t) => Idling(t)'
    /\ \/ \E t \in Worker : /\ thread_offset' = thread_offset
                            /\ \/ tasks'[t] = tasks[t]
                               \/ \E a \in Actor : tasks'[t] = Append(tasks[t], ResumeTask(a))
                               \/ \E a \in Actor : /\ tasks[t] # <<>>
                                                   /\ Head(tasks[t]) = ResumeTask(a)
                                                   /\ tasks'[t] = Tail(tasks[t])
                            /\ \A u \in Worker \ {t} : tasks'[u] = tasks[u]
       \/ \E a \in Unscheduled, o \in Worker :
            /\ thread_offset' = [thread_offset EXCEPT ![a] = o]
            /\ tasks'[o] = Append(tasks[o], NewTask(a))
            /\ \A u \in Worker \ {o} : tasks'[u] = tasks[u]

LEMMA ThrowDoes ==
    ASSUME Typed, NEW t \in Worker, Throw(t)
    PROVE  /\ pc' = [pc EXCEPT ![t] = "crash"]
           /\ current' = [current EXCEPT ![t] = current[t]]
           /\ pc[t] \in {"ctor", "receive"}
           /\ fault = "none"
           /\ UNCHANGED <<context, heap, tasks, by_ref, created, raced, thread_offset, newborn,
                          actor_removals, fault>>
  BY DEF Throw, Crash, Goto, At, Runs, registryVars, queueVars, restVars

LEMMA ReturnDoes ==
    ASSUME Typed, NEW t \in Worker, Return(t)
    PROVE  /\ pc' = [pc EXCEPT ![t] = "loop"]
           /\ current' = [current EXCEPT ![t] = NoActor]
           /\ by_ref' \subseteq by_ref /\ raced \subseteq raced'
           /\ fault = "none"
           /\ UNCHANGED <<context, heap, tasks, created, thread_offset, newborn, fault>>
  BY DEF Return, Remove, MarkForRemoval, Rest, Goto, At, Runs

LEMMA MakesObjectDone ==
    ASSUME Typed, NEW t \in Worker, NewObject(t)
    PROVE  fault = "none" /\ \E a \in Actor : MakesObject(t, a)
  <1>1. PICK a \in Actor : a = Head(tasks[t]).actor /\ Head(tasks[t]) = NewTask(a)
    BY HeadIs DEF NewObject, HandleNew, Pops, Typed, Thread
  <1>2. /\ pc[t] = "pop" /\ tasks[t] # <<>> /\ fault = "none"
        /\ tasks' = [tasks EXCEPT ![t] = Tail(@)]
        /\ UNCHANGED <<heap, by_ref, created, raced, thread_offset, newborn, actor_removals, fault>>
        /\ IF a \in by_ref
           THEN /\ context' = [context EXCEPT ![a] = "blank"]
                /\ current' = [current EXCEPT ![t] = a]
                /\ pc' = [pc EXCEPT ![t] = "ctor"]
           ELSE pc' = [pc EXCEPT ![t] = "loop"] /\ UNCHANGED <<context, current>>
    BY <1>1 DEF NewObject, HandleNew, Pops, At, Runs, Dequeue, Goto, WithNewInternal,
       registryVars, restVars
  <1>3. /\ saved' = IF a \in by_ref THEN [saved EXCEPT ![a] = <<a, object[a] + 1, 0>>] ELSE saved
        /\ object' = [object EXCEPT ![a] = @ + 1]
        /\ drawn' = [drawn EXCEPT ![a] = 0]
        /\ pages' = Extended(pages, <<a, object[a] + 1, 0>>, NoPage)
        /\ engine' = [engine EXCEPT ![t] = <<a, object[a] + 1, 0>>]
        /\ UNCHANGED <<to_clear, overtaken>>
    BY <1>1 DEF NewObject, Allocate, SetEngine, Extended, Live
  <1> QED
    BY <1>1, <1>2, <1>3 DEF MakesObject, othersVars

LEMMA EntersDone ==
    ASSUME Typed, NEW t \in Worker, EnterReceive(t)
    PROVE  fault = "none" /\ Enters(t)
  BY DEF EnterReceive, StartReceive, At, Runs, Goto, SetEngine, Enters, othersVars,
     registryVars, queueVars, restVars

LEMMA ReenterDone ==
    ASSUME Typed, NEW t \in Worker, Reenter(t)
    PROVE  /\ fault = "none"
           /\ \E a \in Actor :
                \/ Reenters(t, a)
                \/ /\ tasks[t] # <<>> /\ Head(tasks[t]) = ResumeTask(a) /\ fault' # "none"
                   /\ tasks' = [tasks EXCEPT ![t] = Tail(@)]
                   /\ UNCHANGED <<vmVars, pc, current, context, othersVars>>
  <1>1. PICK a \in Actor : a = Head(tasks[t]).actor /\ Head(tasks[t]) = ResumeTask(a)
    BY HeadIs DEF Reenter, HandleResume, Pops, Typed, Thread
  <1>2. /\ pc[t] = "pop" /\ tasks[t] # <<>> /\ fault = "none"
        /\ tasks' = [tasks EXCEPT ![t] = Tail(@)]
        /\ UNCHANGED <<heap, by_ref, created, raced, thread_offset, newborn, actor_removals>>
        /\ fault' = JumpFault(a)
        /\ IF JumpFault(a) = "none"
           THEN /\ context' = [context EXCEPT ![a] = "stale"]
                /\ current' = [current EXCEPT ![t] = a]
                /\ pc' = [pc EXCEPT ![t] = "resume"]
           ELSE UNCHANGED <<context, current, pc>>
    BY <1>1 DEF Reenter, HandleResume, Pops, At, Runs, Dequeue, Goto, registryVars
  <1>3. /\ IF fault' = "none" THEN engine' = [engine EXCEPT ![t] = saved[a]]
           ELSE UNCHANGED engine
        /\ UNCHANGED <<pages, saved, to_clear, object, drawn, overtaken>>
    BY <1>1 DEF Reenter, SetEngine
  <1>4. JumpFault(a) = "none" => a \in by_ref /\ context[a] = "saved"
    BY DEF JumpFault
  <1> QED
    BY <1>1, <1>2, <1>3, <1>4 DEF Reenters, othersVars, vmVars

LEMMA GrowsDone ==
    ASSUME Typed, NEW t \in Worker, Grow(t)
    PROVE  fault = "none" /\ Grows(t)
  <1>1. /\ pc[t] = "receive" /\ fault = "none" /\ current[t] \in Actor
        /\ drawn[current[t]] < MaxPages
    BY MaxPagesAssumption DEF Grow, At, Runs
  <1>2. UNCHANGED <<pc, current, context, tasks, fault, heap, by_ref, created, raced,
                    thread_offset, newborn, actor_removals>>
    BY DEF Grow, vars, registryVars, objectVars, queueVars, threadVars, restVars
  <1> QED
    BY <1>1, <1>2 DEF Grow, Grows, PageOf, Allocate, SetEngine, Extended, Live, othersVars

LEMMA ShrinksDone ==
    ASSUME Typed, NEW t \in Worker, Shrink(t)
    PROVE  fault = "none" /\ Shrinks(t)
  <1>1. UNCHANGED <<pc, current, context, tasks, fault, heap, by_ref, created, raced,
                    thread_offset, newborn, actor_removals>>
    BY DEF Shrink, vars, registryVars, objectVars, queueVars, threadVars, restVars
  <1>2. engine[t] # End(pages, engine[t])
    BY PagesAreChains DEF Shrink
  <1>3. pages' = Without(pages, {engine[t]})
    BY DEF Shrink, Release, Without, Live
  <1> QED
    BY <1>1, <1>2, <1>3 DEF Shrink, At, Runs, Shrinks, SetEngine, othersVars

LEMMA BlocksDone ==
    ASSUME Typed, NEW t \in Worker, Block(t)
    PROVE  fault = "none" /\ Blocks(t)
  BY DEF Block, Swap, At, Runs, Rest, Goto, SetEngine, ThreadPage, Blocks, othersVars,
     registryVars, queueVars, restVars

LEMMA LeavesDone ==
    ASSUME Typed, NEW t \in Worker, LeaveReceive(t)
    PROVE  fault = "none" /\ Leaves(t)
  <1>1. /\ pages' = Without(pages, Chain(pages, engine[t]) \ {End(pages, engine[t])})
        /\ saved' = [saved EXCEPT ![current[t]] = End(pages, engine[t])]
    BY PagesAreChains DEF LeaveReceive, Release, Above, LeftOn, Without, Live
  <1>2. /\ pc[t] = "receive"
        /\ engine' = [engine EXCEPT ![t] = Own(t)]
        /\ UNCHANGED <<to_clear, object, drawn, overtaken>>
    BY DEF LeaveReceive, SetEngine, ThreadPage
  <1>3. current[t] \in Actor
    BY <1>2 DEF Typed, HasCurrent, Running, Thread
  <1>4. Return(t) \/ Throw(t)
    BY DEF LeaveReceive
  <1> QED
    BY <1>1, <1>2, <1>3, <1>4, ReturnDoes, ThrowDoes DEF Leaves

LEMMA LeavesCtorDone ==
    ASSUME Typed, NEW t \in Worker, LeaveCtor(t)
    PROVE  fault = "none" /\ LeavesCtor(t)
  <1>1. current' = [current EXCEPT ![t] = current[t]] /\ current \in [Thread -> Actor \cup {NoActor}]
    BY ThrowDoes DEF LeaveCtor, Typed, TypeOK, ThreadTypes
  <1>2. current' = current
    BY <1>1
  <1> QED
    BY <1>2, ThrowDoes DEF LeaveCtor, LeavesCtor, othersVars

LEMMA OneForOneDoes ==
    ASSUME NEW w \in Actor, OneForOne(w), ResetPages(w)
    PROVE  /\ tasks' = [tasks EXCEPT ![thread_offset[w]] = @ \o RestartTasks(w)]
           /\ context' = [context EXCEPT ![w] = IF @ = "none" THEN "none" ELSE "blank"]
           /\ raced' = raced \cup ({w} \cap Unscheduled)
           /\ IF context[w] # "none"
              THEN /\ to_clear' = [to_clear EXCEPT ![thread_offset[w]] = Append(@, saved[w])]
                   /\ saved' = [saved EXCEPT ![w] = End(pages, @)]
              ELSE UNCHANGED <<to_clear, saved>>
           /\ overtaken' = overtaken \cup Overtaken(w)
           /\ UNCHANGED <<pages, engine, object, drawn>>
  BY PagesAreChains DEF OneForOne, ResetPages, Enqueue, RestartThread, HasInternal, PageToClear

LEMMA ResetCrashedDone ==
    ASSUME Typed, AtHome, NEW t \in Worker, ResetCrashed(t)
    PROVE  fault = "none" /\ \E w \in Actor : w \in created /\ Resets(t, w)
  <1>1. pc[t] = "crash" /\ fault = "none"
    BY DEF ResetCrashed, CrashRestart, At, Runs
  <1>2. PICK w \in Actor : w = current[t] /\ w \in created
    BY <1>1, ActorAssumption DEF Typed, HasCurrent, Running, Thread, AtHome, Known
  <1>3. /\ OneForOne(w) /\ ResetPages(w)
        /\ pc' = [pc EXCEPT ![t] = "loop"]
        /\ current' = [current EXCEPT ![t] = NoActor]
        /\ UNCHANGED <<heap, by_ref, created, thread_offset, newborn, actor_removals, fault>>
    BY <1>2 DEF ResetCrashed, CrashRestart, Rest, Goto, registryVars
  <1> QED
    BY <1>1, <1>2, <1>3, OneForOneDoes DEF Resets

LEMMA ResetWorkerDone ==
    ASSUME Typed, AtHome, NEW t \in Worker, ResetWorker(t)
    PROVE  fault = "none" /\ \E w \in Actor : w \in created /\ Resets(t, w)
  <1>1. pc[t] = "workers" /\ fault = "none"
    BY DEF ResetWorker, RestartWorker, At, Runs
  <1>2. PICK w \in todo[t] : RestartWorker(t) /\ todo'[t] = todo[t] \ {w} /\ ResetPages(w)
    BY DEF ResetWorker
  <1>3. PICK v \in todo[t] \cap workers[current[t]] :
          OneForOne(v) /\ todo' = [todo EXCEPT ![t] = @ \ {v}]
    BY <1>2 DEF RestartWorker
  <1>4. current[t] \in Actor
    BY <1>1 DEF Typed, HasCurrent, Running, Thread
  <1>5. v \in Actor /\ v \in created
    BY <1>3, <1>4 DEF Typed, TypeOK, RegistryTypeOK, ThreadTypes, LinksAgree, Thread
  <1>6. v = w
    <2>1. todo'[t] = todo[t] \ {v}
      BY <1>3 DEF Typed, TypeOK, ThreadTypes, Thread
    <2> QED
      BY <1>2, <1>3, <2>1
  <1>7. UNCHANGED <<heap, by_ref, created, thread_offset, newborn, actor_removals, fault,
                    pc, current>>
    BY <1>2 DEF RestartWorker, registryVars
  <1> QED
    BY <1>1, <1>2, <1>3, <1>5, <1>6, <1>7, OneForOneDoes DEF Resets

LEMMA ClearsDone ==
    ASSUME Typed, NEW t \in Worker, ClearPages(t)
    PROVE  fault = "none" /\ \E a \in Actor : Clears(t, a)
  <1>1. /\ pc[t] = "pop" /\ tasks[t] # <<>> /\ fault = "none"
        /\ Head(tasks[t]).type = "FREE_VM_STACK"
    BY DEF ClearPages, HandleFree, Pops, At, Runs
  <1>2. PICK a \in Actor : a = Head(tasks[t]).actor /\ Head(tasks[t]) = FreeTask(a)
    <2>1. Head(tasks[t]) \in Task
      BY <1>1, DequeueTypes DEF Typed, TypeOK, Thread
    <2> QED
      BY <1>1, <2>1 DEF Task, FreeTask
  <1>3. /\ tasks' = [tasks EXCEPT ![t] = Tail(@)]
        /\ pc' = [pc EXCEPT ![t] = "loop"]
        /\ fault' = IF heap[a] = "freed" THEN "useAfterFree" ELSE "none"
        /\ UNCHANGED <<current, context, heap, by_ref, created, raced, thread_offset, newborn,
                       actor_removals>>
    BY <1>2 DEF ClearPages, HandleFree, Dequeue, Goto, registryVars, objectVars
  <1>4. pages' = Without(pages, Chain(pages, Head(to_clear[t]))
                                 \ {End(pages, Head(to_clear[t]))})
    BY PagesAreChains DEF ClearPages, Release, Cleared, Above, Without, Live
  <1> QED
    BY <1>1, <1>2, <1>3, <1>4 DEF ClearPages, Clears, othersVars

LEMMA DestroysDone ==
    ASSUME Typed, NEW t \in Worker, DestroyPages(t)
    PROVE  fault = "none" /\ Destroys(t)
  <1>1. pages' = Without(pages, UNION {Chain(pages, saved[a]) : a \in actor_removals[t]})
    <2>1. \A a \in actor_removals[t] : PagesFrom(saved[a]) = Chain(pages, saved[a])
      BY PagesAreChains
    <2>2. UNION {PagesFrom(saved[a]) : a \in actor_removals[t]}
            = UNION {Chain(pages, saved[a]) : a \in actor_removals[t]}
      BY <2>1
    <2> QED
      BY <2>2 DEF DestroyPages, Release, Without, Live
  <1>2. t # Main
    BY ThreadAssumption
  <1>3. /\ \/ pc[t] = "loop" /\ pc' = [pc EXCEPT ![t] = "pop"]
           \/ pc[t] = "spin" /\ pc' = [pc EXCEPT ![t] = "ended"]
        /\ heap' = [a \in Actor |-> IF a \in actor_removals[t] THEN "freed" ELSE heap[a]]
        /\ fault = "none"
        /\ UNCHANGED <<current, context, tasks, by_ref, created, raced, thread_offset, newborn,
                       fault>>
    BY <1>2 DEF DestroyPages, PerformActorRemovals, FinalRemovals, FreeActors, At, Runs, Goto,
       registryVars, restVars
  <1> QED
    BY <1>1, <1>3 DEF DestroyPages, Destroys
-----------------------------------------------------------------------------
(* A worker is past no script, and the main thread runs no actor.          *)
MainRunsNothing == pc[Main] \notin RunningPhp \cup {"crash"}
NoScript == \A t \in Worker : pc[t] # "script"

LEMMA Joined ==
    ASSUME NEW q \in Seq(Task)
    PROVE  /\ q \o <<>> = q
           /\ \A x \in Task : q \o <<x>> = Append(q, x)
  OBVIOUS

LEMMA SameQueues ==
    ASSUME \A u \in Worker : tasks'[u] = tasks[u],
           \A u \in Worker : tasks[u] # <<>> /\ Idling(u) => Idling(u)',
           thread_offset' = thread_offset
    PROVE  CalmQueues
  BY ThreadAssumption DEF CalmQueues

LEMMA EnqueueIs ==
    ASSUME Typed, NEW o \in Worker, NEW x \in Task
    PROVE  /\ Enqueue(o, <<x>>) => /\ tasks'[o] = Append(tasks[o], x)
                                   /\ \A u \in Worker \ {o} : tasks'[u] = tasks[u]
           /\ Enqueue(o, <<>>) => \A u \in Worker : tasks'[u] = tasks[u]
  <1>1. tasks \in [Thread -> Seq(Task)] /\ Worker \subseteq Thread
    BY DEF Typed, TypeOK, QueueTypes, Thread
  <1>2. tasks[o] \in Seq(Task)
    BY <1>1
  <1>3. tasks[o] \o <<>> = tasks[o] /\ tasks[o] \o <<x>> = Append(tasks[o], x)
    BY <1>2, Joined
  <1> QED
    BY <1>1, <1>3 DEF Enqueue

(* PHP code that only changes tables, or asks for something.               *)
LEMMA CalmPhp ==
    ASSUME Typed, NoScript, NEW t \in Thread, UNCHANGED vmVars,
           t = Main => MainRunsNothing,
           \/ Create(t) \/ Schedule(t) \/ Promote(t) \/ Add(t) \/ Send(t) \/ WriteRef(t) \/ Shutdown(t)
           \/ BlockInCtor(t) \/ ReceiveBlock(t) \/ CtorReturn(t)
    PROVE  Calm /\ CalmQueues
  <1>1. Main \notin Worker /\ Worker \subseteq Thread
    BY ThreadAssumption DEF Thread
  <1>2. pc \in [Thread -> PC] /\ tasks \in [Thread -> Seq(Task)]
    BY DEF Typed, TypeOK, ThreadTypes, QueueTypes
  <1>3. ASSUME UNCHANGED <<pc, current, context, heap, raced>>, fault' = "none" => fault = "none",
               \A a \in Actor : a \in by_ref' => a \in by_ref \/ a \notin created
        PROVE  Calm
    BY <1>3 DEF Calm, Busy, Early
  <1>4. ASSUME UNCHANGED <<pc, tasks, thread_offset>> PROVE CalmQueues
    BY <1>4, SameQueues DEF Idling
  <1>5. CASE Create(t)
    <2>1. /\ UNCHANGED <<pc, current, context, raced, tasks, thread_offset, fault>>
          /\ \A a \in Actor : heap'[a] = "live" => heap[a] = "live"
          /\ \A a \in Actor : a \in by_ref' => a \in by_ref \/ a \notin created
      BY <1>5 DEF Create, Insert, queueVars, restVars, Typed, TypeOK, ObjectTypes
    <2> QED
      BY <2>1, <1>4 DEF Calm, Busy, Early
  <1>6. CASE Schedule(t)
    <2>1. PICK a \in Actor, o \in Worker :
            /\ newborn[t] = a
            /\ thread_offset' = [thread_offset EXCEPT ![a] = o]
            /\ Enqueue(o, <<NewTask(a)>>)
            /\ UNCHANGED <<pc, current, context, heap, raced, by_ref, fault>>
      BY <1>6 DEF Schedule, registryVars, objectVars, restVars
    <2>2. a \in Unscheduled
      BY <2>1, ActorAssumption DEF Unscheduled
    <2>3. NewTask(a) \in Task
      BY DEF Task, NewTask
    <2>4. /\ tasks'[o] = Append(tasks[o], NewTask(a))
          /\ \A u \in Worker \ {o} : tasks'[u] = tasks[u]
      BY <2>1, <2>3, EnqueueIs
    <2>5. CalmQueues
      BY <2>1, <2>2, <2>4 DEF CalmQueues, Idling
    <2> QED
      BY <1>3, <2>1, <2>5
  <1>7. CASE Promote(t) \/ WriteRef(t) \/ Shutdown(t) \/ BlockInCtor(t)
    <2>1. UNCHANGED <<pc, current, context, heap, raced, tasks, thread_offset, by_ref>>
      BY <1>7 DEF Promote, WriteRef, Shutdown, BlockInCtor, SupervisorConstruct, registryVars, objectVars,
         queueVars, threadVars, restVars
    <2>2. fault' = "none" => fault = "none"
      BY <1>7 DEF Promote, WriteRef, Shutdown, BlockInCtor, restVars
    <2> QED
      BY <1>3, <1>4, <2>1, <2>2
  <1>8. CASE Add(t)
    <2>1. /\ pc' = [pc EXCEPT ![t] = "walking"] \/ pc' = pc
          /\ pc[t] \in {"script", "ctor", "receive"}
          /\ UNCHANGED <<current, context, heap, raced, tasks, thread_offset, by_ref, fault>>
      BY <1>8 DEF Add, AddWorker, RunsPhp, Goto, objectVars, queueVars, restVars
    <2>2. \A u \in Worker : u # t => pc'[u] = pc[u]
      BY <1>1, <1>2, <2>1
    <2>3. t \in Worker => pc[t] \in {"ctor", "receive"} /\ pc'[t] \in {pc[t], "walking"}
      BY <1>1, <1>2, <2>1 DEF NoScript
    <2>4. Calm
      BY <2>1, <2>2, <2>3 DEF Calm, Busy, Early, RunningPhp
    <2>5. \A u \in Worker : Idling(u) => Idling(u)'
      BY <2>2, <2>3 DEF Idling
    <2> QED
      BY <2>1, <2>4, <2>5, SameQueues
  <1>9. CASE Send(t)
    <2>1. UNCHANGED <<pc, current, context, heap, raced, thread_offset, by_ref, fault>>
      BY <1>9 DEF Send, registryVars, objectVars, threadVars, restVars
    <2>2. \A u \in Worker : tasks'[u] = tasks[u]
      BY <1>1, <1>2, <1>9 DEF Send, Enqueue
    <2> QED
      BY <1>3, <2>1, <2>2, SameQueues DEF Idling
  <1>10. CASE ReceiveBlock(t)
    <2>1. /\ pc[t] = "receive" /\ pc' = [pc EXCEPT ![t] = "swap"]
          /\ Enqueue(thread_offset[current[t]], BlockTasks(current[t]))
          /\ UNCHANGED <<current, context, heap, raced, thread_offset, by_ref, fault>>
      BY <1>10 DEF ReceiveBlock, At, Goto, registryVars, restVars
    <2>2. t \in Worker /\ current[t] \in Actor
      BY <2>1, <1>1 DEF Thread, MainRunsNothing, RunningPhp, Typed, HasCurrent, Running
    <2>3. \A u \in Worker : pc'[u] = IF u = t THEN "swap" ELSE pc[u]
      BY <1>1, <1>2, <2>1
    <2>4. Calm
      BY <2>1, <2>3 DEF Calm, Busy, Early, RunningPhp
    <2>5. \A u \in Worker : Idling(u) => Idling(u)'
      BY <2>1, <2>3 DEF Idling
    <2>6. PICK o \in Worker : o = thread_offset[current[t]]
      BY <2>2 DEF Typed, TypeOK, QueueTypes
    <2>7. ResumeTask(current[t]) \in Task
      BY <2>2 DEF Task, ResumeTask
    <2>8. \/ \A u \in Worker : tasks'[u] = tasks[u]
          \/ /\ tasks'[o] = Append(tasks[o], ResumeTask(current[t]))
             /\ \A u \in Worker \ {o} : tasks'[u] = tasks[u]
      BY <2>1, <2>6, <2>7, EnqueueIs DEF BlockTasks
    <2>9. CalmQueues
      BY <2>1, <2>2, <2>5, <2>8, SameQueues DEF CalmQueues
    <2> QED
      BY <2>4, <2>9
  <1>11. CASE CtorReturn(t)
    <2>1. /\ pc[t] = "ctor"
          /\ \E label \in {"workers", "start"} : pc' = [pc EXCEPT ![t] = label]
          /\ UNCHANGED <<current, context, heap, raced, tasks, thread_offset, by_ref, fault>>
      BY <1>11 DEF CtorReturn, At, Goto, registryVars, objectVars, queueVars, restVars
    <2>2. \A u \in Worker : u # t => pc'[u] = pc[u]
      BY <1>1, <1>2, <2>1
    <2>3. t \in Worker => pc'[t] \in {"workers", "start"}
      BY <1>1, <1>2, <2>1
    <2>4. Calm
      BY <2>1, <2>2, <2>3 DEF Calm, Busy, Early, RunningPhp
    <2>5. \A u \in Worker : Idling(u) => Idling(u)'
      BY <2>1, <2>2 DEF Idling
    <2> QED
      BY <2>1, <2>4, <2>5, SameQueues
  <1> QED
    BY <1>5, <1>6, <1>7, <1>8, <1>9, <1>10, <1>11

LEMMA CalmRest ==
    ASSUME Typed, RightTasks, NEW t \in Thread, UNCHANGED vmVars,
           t = Main => MainRunsNothing,
           \/ CrashRemove(t) \/ CrashEscalate(t) \/ WorkersRestarted(t) \/ HandleSend(t)
           \/ Resume(t) \/ FindNothing(t) \/ CheckShutdown(t) \/ TouchFreed(t)
           \/ (t = Main /\ PerformActorRemovals(t))
    PROVE  Calm /\ CalmQueues
  <1>1. Main \notin Worker /\ Worker \subseteq Thread
    BY ThreadAssumption DEF Thread
  <1>2. pc \in [Thread -> PC] /\ tasks \in [Thread -> Seq(Task)]
    BY DEF Typed, TypeOK, ThreadTypes, QueueTypes
  <1>3. CASE CrashRemove(t) \/ CrashEscalate(t)
    <2>1. /\ pc[t] = "crash"
          /\ \E label \in {"loop", "crash"} : pc' = [pc EXCEPT ![t] = label]
          /\ \E x \in Actor \cup {NoActor} : current' = [current EXCEPT ![t] = x]
          /\ UNCHANGED <<context, heap, tasks, thread_offset, fault>>
          /\ by_ref' \subseteq by_ref /\ raced \subseteq raced'
      <3>1. CASE CrashRemove(t)
        BY <3>1 DEF CrashRemove, At, Remove, MarkForRemoval, Rest, Goto
      <3>2. CASE CrashEscalate(t)
        <4>1. boss[t] \in Actor \cup {NoActor}
          BY DEF Typed, TypeOK, ThreadTypes
        <4> QED
          BY <3>2, <4>1 DEF CrashEscalate, At, Crash, Goto, registryVars, queueVars, restVars
      <3> QED
        BY <1>3, <3>1, <3>2
    <2>2. /\ \A u \in Worker : u # t => pc'[u] = pc[u] /\ current'[u] = current[u]
          /\ pc'[t] \in {"loop", "crash"}
      BY <1>1, <1>2, <2>1 DEF Typed, TypeOK, ThreadTypes
    <2>3. Calm
      BY <2>1, <2>2 DEF Calm, Busy, Early, RunningPhp
    <2>4. \A u \in Worker : Idling(u) => Idling(u)'
      BY <2>1, <2>2 DEF Idling
    <2> QED
      BY <2>1, <2>3, <2>4, SameQueues
  <1>4. CASE WorkersRestarted(t) \/ Resume(t) \/ FindNothing(t) \/ CheckShutdown(t)
    <2>1. /\ \/ pc[t] = "workers" /\ pc' = [pc EXCEPT ![t] = "start"]
             \/ pc[t] = "resume" /\ pc' = [pc EXCEPT ![t] = "receive"]
             \/ pc[t] = "pop" /\ pc' = [pc EXCEPT ![t] = "check"] /\ tasks[t] = <<>>
             \/ pc[t] = "check" /\ \E label \in {"loop", "spin"} : pc' = [pc EXCEPT ![t] = label]
          /\ UNCHANGED <<current, context, heap, raced, tasks, thread_offset, by_ref>>
          /\ fault = "none"
      BY <1>4 DEF WorkersRestarted, Resume, FindNothing, CheckShutdown, At, Runs, Goto,
         registryVars, objectVars, queueVars, restVars
    <2>2. /\ \A u \in Worker : u # t => pc'[u] = pc[u]
          /\ \/ pc[t] = "workers" /\ pc'[t] = "start"
             \/ pc[t] = "resume" /\ pc'[t] = "receive"
             \/ pc[t] = "pop" /\ pc'[t] = "check" /\ tasks[t] = <<>>
             \/ pc[t] = "check" /\ pc'[t] \in {"loop", "spin"}
      BY <1>1, <1>2, <2>1
    <2>3. Calm
      BY <2>1, <2>2 DEF Calm, Busy, Early, RunningPhp
    <2>4. \A u \in Worker : tasks[u] # <<>> /\ Idling(u) => Idling(u)'
      BY <2>2 DEF Idling
    <2> QED
      BY <2>1, <2>3, <2>4, SameQueues
  <1>5. CASE HandleSend(t)
    <2>1. /\ pc[t] = "pop" /\ tasks[t] # <<>> /\ Head(tasks[t]).type = "SEND_MESSAGE"
          /\ pc' = [pc EXCEPT ![t] = "loop"]
          /\ UNCHANGED <<current, context, heap, raced, thread_offset, by_ref, fault>>
      BY <1>5 DEF HandleSend, Pops, At, Goto, registryVars, objectVars, restVars
    <2>2. t = Main
      BY <2>1, HeadIsRight DEF Typed
    <2>3. \A u \in Worker : pc'[u] = pc[u]
      BY <1>1, <1>2, <2>1, <2>2
    <2>4. Calm
      BY <2>1, <2>3 DEF Calm, Busy, Early
    <2>5. CASE \A u \in Worker : tasks'[u] = tasks[u]
      BY <2>1, <2>3, <2>4, <2>5, SameQueues DEF Idling
    <2>6. CASE \E u \in Worker : tasks'[u] # tasks[u]
      <3> DEFINE a == Lookup(Head(tasks[t]).to)
      <3>1. a # NoActor
        BY <1>1, <1>2, <1>5, <2>2, <2>6 DEF HandleSend, Dequeue
      <3>2. Head(tasks[t]).to \in Actor \cup Name
        BY <2>1, DequeueTypes, TaskFields DEF Typed, TypeOK
      <3>3. a \in Actor
        BY <3>1, <3>2 DEF Lookup, Typed, TypeOK, RegistryTypeOK
      <3>4. tasks' = [u \in Thread |->
                        (IF u = t THEN Tail(tasks[u]) ELSE tasks[u])
                        \o (IF u = thread_offset[a] THEN WakeTasks(a) ELSE <<>>)]
        BY <1>5, <3>1 DEF HandleSend
      <3>5. thread_offset[a] \in Worker /\ ResumeTask(a) \in Task
        BY <3>3 DEF Typed, TypeOK, QueueTypes, Task, ResumeTask
      <3> HIDE DEF a
      <3>6. \A u \in Worker : /\ u # thread_offset[a] => tasks'[u] = tasks[u] \o <<>>
                              /\ u = thread_offset[a] => tasks'[u] = tasks[u] \o WakeTasks(a)
        BY <1>1, <2>2, <3>4
      <3>7. \A u \in Worker : tasks[u] \in Seq(Task)
        BY <1>1, <1>2
      <3>8. \A u \in Worker : /\ u # thread_offset[a] => tasks'[u] = tasks[u]
                              /\ u = thread_offset[a] =>
                                   \/ tasks'[u] = tasks[u]
                                   \/ tasks'[u] = Append(tasks[u], ResumeTask(a))
        BY <3>5, <3>6, <3>7, Joined DEF WakeTasks
      <3>9. CalmQueues
        BY <2>1, <2>3, <3>3, <3>5, <3>8 DEF CalmQueues, Idling
      <3> QED
        BY <2>4, <3>9
    <2> QED
      BY <2>5, <2>6
  <1>6. CASE TouchFreed(t)
    <2>1. UNCHANGED <<pc, current, context, heap, raced, tasks, thread_offset, by_ref>>
      BY <1>6 DEF TouchFreed, registryVars, objectVars, queueVars, threadVars
    <2>2. fault = "none"
      BY <1>6 DEF TouchFreed
    <2> QED
      BY <2>1, <2>2, SameQueues DEF Calm, Busy, Early, Idling
  <1>7. CASE t = Main /\ PerformActorRemovals(t)
    <2>1. /\ pc' = [pc EXCEPT ![Main] = "pop"]
          /\ UNCHANGED <<current, context, heap, raced, tasks, thread_offset, by_ref, fault>>
      BY <1>7 DEF PerformActorRemovals, Goto, registryVars, restVars
    <2>2. \A u \in Worker : pc'[u] = pc[u]
      BY <1>1, <1>2, <2>1
    <2> QED
      BY <2>1, <2>2, SameQueues DEF Calm, Busy, Early, Idling
  <1> QED
    BY <1>3, <1>4, <1>5, <1>6, <1>7

LEMMA CalmEnds ==
    ASSUME Typed, UNCHANGED vmVars, MainStep \/ ScriptFails
    PROVE  Calm /\ CalmQueues
  <1>1. Main \notin Worker /\ Worker \subseteq Thread
    BY ThreadAssumption DEF Thread
  <1>2. pc \in [Thread -> PC]
    BY DEF Typed, TypeOK, ThreadTypes
  <1>3. /\ UNCHANGED <<current, context, heap, tasks, thread_offset>>
        /\ pc' = pc \/ \E label \in PC : pc' = [pc EXCEPT ![Main] = label]
        /\ by_ref' \subseteq by_ref /\ raced \subseteq raced'
        /\ fault = "none"
    BY DEF MainStep, ScriptEnds, SchedulerEnds, Join, ScriptFails, DestroyTables,
       MarkForRemoval, Goto, At, Runs, PC, registryVars, objectVars, queueVars, threadVars, restVars
  <1>4. \A u \in Worker : pc'[u] = pc[u]
    BY <1>1, <1>2, <1>3
  <1> QED
    BY <1>3, <1>4, SameQueues DEF Calm, Busy, Early, Idling

LEMMA CalmFailure ==
    ASSUME Typed, NEW t \in Worker, NEW a \in Actor, fault = "none",
           tasks[t] # <<>>, Head(tasks[t]) = ResumeTask(a),
           tasks' = [tasks EXCEPT ![t] = Tail(@)],
           UNCHANGED <<vmVars, pc, current, context, othersVars>>
    PROVE  Calm /\ CalmQueues
  <1>1. tasks \in [Thread -> Seq(Task)] /\ Worker \subseteq Thread
    BY DEF Typed, TypeOK, QueueTypes, Thread
  <1>2. tasks'[t] = Tail(tasks[t]) /\ \A u \in Worker \ {t} : tasks'[u] = tasks[u]
    BY <1>1
  <1>3. Calm
    BY DEF Calm, Busy, Early, othersVars
  <1> QED
    BY <1>2, <1>3 DEF CalmQueues, Idling, othersVars

LEMMA CalmMain ==
    ASSUME Typed, RightTasks, NoScript, MainRunsNothing, VmMainStep
    PROVE  Calm /\ CalmQueues
  <1>1. Main \in Thread /\ UNCHANGED vmVars
    BY DEF VmMainStep, Thread
  <1>2. CASE MainStep \/ ScriptFails
    BY <1>1, <1>2, CalmEnds
  <1>3. CASE Php(Main)
    <2>1. ~Swap(Main) /\ ~Throw(Main) /\ ~Return(Main)
      BY DEF Swap, Throw, Return, At, MainRunsNothing, RunningPhp
    <2> QED
      BY <1>1, <1>3, <2>1, CalmPhp DEF Php
  <1>4. CASE CrashHandling(Main)
    <2>1. ~CrashRestart(Main) /\ ~RestartWorker(Main)
      BY DEF CrashRestart, RestartWorker, At, MainRunsNothing, RunningPhp
    <2> QED
      BY <1>1, <1>4, <2>1, CalmRest DEF CrashHandling
  <1>5. CASE Loop(Main) \/ TouchFreed(Main)
    <2>1. ~StartReceive(Main)
      BY DEF StartReceive, At, MainRunsNothing, RunningPhp
    <2>2. ~HandleResume(Main) /\ ~HandleNew(Main) /\ ~HandleFree(Main)
      BY <1>1, HeadIsRight DEF HandleResume, HandleNew, HandleFree, Pops, Typed
    <2> QED
      BY <1>1, <1>5, <2>1, <2>2, CalmRest DEF Loop
  <1> QED
    BY <1>2, <1>3, <1>4, <1>5 DEF VmMainStep, ThreadStep

LEMMA CalmStutter ==
    ASSUME UNCHANGED <<vars, vmVars>>
    PROVE  Calm /\ CalmQueues
  <1>1. UNCHANGED <<pc, current, context, heap, raced, tasks, thread_offset, by_ref, fault>>
    BY DEF vars, registryVars, objectVars, queueVars, threadVars, restVars
  <1> QED
    BY <1>1, SameQueues DEF Calm, Busy, Early, Idling

(* Every step is one of these.                                             *)
SharpStep(t) ==
    \/ Enters(t) \/ Grows(t) \/ Shrinks(t) \/ Blocks(t) \/ Leaves(t) \/ LeavesCtor(t) \/ Destroys(t)
    \/ \E a \in Actor : MakesObject(t, a) \/ Reenters(t, a) \/ Clears(t, a)
    \/ \E w \in Actor : w \in created /\ Resets(t, w)

LEMMA StepsAre ==
    ASSUME Typed, AtHome, RightTasks, NoScript, MainRunsNothing, [VmNext]_<<vars, vmVars>>
    PROVE  (Calm /\ CalmQueues) \/ (fault = "none" /\ \E t \in Worker : SharpStep(t))
  <1>1. ASSUME NEW t \in Worker, VmWorkerStep(t)
        PROVE  (Calm /\ CalmQueues) \/ (fault = "none" /\ SharpStep(t))
    <2>1. CASE NewObject(t) \/ EnterReceive(t) \/ Grow(t) \/ Shrink(t) \/ Block(t)
      BY <2>1, MakesObjectDone, EntersDone, GrowsDone, ShrinksDone, BlocksDone DEF SharpStep
    <2>2. CASE LeaveReceive(t) \/ LeaveCtor(t) \/ ClearPages(t) \/ DestroyPages(t)
      BY <2>2, LeavesDone, LeavesCtorDone, ClearsDone, DestroysDone DEF SharpStep
    <2>3. CASE ResetCrashed(t) \/ ResetWorker(t)
      BY <2>3, ResetCrashedDone, ResetWorkerDone DEF SharpStep
    <2>4. CASE Reenter(t)
      BY <2>4, ReenterDone, CalmFailure DEF SharpStep
    <2>5. CASE Elsewhere(t)
      <3>1. t \in Thread /\ t # Main
        BY ThreadAssumption DEF Thread
      <3> QED
        BY <2>5, <3>1, CalmPhp, CalmRest DEF Elsewhere
    <2> QED
      BY <1>1, <2>1, <2>2, <2>3, <2>4, <2>5 DEF VmWorkerStep
  <1> QED
    BY <1>1, CalmMain, CalmStutter DEF VmNext
-----------------------------------------------------------------------------
(* Where the threads are: a worker is past the script, and the main thread *)
(* runs no actor.                                                          *)
Roles == NoScript /\ MainRunsNothing

LEMMA PcMoves ==
    ASSUME Typed, RightTasks, Roles, NEW t \in Thread, ThreadStep(t)
    PROVE  \/ pc' = pc
           \/ \E label \in PC \ {"script"} :
                /\ pc' = [pc EXCEPT ![t] = label]
                /\ t = Main => label \notin RunningPhp \cup {"crash"}
  <1>1. CASE Php(t)
    <2>1. t = Main => pc[t] \notin RunningPhp \cup {"crash"}
      BY DEF Roles, MainRunsNothing
    <2>2. CASE Create(t) \/ Schedule(t) \/ Promote(t) \/ Send(t) \/ WriteRef(t) \/ Shutdown(t) \/ BlockInCtor(t)
      BY <2>2 DEF Create, Schedule, Promote, Send, WriteRef, Shutdown, BlockInCtor, threadVars
    <2>3. CASE Add(t)
      BY <2>3 DEF Add, Goto, PC, RunningPhp
    <2>4. CASE ReceiveBlock(t) \/ Swap(t) \/ CtorReturn(t) \/ Return(t)
      BY <2>1, <2>4 DEF ReceiveBlock, Swap, CtorReturn, Return, At, Rest, Goto, PC, RunningPhp
    <2>5. CASE Throw(t)
      BY <2>1, <2>5 DEF Throw, At, Crash, Goto, PC, RunningPhp
    <2> QED
      BY <1>1, <2>2, <2>3, <2>4, <2>5 DEF Php
  <1>2. CASE CrashHandling(t)
    <2>1. t # Main
      BY <1>2 DEF CrashHandling, CrashRemove, CrashRestart, CrashEscalate, RestartWorker,
         WorkersRestarted, At, Roles, MainRunsNothing, RunningPhp
    <2>2. CASE CrashRemove(t) \/ CrashRestart(t) \/ RestartWorker(t) \/ WorkersRestarted(t)
      BY <2>1, <2>2 DEF CrashRemove, CrashRestart, RestartWorker, WorkersRestarted, Rest, Goto, PC
    <2>3. CASE CrashEscalate(t)
      BY <2>1, <2>3 DEF CrashEscalate, Crash, Goto, PC
    <2> QED
      BY <1>2, <2>2, <2>3 DEF CrashHandling
  <1>3. CASE Loop(t)
    <2>1. t = Main => pc[t] \notin RunningPhp \cup {"crash"}
      BY DEF Roles, MainRunsNothing
    <2>2. CASE PerformActorRemovals(t) \/ HandleSend(t) \/ HandleFree(t) \/ FindNothing(t)
               \/ CheckShutdown(t)
      <3>1. \E label \in {"pop", "loop", "check", "spin"} : Goto(t, label)
        BY <2>2 DEF PerformActorRemovals, HandleSend, HandleFree, FindNothing, CheckShutdown
      <3> QED
        BY <3>1 DEF Goto, PC, RunningPhp
    <2>3. CASE HandleResume(t) \/ HandleNew(t)
      <3>1. t # Main
        BY <2>3, HeadIsRight DEF HandleResume, HandleNew, Pops, Typed
      <3> QED
        BY <2>3, <3>1 DEF HandleResume, HandleNew, Goto, PC
    <2>4. CASE Resume(t) \/ StartReceive(t)
      BY <2>1, <2>4 DEF Resume, StartReceive, At, Goto, PC, RunningPhp
    <2> QED
      BY <1>3, <2>2, <2>3, <2>4 DEF Loop
  <1>4. CASE TouchFreed(t)
    BY <1>4 DEF TouchFreed, threadVars
  <1> QED
    BY <1>1, <1>2, <1>3, <1>4 DEF ThreadStep

LEMMA RolesAlways == Spec => []Roles
  <1>1. Init => Roles
    BY ThreadAssumption DEF Init, ThreadsInit, Roles, NoScript, MainRunsNothing, Thread, RunningPhp
  <1>2. ASSUME Typed, RightTasks, Roles, [Next]_vars
        PROVE  Roles'
    <2>1. pc \in [Thread -> PC] /\ Main \in Thread /\ Main \notin Worker /\ Worker \subseteq Thread
      BY <1>2, ThreadAssumption DEF Typed, TypeOK, ThreadTypes, Thread
    <2>2. ASSUME NEW t \in Thread, ThreadStep(t) PROVE Roles'
      BY <1>2, <2>1, <2>2, PcMoves DEF Roles, NoScript, MainRunsNothing
    <2>3. ASSUME NEW t \in Worker, WorkerEnds(t) PROVE Roles'
      <3>1. pc' = [pc EXCEPT ![t] = "ended"]
        BY <2>3 DEF WorkerEnds, FinalRemovals, Goto
      <3> QED
        BY <1>2, <2>1, <3>1 DEF Roles, NoScript, MainRunsNothing
    <2>4. CASE MainStep \/ ScriptFails
      <3>1. pc' = pc \/ \E label \in {"loop", "join", "ended"} : pc' = [pc EXCEPT ![Main] = label]
        BY <2>4 DEF MainStep, ScriptEnds, SchedulerEnds, Join, ScriptFails, Goto, threadVars
      <3> QED
        BY <1>2, <2>1, <3>1 DEF Roles, NoScript, MainRunsNothing, RunningPhp
    <2>5. CASE UNCHANGED vars
      BY <1>2, <2>5 DEF vars, threadVars, Roles, NoScript, MainRunsNothing
    <2> QED
      BY <1>2, <2>2, <2>3, <2>4, <2>5 DEF Next
  <1> QED
    BY <1>1, <1>2, TypedAlways, TasksAlwaysRight, PTL DEF Spec

-----------------------------------------------------------------------------
(* A page, if it is an object's, of an object made so far, and one that    *)
(* this object has taken: so the next page of an object is a new one.      *)
Fit(p, ob, dr) ==
    /\ p \in Page
    /\ p[2] = 0 => p[3] = 0
    /\ p[2] # 0 => /\ p[1] \in Actor
                   /\ p[2] <= ob[p[1]]
                   /\ p[2] = ob[p[1]] => p[3] <= dr[p[1]]

(* The page before a page is one of the same actor's objects; the first    *)
(* page of an object, and the page of a thread, have none.                 *)
FitTable(pg, ob, dr) ==
    /\ Grounded(pg)
    /\ \A p \in DOMAIN pg :
         /\ Fit(p, ob, dr)
         /\ pg[p] # NoPage => /\ Fit(pg[p], ob, dr)
                              /\ p[2] # 0 /\ p[3] # 0
                              /\ pg[p][1] = p[1] /\ pg[p][2] # 0

FitEngines(e, ob, dr) == e \in [Worker -> Page] /\ \A t \in Worker : Fit(e[t], ob, dr)
FitSaved(s, ob, dr) ==
    /\ s \in [Actor -> Page \cup {NoPage}]
    /\ \A a \in Actor : s[a] # NoPage => Fit(s[a], ob, dr) /\ s[a][1] = a /\ s[a][2] # 0
FitClears(c, ob, dr) ==
    /\ c \in [Worker -> Seq(Page)]
    /\ \A t \in Worker : \A i \in DOMAIN c[t] :
         Fit(c[t][i], ob, dr) /\ c[t][i][1] \in Actor /\ c[t][i][2] # 0

FitCounts(ob, dr) == ob \in [Actor -> Nat] /\ dr \in [Actor -> 0 .. MaxPages]

LEMMA PageIs ==
    ASSUME NEW p \in Page
    PROVE  /\ p = <<p[1], p[2], p[3]>>
           /\ p[1] \in Worker \cup Actor /\ p[2] \in Nat /\ p[3] \in 0 .. MaxPages
           /\ p # NoPage
  <1>1. MaxPages \in Nat
    BY MaxPagesAssumption
  <1>2. p = <<p[1], p[2], p[3]>> /\ p[1] \in Worker \cup Actor /\ p[2] \in Nat /\ p[3] \in 0 .. MaxPages
    BY <1>1 DEF Page
  <1>3. p[3] \in Nat
    BY <1>1, <1>2
  <1>4. <<p[1], p[2], p[3]>> \in (Worker \cup Actor) \X Nat \X Nat
    BY <1>2, <1>3
  <1> QED
    BY <1>2, <1>4, PageAssumption

LEMMA ActorPages ==
    ASSUME NEW a \in Actor, NEW k \in Nat, NEW n \in 0 .. MaxPages
    PROVE  <<a, k, n>> \in Page
  BY DEF Page

LEMMA OwnFits ==
    ASSUME NEW t \in Worker, NEW ob, NEW dr
    PROVE  Fit(Own(t), ob, dr) /\ Own(t)[2] = 0
  BY DEF Fit, Own, Page

(* The counts of an actor move on.                                         *)
LEMMA StillFit ==
    ASSUME NEW ob, NEW dr, FitCounts(ob, dr), NEW a \in Actor, NEW ob2, NEW dr2,
           FitCounts(ob2, dr2),
           \A b \in Actor : b # a => ob2[b] = ob[b] /\ dr2[b] = dr[b],
           \/ ob2[a] = ob[a] + 1
           \/ ob2[a] = ob[a] /\ dr2[a] = dr[a] + 1
    PROVE  \A p : Fit(p, ob, dr) => Fit(p, ob2, dr2)
  <1>1. ob \in [Actor -> Nat] /\ dr \in [Actor -> 0 .. MaxPages] /\ MaxPages \in Nat
    BY MaxPagesAssumption DEF FitCounts
  <1> SUFFICES ASSUME NEW p, Fit(p, ob, dr)
               PROVE  Fit(p, ob2, dr2)
    OBVIOUS
  <1>2. p \in Page /\ p[2] \in Nat /\ p[3] \in Nat
    <2>1. p \in Page
      BY DEF Fit
    <2> QED
      BY <1>1, <2>1, PageIs
  <1>3. CASE p[2] = 0
    BY <1>2, <1>3 DEF Fit
  <1>4. CASE p[2] # 0
    <2>1. /\ p[1] \in Actor /\ p[2] <= ob[p[1]]
          /\ p[2] = ob[p[1]] => p[3] <= dr[p[1]]
      BY <1>4 DEF Fit
    <2>2. CASE p[1] # a
      <3>1. ob2[p[1]] = ob[p[1]] /\ dr2[p[1]] = dr[p[1]]
        BY <2>1, <2>2
      <3> QED
        BY <1>2, <1>4, <2>1, <3>1 DEF Fit
    <2>3. CASE p[1] = a
      <3>1. ob[a] \in Nat /\ dr[a] \in Nat
        BY <1>1
      <3>2. p[2] <= ob2[a] /\ (p[2] = ob2[a] => p[3] <= dr2[a])
        BY <1>2, <2>1, <2>3, <3>1
      <3> QED
        BY <1>2, <1>4, <2>1, <2>3, <3>2 DEF Fit
    <2> QED
      BY <2>2, <2>3
  <1> QED
    BY <1>3, <1>4

(* The page that an object takes next is in no place yet.                  *)
LEMMA NewPage ==
    ASSUME NEW ob, NEW dr, FitCounts(ob, dr), NEW a \in Actor, NEW k \in Nat, NEW n \in Nat,
           \/ k = ob[a] + 1
           \/ k = ob[a] /\ k # 0 /\ n = dr[a] + 1
    PROVE  ~Fit(<<a, k, n>>, ob, dr)
  <1>1. ob[a] \in Nat /\ dr[a] \in Nat
    BY MaxPagesAssumption DEF FitCounts
  <1>2. <<a, k, n>>[1] = a /\ <<a, k, n>>[2] = k /\ <<a, k, n>>[3] = n
    OBVIOUS
  <1> QED
    BY <1>1, <1>2 DEF Fit

LEMMA ExtendedFits ==
    ASSUME NEW pg, NEW ob, NEW dr, FitTable(pg, ob, dr), NEW n, NEW v,
           ~Fit(n, ob, dr), NEW ob2, NEW dr2,
           \A p : Fit(p, ob, dr) => Fit(p, ob2, dr2),
           Fit(n, ob2, dr2), n # NoPage,
           v # NoPage => Fit(v, ob, dr) /\ n[2] # 0 /\ n[3] # 0 /\ v[1] = n[1] /\ v[2] # 0
    PROVE  /\ FitTable(Extended(pg, n, v), ob2, dr2)
           /\ n \notin DOMAIN pg /\ v # n /\ \A q \in DOMAIN pg : pg[q] # n
  <1>1. n \notin DOMAIN pg /\ v # n /\ \A q \in DOMAIN pg : pg[q] # n
    BY DEF FitTable
  <1>2. /\ DOMAIN Extended(pg, n, v) = DOMAIN pg \cup {n}
        /\ Extended(pg, n, v)[n] = v
        /\ \A q \in DOMAIN pg : Extended(pg, n, v)[q] = pg[q]
    BY <1>1 DEF Extended
  <1>3. Grounded(Extended(pg, n, v))
    BY <1>1, ExtensionDoes DEF FitTable
  <1>4. ASSUME NEW p \in DOMAIN pg \cup {n}
        PROVE  LET pg2 == Extended(pg, n, v) IN
               /\ Fit(p, ob2, dr2)
               /\ pg2[p] # NoPage => /\ Fit(pg2[p], ob2, dr2)
                                     /\ p[2] # 0 /\ p[3] # 0
                                     /\ pg2[p][1] = p[1] /\ pg2[p][2] # 0
    <2>1. CASE p = n
      BY <1>2, <2>1
    <2>2. CASE p # n
      BY <1>2, <1>4, <2>2 DEF FitTable
    <2> QED
      BY <2>1, <2>2
  <1> QED
    BY <1>1, <1>2, <1>3, <1>4 DEF FitTable

LEMMA WithoutFits ==
    ASSUME NEW pg, NEW ob, NEW dr, FitTable(pg, ob, dr), NEW S
    PROVE  FitTable(Without(pg, S), ob, dr)
  <1>1. Grounded(Without(pg, S))
    BY StillGrounded DEF FitTable
  <1> QED
    BY <1>1 DEF FitTable, Without

(* All pages of a chain are pages of one actor.                            *)
LEMMA ChainFits ==
    ASSUME NEW pg, NEW ob, NEW dr, FitTable(pg, ob, dr), NEW p \in DOMAIN pg
    PROVE  \A q \in Chain(pg, p) : /\ q \in DOMAIN pg /\ q[1] = p[1]
                                   /\ p[2] # 0 => q[2] # 0
  <1> DEFINE T == {q \in DOMAIN pg : q[1] = p[1] /\ (p[2] # 0 => q[2] # 0)}
  <1>1. Grounded(pg)
    BY DEF FitTable
  <1>2. ASSUME NEW r \in DOMAIN pg, r \in T, pg[r] \in DOMAIN pg
        PROVE  pg[r] \in T
    <2>1. pg[r] \in Page
      BY <1>2 DEF FitTable, Fit
    <2>2. pg[r] # NoPage
      BY <2>1, PageIs
    <2> QED
      BY <1>2, <2>2 DEF FitTable
  <1>3. p \in T
    OBVIOUS
  <1> HIDE DEF T
  <1>4. Chain(pg, p) \subseteq T
    BY <1>1, <1>2, <1>3, ChainWithin
  <1> QED
    BY <1>4 DEF T

LEMMA EndFits ==
    ASSUME NEW pg, NEW ob, NEW dr, FitTable(pg, ob, dr), NEW p, Fit(p, ob, dr), p[2] # 0
    PROVE  /\ Fit(End(pg, p), ob, dr)
           /\ End(pg, p)[1] = p[1] /\ End(pg, p)[2] # 0
  <1>1. CASE p \in DOMAIN pg
    <2>1. End(pg, p) \in Chain(pg, p)
      BY <1>1, EndIs DEF FitTable
    <2>2. /\ End(pg, p) \in DOMAIN pg /\ End(pg, p)[1] = p[1] /\ End(pg, p)[2] # 0
      BY <1>1, <2>1, ChainFits
    <2> QED
      BY <2>2 DEF FitTable
  <1>2. CASE p \notin DOMAIN pg
    BY <1>2 DEF End
  <1> QED
    BY <1>1, <1>2
-----------------------------------------------------------------------------
(* What is known of the pages at any time, and where.                      *)
Tabled ==
    /\ FitTable(pages, object, drawn)
    /\ FitEngines(engine, object, drawn)
    /\ FitSaved(saved, object, drawn)
    /\ FitClears(to_clear, object, drawn)
    /\ FitCounts(object, drawn)
    /\ overtaken \subseteq Actor \X Nat

(* A thread that runs an actor is on pages of its objects, and an actor    *)
(* with an internal object has been given a page and handed to a thread.   *)
Occupied == \A t \in Worker : Busy(t) =>
    /\ current[t] \in Actor /\ context[current[t]] # "none"
    /\ engine[t][1] = current[t] /\ engine[t][2] # 0
HasObject == \A a \in Actor : context[a] # "none" => saved[a] # NoPage /\ Started(a)
ClearsOwned == \A t \in Worker : \A i \in DOMAIN to_clear[t] : context[to_clear[t][i][1]] # "none"
EnginesHome == \A t \in Worker : engine[t][2] # 0 => Homely(engine[t][1], t)

(* The FREE_VM_STACK tasks in a queue are those of the pages to clear, and *)
(* each of them comes right before the NEW_ACTOR task of its restart.      *)
IsFree(task) == task.type = "FREE_VM_STACK"
Matches(f, q, c) ==
    /\ f \in [DOMAIN c -> DOMAIN q]
    /\ \A i, j \in DOMAIN c : i < j => f[i] < f[j]
    /\ \A j \in DOMAIN c : q[f[j]] = FreeTask(c[j][1])
    /\ \A i \in DOMAIN q : IsFree(q[i]) => \E j \in DOMAIN c : f[j] = i
Aligned(q, c) == \E f : Matches(f, q, c)
Paired(q) == \A i \in DOMAIN q : IsFree(q[i]) =>
    i + 1 \in DOMAIN q /\ q[i + 1] = NewTask(q[i].actor)
ClearsQueued == \A t \in Worker : Aligned(tasks[t], to_clear[t]) /\ Paired(tasks[t])

LEMMA EnginesChange ==
    ASSUME NEW e, NEW ob, NEW dr, FitEngines(e, ob, dr), NEW ob2, NEW dr2,
           \A p : Fit(p, ob, dr) => Fit(p, ob2, dr2)
    PROVE  /\ FitEngines(e, ob2, dr2)
           /\ \A t \in Worker : \A p : Fit(p, ob2, dr2) => FitEngines([e EXCEPT ![t] = p], ob2, dr2)
  BY DEF FitEngines, Fit

LEMMA SavedChange ==
    ASSUME NEW s, NEW ob, NEW dr, FitSaved(s, ob, dr), NEW ob2, NEW dr2,
           \A p : Fit(p, ob, dr) => Fit(p, ob2, dr2)
    PROVE  /\ FitSaved(s, ob2, dr2)
           /\ \A a \in Actor : \A p : Fit(p, ob2, dr2) /\ p[1] = a /\ p[2] # 0
                                    => FitSaved([s EXCEPT ![a] = p], ob2, dr2)
  BY DEF FitSaved, Fit

LEMMA ClearsChange ==
    ASSUME NEW c, NEW ob, NEW dr, FitClears(c, ob, dr)
    PROVE  /\ \A ob2, dr2 : (\A p : Fit(p, ob, dr) => Fit(p, ob2, dr2)) => FitClears(c, ob2, dr2)
           /\ \A t \in Worker : c[t] # <<>> => /\ FitClears([c EXCEPT ![t] = Tail(@)], ob, dr)
                                              /\ Fit(Head(c[t]), ob, dr)
                                              /\ Head(c[t])[1] \in Actor /\ Head(c[t])[2] # 0
                                              /\ Head(c[t]) = c[t][1] /\ 1 \in DOMAIN c[t]
           /\ \A t \in Worker : \A p : Fit(p, ob, dr) /\ p[1] \in Actor /\ p[2] # 0
                                    => FitClears([c EXCEPT ![t] = Append(@, p)], ob, dr)
  <1>1. \A ob2, dr2 : (\A p : Fit(p, ob, dr) => Fit(p, ob2, dr2)) => FitClears(c, ob2, dr2)
    BY DEF FitClears
  <1>2. c \in [Worker -> Seq(Page)]
    BY DEF FitClears
  <1>3. ASSUME NEW t \in Worker, c[t] # <<>>
        PROVE  /\ FitClears([c EXCEPT ![t] = Tail(@)], ob, dr)
               /\ Fit(Head(c[t]), ob, dr)
               /\ Head(c[t])[1] \in Actor /\ Head(c[t])[2] # 0
               /\ Head(c[t]) = c[t][1] /\ 1 \in DOMAIN c[t]
    <2>1. c[t] \in Seq(Page)
      BY <1>2
    <2>2. /\ Tail(c[t]) \in Seq(Page) /\ Head(c[t]) = c[t][1] /\ 1 \in DOMAIN c[t]
          /\ \A i \in DOMAIN Tail(c[t]) : i + 1 \in DOMAIN c[t] /\ Tail(c[t])[i] = c[t][i + 1]
      BY <1>3, <2>1
    <2>3. Fit(c[t][1], ob, dr) /\ c[t][1][1] \in Actor /\ c[t][1][2] # 0
      BY <2>2 DEF FitClears
    <2> DEFINE c2 == [c EXCEPT ![t] = Tail(@)]
    <2>4. c2 \in [Worker -> Seq(Page)]
      BY <1>2, <2>2
    <2>5. ASSUME NEW u \in Worker, NEW i \in DOMAIN c2[u]
          PROVE  Fit(c2[u][i], ob, dr) /\ c2[u][i][1] \in Actor /\ c2[u][i][2] # 0
      <3>1. CASE u = t
        <4>1. c2[u] = Tail(c[t])
          BY <1>2, <3>1
        <4>2. i + 1 \in DOMAIN c[t] /\ c2[u][i] = c[t][i + 1]
          BY <2>2, <2>5, <4>1
        <4> QED
          BY <4>2 DEF FitClears
      <3>2. CASE u # t
        <4>1. c2[u] = c[u]
          BY <1>2, <3>2
        <4> QED
          BY <2>5, <4>1 DEF FitClears
      <3> QED
        BY <3>1, <3>2
    <2> QED
      BY <2>2, <2>3, <2>4, <2>5 DEF FitClears
  <1>4. ASSUME NEW t \in Worker, NEW p, Fit(p, ob, dr), p[1] \in Actor, p[2] # 0
        PROVE  FitClears([c EXCEPT ![t] = Append(@, p)], ob, dr)
    <2>1. c[t] \in Seq(Page) /\ p \in Page
      BY <1>2, <1>4 DEF Fit
    <2>2. /\ Append(c[t], p) \in Seq(Page)
          /\ \A i \in DOMAIN Append(c[t], p) :
               (i \in DOMAIN c[t] /\ Append(c[t], p)[i] = c[t][i]) \/ Append(c[t], p)[i] = p
      BY <2>1
    <2> DEFINE c2 == [c EXCEPT ![t] = Append(@, p)]
    <2>3. c2 \in [Worker -> Seq(Page)]
      BY <1>2, <2>2
    <2>4. ASSUME NEW u \in Worker, NEW i \in DOMAIN c2[u]
          PROVE  Fit(c2[u][i], ob, dr) /\ c2[u][i][1] \in Actor /\ c2[u][i][2] # 0
      <3>1. CASE u = t
        <4>1. c2[u] = Append(c[t], p)
          BY <1>2, <3>1
        <4>2. (i \in DOMAIN c[t] /\ c2[u][i] = c[t][i]) \/ c2[u][i] = p
          BY <2>2, <2>4, <4>1
        <4> QED
          BY <1>4, <4>2 DEF FitClears
      <3>2. CASE u # t
        <4>1. c2[u] = c[u]
          BY <1>2, <3>2
        <4> QED
          BY <2>4, <4>1 DEF FitClears
      <3> QED
        BY <3>1, <3>2
    <2> QED
      BY <2>3, <2>4 DEF FitClears
  <1> QED
    BY <1>1, <1>3, <1>4

LEMMA SameFit ==
    ASSUME Tabled
    PROVE  /\ \A t \in Worker : \A p : Fit(p, object, drawn)
                                     => FitEngines([engine EXCEPT ![t] = p], object, drawn)
           /\ \A a \in Actor : \A p : Fit(p, object, drawn) /\ p[1] = a /\ p[2] # 0
                                    => FitSaved([saved EXCEPT ![a] = p], object, drawn)
  BY EnginesChange, SavedChange DEF Tabled

(* The page of a NEW_ACTOR task and the next one of receive() are new.     *)
LEMMA MadePage ==
    ASSUME Tabled, NEW t \in Worker, NEW a \in Actor, MakesObject(t, a)
    PROVE  LET p == <<a, object[a] + 1, 0>> IN
           /\ FitCounts(object', drawn')
           /\ \A q : Fit(q, object, drawn) => Fit(q, object', drawn')
           /\ ~Fit(p, object, drawn)
           /\ Fit(p, object', drawn')
           /\ p \notin Live /\ p # NoPage
  <1> DEFINE p == <<a, object[a] + 1, 0>>
  <1>1. object \in [Actor -> Nat] /\ drawn \in [Actor -> 0 .. MaxPages] /\ MaxPages \in Nat
    BY MaxPagesAssumption DEF Tabled, FitCounts
  <1>2. object' = [object EXCEPT ![a] = @ + 1] /\ drawn' = [drawn EXCEPT ![a] = 0]
    BY DEF MakesObject
  <1>3. FitCounts(object', drawn') /\ \A q : Fit(q, object, drawn) => Fit(q, object', drawn')
    <2>1. FitCounts(object, drawn)
      BY DEF Tabled
    <2>2. FitCounts(object', drawn')
      BY <1>1, <1>2 DEF FitCounts
    <2>3. /\ \A b \in Actor : b # a => object'[b] = object[b] /\ drawn'[b] = drawn[b]
          /\ object'[a] = object[a] + 1
      BY <1>1, <1>2
    <2> HIDE DEF p
    <2> QED
      BY <2>1, <2>2, <2>3, StillFit
  <1>4. ~Fit(p, object, drawn)
    <2>1. object[a] + 1 \in Nat /\ 0 \in Nat
      BY <1>1
    <2> QED
      BY <2>1, NewPage DEF Tabled
  <1>5. p \in Page
    <2>1. object[a] + 1 \in Nat /\ 0 \in 0 .. MaxPages
      BY <1>1
    <2> QED
      BY <2>1, ActorPages
  <1>6. Fit(p, object', drawn')
    <2>1. object'[a] = object[a] + 1 /\ drawn'[a] = 0 /\ object[a] \in Nat
      BY <1>1, <1>2
    <2>2. p[1] = a /\ p[2] = object[a] + 1 /\ p[3] = 0
      OBVIOUS
    <2> HIDE DEF p
    <2> QED
      BY <1>5, <2>1, <2>2 DEF Fit
  <1> HIDE DEF p
  <1>7. p \notin Live
    <2>1. \A q \in Live : Fit(q, object, drawn)
      BY DEF Tabled, FitTable, Live
    <2> QED
      BY <1>4, <2>1
  <1>8. p # NoPage
    BY <1>5, PageIs
  <1> QED
    BY <1>3, <1>4, <1>6, <1>7, <1>8 DEF p

LEMMA GrownPage ==
    ASSUME Tabled, Occupied, NEW t \in Worker, Grows(t)
    PROVE  LET p == <<current[t], object[current[t]], drawn[current[t]] + 1>> IN
           /\ FitCounts(object', drawn')
           /\ \A q : Fit(q, object, drawn) => Fit(q, object', drawn')
           /\ ~Fit(p, object, drawn)
           /\ Fit(p, object', drawn')
           /\ p \notin Live /\ p # NoPage /\ p[2] # 0 /\ p[3] # 0
           /\ Fit(engine[t], object, drawn) /\ engine[t][1] = p[1] /\ engine[t][2] # 0
  <1>1. PICK a \in Actor : a = current[t] /\ drawn[a] < MaxPages
    BY DEF Grows
  <1> DEFINE p == <<a, object[a], drawn[a] + 1>>
  <1>2. object \in [Actor -> Nat] /\ drawn \in [Actor -> 0 .. MaxPages] /\ MaxPages \in Nat
    BY MaxPagesAssumption DEF Tabled, FitCounts
  <1>3. object' = object /\ drawn' = [drawn EXCEPT ![a] = @ + 1]
    BY <1>1 DEF Grows
  <1>4. FitCounts(object', drawn') /\ \A q : Fit(q, object, drawn) => Fit(q, object', drawn')
    <2>1. FitCounts(object, drawn)
      BY DEF Tabled
    <2>2. FitCounts(object', drawn')
      BY <1>1, <1>2, <1>3 DEF FitCounts
    <2>3. /\ \A b \in Actor : b # a => object'[b] = object[b] /\ drawn'[b] = drawn[b]
          /\ object'[a] = object[a] /\ drawn'[a] = drawn[a] + 1
      BY <1>2, <1>3
    <2> HIDE DEF p
    <2> QED
      BY <2>1, <2>2, <2>3, StillFit
  <1>5. Fit(engine[t], object, drawn) /\ engine[t][1] = a /\ engine[t][2] # 0
    BY <1>1 DEF Grows, Tabled, FitEngines, Occupied, Busy, RunningPhp
  <1>6. object[a] \in Nat /\ drawn[a] \in Nat /\ drawn[a] + 1 \in 0 .. MaxPages
    BY <1>1, <1>2
  <1>7. object[a] # 0
    <2>1. engine[t][2] \in Nat
      BY <1>5, PageIs DEF Fit
    <2>2. engine[t][2] <= object[a]
      BY <1>5 DEF Fit
    <2> QED
      BY <1>5, <1>6, <2>1, <2>2
  <1>8. ~Fit(p, object, drawn)
    <2>1. drawn[a] + 1 \in Nat
      BY <1>6
    <2> QED
      BY <1>6, <1>7, <2>1, NewPage DEF Tabled
  <1>9. p \in Page
    BY <1>6, ActorPages
  <1>10. p[1] = a /\ p[2] = object[a] /\ p[3] = drawn[a] + 1
    OBVIOUS
  <1>11. Fit(p, object', drawn')
    <2>1. object'[a] = object[a] /\ drawn'[a] = drawn[a] + 1
      BY <1>2, <1>3
    <2> HIDE DEF p
    <2> QED
      BY <1>6, <1>7, <1>9, <1>10, <2>1 DEF Fit
  <1>13. p[3] # 0 /\ p[2] # 0 /\ engine[t][1] = p[1]
    BY <1>5, <1>6, <1>7, <1>10
  <1> HIDE DEF p
  <1>12. p \notin Live /\ p # NoPage
    <2>1. \A q \in Live : Fit(q, object, drawn)
      BY DEF Tabled, FitTable, Live
    <2>2. p \notin Live
      BY <1>8, <2>1
    <2>3. p # NoPage
      BY <1>9, PageIs
    <2> QED
      BY <2>2, <2>3
  <1> QED
    BY <1>1, <1>4, <1>5, <1>8, <1>11, <1>12, <1>13 DEF p
-----------------------------------------------------------------------------
(* The pages are known of after each step.                                 *)
Housed == Tabled /\ Occupied /\ HasObject /\ ClearsOwned /\ EnginesHome

(* The case of a thread t that moves alone, and makes no object vanish.    *)
LEMMA OthersHoused ==
    ASSUME Typed, Housed, Settled, Tabled', NEW t \in Worker,
           \A u \in Worker \ {t} : /\ pc'[u] = pc[u] /\ current'[u] = current[u]
                                   /\ engine'[u] = engine[u],
           \A a \in Actor : context[a] # "none" => context'[a] # "none",
           Busy(t)' => /\ current'[t] \in Actor /\ context'[current'[t]] # "none"
                       /\ engine'[t][1] = current'[t] /\ engine'[t][2] # 0,
           engine'[t][2] # 0 => Homely(engine'[t][1], t),
           \A a \in Actor : context'[a] # "none" => saved'[a] # NoPage /\ Started(a),
           \A u \in Worker : \A i \in DOMAIN to_clear'[u] : context[to_clear'[u][i][1]] # "none"
    PROVE  Housed'
  <1>1. Occupied'
    <2> SUFFICES ASSUME NEW u \in Worker, Busy(u)'
                 PROVE  /\ current'[u] \in Actor /\ context'[current'[u]] # "none"
                        /\ engine'[u][1] = current'[u] /\ engine'[u][2] # 0
      BY DEF Occupied
    <2>1. CASE u = t
      BY <2>1
    <2>2. CASE u # t
      <3>1. Busy(u)
        BY <2>2 DEF Busy
      <3> QED
        BY <2>2, <3>1 DEF Housed, Occupied
    <2> QED
      BY <2>1, <2>2
  <1>2. HasObject'
    BY DEF HasObject, Settled
  <1>3. ClearsOwned'
    <2>1. ASSUME NEW u \in Worker, NEW i \in DOMAIN to_clear'[u]
          PROVE  context'[to_clear'[u][i][1]] # "none"
      <3>1. to_clear'[u][i][1] \in Actor
        BY DEF Tabled, FitClears
      <3> QED
        BY <3>1
    <2> QED
      BY <2>1 DEF ClearsOwned
  <1>4. EnginesHome'
    <2>1. ASSUME NEW u \in Worker, engine'[u][2] # 0
          PROVE  Homely(engine[u][1], u)'
      <3>1. engine'[u][1] \in Actor /\ u \in Thread
        BY <2>1 DEF Tabled, FitEngines, Fit, Thread
      <3>2. PICK a \in Actor : a = engine'[u][1]
        BY <3>1
      <3>3. Homely(a, u)
        <4>1. CASE u = t
          BY <2>1, <3>2, <4>1
        <4>2. CASE u # t
          BY <2>1, <3>2, <4>2 DEF Housed, EnginesHome
        <4> QED
          BY <4>1, <4>2
      <3>4. Homely(a, u)'
        BY <3>1, <3>3 DEF Settled
      <3> QED
        BY <3>2, <3>4 DEF Homely, Started
    <2> QED
      BY <2>1 DEF EnginesHome
  <1> QED
    BY <1>1, <1>2, <1>3, <1>4 DEF Housed

LEMMA CalmHoused ==
    ASSUME Typed, Housed, Settled, Calm
    PROVE  Housed'
  <1>1. UNCHANGED <<pages, engine, saved, to_clear, object, drawn, overtaken, context>>
    BY DEF Calm, vmVars
  <1>2. Tabled'
    BY <1>1 DEF Housed, Tabled
  <1>3. Occupied'
    BY <1>1 DEF Calm, Housed, Occupied
  <1>4. HasObject' /\ ClearsOwned'
    BY <1>1 DEF Housed, HasObject, ClearsOwned, Settled
  <1>5. EnginesHome'
    <2>1. ASSUME NEW u \in Worker, engine[u][2] # 0
          PROVE  Homely(engine[u][1], u)'
      <3>1. engine[u][1] \in Actor /\ u \in Thread
        BY <2>1 DEF Housed, Tabled, FitEngines, Fit, Thread
      <3>2. PICK a \in Actor : a = engine[u][1]
        BY <3>1
      <3>3. Homely(a, u)'
        BY <2>1, <3>1, <3>2 DEF Settled, Housed, EnginesHome
      <3> QED
        BY <1>1, <3>2, <3>3 DEF Homely, Started
    <2> QED
      BY <1>1, <2>1 DEF EnginesHome
  <1> QED
    BY <1>2, <1>3, <1>4, <1>5 DEF Housed

(* The actor of a task at the head of a queue, or run, is at home there.   *)
LEMMA HeadHomely ==
    ASSUME Typed, AtHome, NEW t \in Worker, NEW a \in Actor, tasks[t] # <<>>,
           Head(tasks[t]) \in {ResumeTask(a), NewTask(a), FreeTask(a)}
    PROVE  Homely(a, t)
  <1>1. t \in Thread /\ tasks[t] \in Seq(Task)
    BY DEF Typed, TypeOK, QueueTypes, Thread
  <1>2. 1 \in DOMAIN tasks[t] /\ tasks[t][1] = Head(tasks[t])
    BY <1>1
  <1>3. AwaitsTask(a, t)
    BY <1>2 DEF AwaitsTask, Queued
  <1> QED
    BY <1>1, <1>3 DEF AtHome, Confined

LEMMA RunHomely ==
    ASSUME Typed, AtHome, Occupied, NEW t \in Worker, Busy(t)
    PROVE  current[t] \in Actor /\ Homely(current[t], t)
  <1>1. t \in Thread /\ current[t] \in Actor /\ RunsOn(current[t], t)
    BY DEF Occupied, Busy, RunningPhp, RunsOn, Thread
  <1> QED
    BY <1>1 DEF AtHome, Confined
-----------------------------------------------------------------------------
LEMMA MakesObjectHoused ==
    ASSUME Typed, AtHome, Housed, Settled, NEW t \in Worker, NEW a \in Actor, MakesObject(t, a)
    PROVE  Housed'
  <1>0. Tabled
    BY DEF Housed
  <1>1. PICK p : p = <<a, object[a] + 1, 0>>
    OBVIOUS
  <1>2. /\ FitCounts(object', drawn')
        /\ \A q : Fit(q, object, drawn) => Fit(q, object', drawn')
        /\ ~Fit(p, object, drawn)
        /\ Fit(p, object', drawn')
        /\ p \notin Live /\ p # NoPage
    BY <1>0, <1>1, MadePage
  <1>3. p[1] = a /\ p[2] # 0
    <2>1. object[a] + 1 # 0
      BY <1>0 DEF Tabled, FitCounts
    <2> QED
      BY <1>1, <2>1
  <1>4. /\ pages' = Extended(pages, p, NoPage)
        /\ engine' = [engine EXCEPT ![t] = p]
        /\ saved' = (IF a \in by_ref THEN [saved EXCEPT ![a] = p] ELSE saved)
        /\ to_clear' = to_clear /\ overtaken' = overtaken
    BY <1>1 DEF MakesObject
  <1>5. Tabled'
    <2>1. FitTable(pages', object', drawn')
      BY <1>0, <1>2, <1>4, ExtendedFits DEF Tabled
    <2>2. FitEngines(engine', object', drawn')
      BY <1>0, <1>2, <1>4, EnginesChange DEF Tabled
    <2>3. FitSaved(saved', object', drawn')
      BY <1>0, <1>2, <1>3, <1>4, SavedChange DEF Tabled
    <2>4. FitClears(to_clear', object', drawn')
      <3>1. FitClears(to_clear, object, drawn)
        BY <1>0 DEF Tabled
      <3> QED
        BY <1>2, <1>4, <3>1, ClearsChange
    <2> QED
      BY <1>0, <1>2, <1>4, <2>1, <2>2, <2>3, <2>4 DEF Tabled
  <1>6. engine'[t] = p /\ \A u \in Worker \ {t} : engine'[u] = engine[u]
    BY <1>0, <1>4 DEF Tabled, FitEngines
  <1>7. /\ pc' = [pc EXCEPT ![t] = IF a \in by_ref THEN "ctor" ELSE "loop"]
        /\ a \in by_ref => /\ context' = [context EXCEPT ![a] = "blank"]
                           /\ current' = [current EXCEPT ![t] = a]
        /\ a \notin by_ref => UNCHANGED <<context, current>>
    BY DEF MakesObject
  <1>8. /\ t \in Thread /\ Worker \subseteq Thread
        /\ pc \in [Thread -> PC] /\ current \in [Thread -> Actor \cup {NoActor}]
        /\ context \in [Actor -> Context]
    BY DEF Typed, TypeOK, ThreadTypes, ObjectTypes, Thread
  <1>9. \A u \in Worker \ {t} : pc'[u] = pc[u] /\ current'[u] = current[u] /\ engine'[u] = engine[u]
    BY <1>6, <1>7, <1>8
  <1>10. \A b \in Actor : context[b] # "none" => context'[b] # "none"
    BY <1>7, <1>8
  <1>11. Busy(t)' => /\ current'[t] \in Actor /\ context'[current'[t]] # "none"
                     /\ engine'[t][1] = current'[t] /\ engine'[t][2] # 0
    <2>1. CASE a \in by_ref
      BY <1>3, <1>6, <1>7, <1>8, <2>1
    <2>2. CASE a \notin by_ref
      BY <1>7, <1>8, <2>2 DEF Busy, RunningPhp
    <2> QED
      BY <2>1, <2>2
  <1>12. Homely(a, t)
    BY HeadHomely DEF MakesObject
  <1>13. \A b \in Actor : context'[b] # "none" => saved'[b] # NoPage /\ Started(b)
    <2>1. saved \in [Actor -> Page \cup {NoPage}]
      BY <1>0 DEF Tabled, FitSaved
    <2>2. \A b \in Actor : b # a \/ a \notin by_ref => saved'[b] = saved[b] /\ context'[b] = context[b]
      BY <1>4, <1>7, <1>8, <2>1
    <2>3. a \in by_ref => saved'[a] = p
      BY <1>4, <2>1
    <2>4. Started(a)
      BY <1>12 DEF Homely
    <2> QED
      BY <1>2, <2>2, <2>3, <2>4 DEF Housed, HasObject
  <1> QED
    BY <1>3, <1>4, <1>5, <1>6, <1>9, <1>10, <1>11, <1>12, <1>13, OthersHoused DEF Housed, ClearsOwned

(* A thread that changes only its own place and page, onto a page there is *)
(* or that of an actor which is at home on it.                             *)
LEMMA PlainHoused ==
    ASSUME Typed, Housed, Settled, Tabled', NEW t \in Worker,
           \A u \in Worker \ {t} : /\ pc'[u] = pc[u] /\ current'[u] = current[u]
                                   /\ engine'[u] = engine[u],
           \A a \in Actor : context'[a] # "none" <=> context[a] # "none",
           Busy(t)' => /\ current'[t] \in Actor /\ context[current'[t]] # "none"
                       /\ engine'[t][1] = current'[t] /\ engine'[t][2] # 0,
           engine'[t][2] # 0 => Homely(engine'[t][1], t),
           \A a \in Actor : saved[a] # NoPage => saved'[a] # NoPage,
           \A u \in Worker : \A i \in DOMAIN to_clear'[u] : context[to_clear'[u][i][1]] # "none"
    PROVE  Housed'
  <1>1. \A a \in Actor : context'[a] # "none" => saved'[a] # NoPage /\ Started(a)
    BY DEF Housed, HasObject
  <1>2. Busy(t)' => /\ current'[t] \in Actor /\ context'[current'[t]] # "none"
                    /\ engine'[t][1] = current'[t] /\ engine'[t][2] # 0
    OBVIOUS
  <1> QED
    BY <1>1, <1>2, OthersHoused
-----------------------------------------------------------------------------
LEMMA Shapes ==
    ASSUME Typed, Tabled
    PROVE  /\ Worker \subseteq Thread
           /\ pc \in [Thread -> PC] /\ current \in [Thread -> Actor \cup {NoActor}]
           /\ context \in [Actor -> Context] /\ tasks \in [Thread -> Seq(Task)]
           /\ thread_offset \in [Actor -> Worker]
           /\ heap \in [Actor -> {"none", "live", "freed"}]
           /\ created \subseteq Actor
           /\ engine \in [Worker -> Page] /\ saved \in [Actor -> Page \cup {NoPage}]
           /\ to_clear \in [Worker -> Seq(Page)]
           /\ object \in [Actor -> Nat] /\ drawn \in [Actor -> 0 .. MaxPages]
  BY DEF Typed, TypeOK, RegistryTypeOK, ThreadTypes, ObjectTypes, QueueTypes, Thread, Tabled,
     FitEngines, FitSaved, FitClears, FitCounts

LEMMA EntersHoused ==
    ASSUME Typed, AtHome, Housed, Settled, NEW t \in Worker, Enters(t)
    PROVE  Housed'
  <1>0. Tabled
    BY DEF Housed
  <1>1. PICK a \in Actor : a = current[t] /\ context[a] # "none" /\ Homely(a, t)
    BY RunHomely DEF Housed, Occupied, Busy, RunningPhp, Enters
  <1>2. saved[a] # NoPage /\ Fit(saved[a], object, drawn) /\ saved[a][1] = a /\ saved[a][2] # 0
    BY <1>0, <1>1 DEF Housed, HasObject, Tabled, FitSaved
  <1>3. engine' = [engine EXCEPT ![t] = saved[a]] /\ pc' = [pc EXCEPT ![t] = "receive"]
    BY <1>1 DEF Enters
  <1>4. UNCHANGED <<current, context, pages, saved, to_clear, object, drawn, overtaken>>
    BY DEF Enters
  <1>5. Tabled'
    <2>1. FitEngines(engine', object, drawn)
      BY <1>0, <1>2, <1>3, SameFit
    <2> QED
      BY <1>0, <1>4, <2>1 DEF Tabled
  <1>6. \A u \in Worker \ {t} : /\ pc'[u] = pc[u] /\ current'[u] = current[u]
                                /\ engine'[u] = engine[u]
    BY <1>0, <1>3, <1>4, Shapes
  <1>7. engine'[t] = saved[a]
    BY <1>0, <1>3, Shapes
  <1> QED
    BY <1>1, <1>2, <1>4, <1>5, <1>6, <1>7, PlainHoused DEF Housed, ClearsOwned

LEMMA ReentersHoused ==
    ASSUME Typed, AtHome, Housed, Settled, NEW t \in Worker, NEW a \in Actor, Reenters(t, a)
    PROVE  Housed'
  <1>0. Tabled
    BY DEF Housed
  <1>1. context[a] = "saved" /\ Homely(a, t)
    BY HeadHomely DEF Reenters
  <1>2. saved[a] # NoPage /\ Fit(saved[a], object, drawn) /\ saved[a][1] = a /\ saved[a][2] # 0
    BY <1>0, <1>1 DEF Housed, HasObject, Tabled, FitSaved
  <1>3. /\ engine' = [engine EXCEPT ![t] = saved[a]] /\ pc' = [pc EXCEPT ![t] = "resume"]
        /\ current' = [current EXCEPT ![t] = a] /\ context' = [context EXCEPT ![a] = "stale"]
    BY DEF Reenters
  <1>4. UNCHANGED <<pages, saved, to_clear, object, drawn, overtaken>>
    BY DEF Reenters
  <1>5. Tabled'
    <2>1. FitEngines(engine', object, drawn)
      BY <1>0, <1>2, <1>3, SameFit
    <2> QED
      BY <1>0, <1>4, <2>1 DEF Tabled
  <1>6. \A u \in Worker \ {t} : /\ pc'[u] = pc[u] /\ current'[u] = current[u]
                                /\ engine'[u] = engine[u]
    BY <1>0, <1>3, Shapes
  <1>7. /\ engine'[t] = saved[a] /\ current'[t] = a
        /\ \A b \in Actor : context'[b] # "none" <=> context[b] # "none"
    BY <1>0, <1>1, <1>3, Shapes
  <1> QED
    BY <1>1, <1>2, <1>4, <1>5, <1>6, <1>7, PlainHoused DEF Housed, ClearsOwned

LEMMA GrowsHoused ==
    ASSUME Typed, AtHome, Housed, Settled, NEW t \in Worker, Grows(t)
    PROVE  Housed'
  <1>0. Tabled /\ Occupied
    BY DEF Housed
  <1>1. PICK a \in Actor : a = current[t] /\ context[a] # "none" /\ Homely(a, t)
    BY RunHomely DEF Housed, Occupied, Busy, RunningPhp, Grows
  <1>2. PICK p : p = <<current[t], object[current[t]], drawn[current[t]] + 1>>
    OBVIOUS
  <1>3. /\ FitCounts(object', drawn')
        /\ \A q : Fit(q, object, drawn) => Fit(q, object', drawn')
        /\ ~Fit(p, object, drawn)
        /\ Fit(p, object', drawn')
        /\ p \notin Live /\ p # NoPage /\ p[2] # 0 /\ p[3] # 0
        /\ Fit(engine[t], object, drawn) /\ engine[t][1] = p[1] /\ engine[t][2] # 0
    BY <1>0, <1>2, GrownPage
  <1>4. p[1] = a
    BY <1>1, <1>2
  <1>5. /\ pages' = Extended(pages, p, engine[t]) /\ engine' = [engine EXCEPT ![t] = p]
        /\ UNCHANGED <<pc, current, context, saved, to_clear, object, overtaken>>
    BY <1>2 DEF Grows
  <1>6. Tabled'
    <2>1. FitTable(pages', object', drawn')
      BY <1>0, <1>3, <1>5, ExtendedFits DEF Tabled
    <2>2. FitEngines(engine', object', drawn')
      BY <1>0, <1>3, <1>5, EnginesChange DEF Tabled
    <2>3. FitSaved(saved', object', drawn')
      <3>1. FitSaved(saved, object, drawn)
        BY <1>0 DEF Tabled
      <3> QED
        BY <1>3, <1>5, <3>1, SavedChange
    <2>4. FitClears(to_clear', object', drawn')
      <3>1. FitClears(to_clear, object, drawn)
        BY <1>0 DEF Tabled
      <3> QED
        BY <1>3, <1>5, <3>1, ClearsChange
    <2> QED
      BY <1>0, <1>3, <1>5, <2>1, <2>2, <2>3, <2>4 DEF Tabled
  <1>7. \A u \in Worker \ {t} : /\ pc'[u] = pc[u] /\ current'[u] = current[u]
                                /\ engine'[u] = engine[u]
    BY <1>0, <1>5, Shapes
  <1>8. engine'[t] = p
    BY <1>0, <1>5, Shapes
  <1> QED
    BY <1>1, <1>3, <1>4, <1>5, <1>6, <1>7, <1>8, PlainHoused DEF Housed, ClearsOwned

(* receive() goes back to the page before.                                 *)
LEMMA ShrinksTo ==
    ASSUME Tabled, Occupied, NEW t \in Worker, Shrinks(t)
    PROVE  /\ engine[t] \in Live /\ pages[engine[t]] \in Live
           /\ Fit(pages[engine[t]], object, drawn)
           /\ pages[engine[t]][1] = engine[t][1] /\ pages[engine[t]][2] # 0
           /\ current[t] \in Actor /\ engine[t][1] = current[t]
  <1>0. FitTable(pages, object, drawn) /\ Grounded(pages)
    BY DEF Tabled, FitTable
  <1>1. engine[t] \in Live
    BY DEF Shrinks, End, Live
  <1>2. pages[engine[t]] \in Live
    BY <1>0, <1>1, EndUnfolds DEF Shrinks, Live
  <1>3. pages[engine[t]] # NoPage
    <2>1. pages[engine[t]] \in Page
      BY <1>0, <1>2 DEF FitTable, Fit, Live
    <2> QED
      BY <2>1, PageIs
  <1>4. current[t] \in Actor /\ engine[t][1] = current[t]
    BY DEF Occupied, Busy, RunningPhp, Shrinks
  <1> QED
    BY <1>0, <1>1, <1>2, <1>3, <1>4 DEF FitTable, Live

LEMMA ShrinksHoused ==
    ASSUME Typed, AtHome, Housed, Settled, NEW t \in Worker, Shrinks(t)
    PROVE  Housed'
  <1>0. Tabled /\ Occupied
    BY DEF Housed
  <1>1. PICK a \in Actor : a = current[t] /\ context[a] # "none" /\ Homely(a, t)
    BY RunHomely DEF Housed, Occupied, Busy, RunningPhp, Shrinks
  <1>2. PICK p : p = pages[engine[t]]
    OBVIOUS
  <1>3. Fit(p, object, drawn) /\ p[1] = a /\ p[2] # 0
    BY <1>0, <1>1, <1>2, ShrinksTo
  <1>4. /\ pages' = Without(pages, {engine[t]}) /\ engine' = [engine EXCEPT ![t] = p]
        /\ UNCHANGED <<pc, current, context, saved, to_clear, object, drawn, overtaken>>
    BY <1>2 DEF Shrinks
  <1>5. Tabled'
    <2>1. FitTable(pages', object, drawn)
      BY <1>0, <1>4, WithoutFits DEF Tabled
    <2>2. FitEngines(engine', object, drawn)
      BY <1>0, <1>3, <1>4, SameFit
    <2> QED
      BY <1>0, <1>4, <2>1, <2>2 DEF Tabled
  <1>6. \A u \in Worker \ {t} : /\ pc'[u] = pc[u] /\ current'[u] = current[u]
                                /\ engine'[u] = engine[u]
    BY <1>0, <1>4, Shapes
  <1>7. engine'[t] = p
    BY <1>0, <1>4, Shapes
  <1> QED
    BY <1>1, <1>3, <1>4, <1>5, <1>6, <1>7, PlainHoused DEF Housed, ClearsOwned
-----------------------------------------------------------------------------
LEMMA BlocksHoused ==
    ASSUME Typed, AtHome, Housed, Settled, NEW t \in Worker, Blocks(t)
    PROVE  Housed'
  <1>0. Tabled
    BY DEF Housed
  <1>1. PICK a \in Actor : a = current[t] /\ context[a] # "none" /\ engine[t][1] = a /\ engine[t][2] # 0
    BY DEF Housed, Occupied, Busy, RunningPhp, Blocks
  <1>2. /\ pc' = [pc EXCEPT ![t] = "loop"] /\ current' = [current EXCEPT ![t] = NoActor]
        /\ context' = [context EXCEPT ![a] = "saved"] /\ saved' = [saved EXCEPT ![a] = engine[t]]
        /\ engine' = [engine EXCEPT ![t] = Own(t)]
        /\ UNCHANGED <<pages, to_clear, object, drawn, overtaken>>
    BY <1>1 DEF Blocks
  <1>3. Fit(engine[t], object, drawn) /\ engine[t] # NoPage
    BY <1>0, PageIs DEF Tabled, FitEngines
  <1>4. Tabled'
    <2>1. FitEngines(engine', object, drawn)
      BY <1>0, <1>2, OwnFits, SameFit
    <2>2. FitSaved(saved', object, drawn)
      BY <1>0, <1>1, <1>2, <1>3, SameFit
    <2> QED
      BY <1>0, <1>2, <2>1, <2>2 DEF Tabled
  <1>5. \A u \in Worker \ {t} : /\ pc'[u] = pc[u] /\ current'[u] = current[u]
                                /\ engine'[u] = engine[u]
    BY <1>0, <1>2, Shapes
  <1>6. engine'[t][2] = 0 /\ ~Busy(t)'
    BY <1>0, <1>2, Shapes, OwnFits DEF Busy, RunningPhp
  <1>7. \A b \in Actor : context'[b] # "none" <=> context[b] # "none"
    BY <1>0, <1>1, <1>2, Shapes
  <1>8. \A b \in Actor : saved[b] # NoPage => saved'[b] # NoPage
    BY <1>0, <1>2, <1>3, Shapes
  <1> QED
    BY <1>2, <1>4, <1>5, <1>6, <1>7, <1>8, PlainHoused DEF Housed, ClearsOwned

LEMMA LeavesHoused ==
    ASSUME Typed, AtHome, Housed, Settled, NEW t \in Worker, Leaves(t)
    PROVE  Housed'
  <1>0. Tabled
    BY DEF Housed
  <1>1. PICK a \in Actor : a = current[t] /\ context[a] # "none" /\ engine[t][1] = a /\ engine[t][2] # 0
    BY DEF Housed, Occupied, Busy, RunningPhp, Leaves
  <1>2. PICK e : e = End(pages, engine[t])
    OBVIOUS
  <1>3. Fit(e, object, drawn) /\ e[1] = a /\ e[2] # 0 /\ e # NoPage
    <2>1. Fit(engine[t], object, drawn) /\ FitTable(pages, object, drawn)
      BY <1>0 DEF Tabled, FitEngines
    <2>2. Fit(e, object, drawn) /\ e[1] = a /\ e[2] # 0
      BY <1>1, <1>2, <2>1, EndFits
    <2> QED
      BY <2>2, PageIs DEF Fit
  <1>4. PICK label \in {"loop", "crash"}, x \in Actor \cup {NoActor} :
          pc' = [pc EXCEPT ![t] = label] /\ current' = [current EXCEPT ![t] = x]
    BY DEF Leaves
  <1>5. /\ pages' = Without(pages, Chain(pages, engine[t]) \ {e})
        /\ saved' = [saved EXCEPT ![a] = e] /\ engine' = [engine EXCEPT ![t] = Own(t)]
        /\ UNCHANGED <<context, to_clear, object, drawn, overtaken>>
    BY <1>1, <1>2 DEF Leaves
  <1>6. Tabled'
    <2>1. FitEngines(engine', object, drawn)
      BY <1>0, <1>5, OwnFits, SameFit
    <2>2. FitSaved(saved', object, drawn)
      BY <1>0, <1>1, <1>3, <1>5, SameFit
    <2>3. FitTable(pages', object, drawn)
      BY <1>0, <1>5, WithoutFits DEF Tabled
    <2> QED
      BY <1>0, <1>5, <2>1, <2>2, <2>3 DEF Tabled
  <1>7. \A u \in Worker \ {t} : /\ pc'[u] = pc[u] /\ current'[u] = current[u]
                                /\ engine'[u] = engine[u]
    BY <1>0, <1>4, <1>5, Shapes
  <1>8. engine'[t][2] = 0 /\ ~Busy(t)'
    BY <1>0, <1>4, <1>5, Shapes, OwnFits DEF Busy, RunningPhp
  <1>9. \A b \in Actor : saved[b] # NoPage => saved'[b] # NoPage
    BY <1>0, <1>3, <1>5, Shapes
  <1> QED
    BY <1>5, <1>6, <1>7, <1>8, <1>9, PlainHoused DEF Housed, ClearsOwned

LEMMA LeavesCtorHoused ==
    ASSUME Typed, AtHome, Housed, Settled, NEW t \in Worker, LeavesCtor(t)
    PROVE  Housed'
  <1>0. Tabled
    BY DEF Housed
  <1>1. /\ pc' = [pc EXCEPT ![t] = "crash"]
        /\ UNCHANGED <<current, context, pages, engine, saved, to_clear, object, drawn, overtaken>>
    BY DEF LeavesCtor, vmVars
  <1>2. Tabled'
    BY <1>0, <1>1 DEF Tabled
  <1>3. \A u \in Worker \ {t} : pc'[u] = pc[u]
    BY <1>0, <1>1, Shapes
  <1>4. ~Busy(t)'
    BY <1>0, <1>1, Shapes DEF Busy, RunningPhp
  <1>5. engine[t][2] # 0 => Homely(engine[t][1], t)
    BY DEF Housed, EnginesHome
  <1> QED
    BY <1>1, <1>2, <1>3, <1>4, <1>5, PlainHoused DEF Housed, ClearsOwned

LEMMA DestroysHoused ==
    ASSUME Typed, AtHome, Housed, Settled, NEW t \in Worker, Destroys(t)
    PROVE  Housed'
  <1>0. Tabled
    BY DEF Housed
  <1>1. PICK label \in {"pop", "ended"} : pc' = [pc EXCEPT ![t] = label]
    BY DEF Destroys
  <1>2. /\ pages' = Without(pages, UNION {Chain(pages, saved[a]) : a \in actor_removals[t]})
        /\ UNCHANGED <<current, context, engine, saved, to_clear, object, drawn, overtaken>>
    BY DEF Destroys
  <1>3. Tabled'
    <2>1. FitTable(pages', object, drawn)
      BY <1>0, <1>2, WithoutFits DEF Tabled
    <2> QED
      BY <1>0, <1>2, <2>1 DEF Tabled
  <1>4. \A u \in Worker \ {t} : pc'[u] = pc[u]
    BY <1>0, <1>1, Shapes
  <1>5. ~Busy(t)'
    BY <1>0, <1>1, Shapes DEF Busy, RunningPhp
  <1>6. engine[t][2] # 0 => Homely(engine[t][1], t)
    BY DEF Housed, EnginesHome
  <1> QED
    BY <1>2, <1>3, <1>4, <1>5, <1>6, PlainHoused DEF Housed, ClearsOwned

LEMMA ClearsHoused ==
    ASSUME Typed, AtHome, Housed, Settled, NEW t \in Worker, NEW a \in Actor, Clears(t, a),
           to_clear[t] # <<>>
    PROVE  Housed'
  <1>0. Tabled
    BY DEF Housed
  <1>1. PICK p : p = Head(to_clear[t])
    OBVIOUS
  <1>2. /\ pc' = [pc EXCEPT ![t] = "loop"]
        /\ pages' = Without(pages, Chain(pages, p) \ {End(pages, p)})
        /\ to_clear' = [to_clear EXCEPT ![t] = Tail(@)]
        /\ UNCHANGED <<current, context, engine, saved, object, drawn, overtaken>>
    BY <1>1 DEF Clears
  <1>3. Tabled'
    <2>1. FitTable(pages', object, drawn)
      BY <1>0, <1>2, WithoutFits DEF Tabled
    <2>2. FitClears(to_clear', object, drawn)
      BY <1>0, <1>2, ClearsChange DEF Tabled
    <2> QED
      BY <1>0, <1>2, <2>1, <2>2 DEF Tabled
  <1>4. \A u \in Worker \ {t} : pc'[u] = pc[u]
    BY <1>0, <1>2, Shapes
  <1>5. ~Busy(t)'
    BY <1>0, <1>2, Shapes DEF Busy, RunningPhp
  <1>6. engine[t][2] # 0 => Homely(engine[t][1], t)
    BY DEF Housed, EnginesHome
  <1>7. ASSUME NEW u \in Worker, NEW i \in DOMAIN to_clear'[u]
        PROVE  context[to_clear'[u][i][1]] # "none"
    <2>1. to_clear[t] \in Seq(Page)
      BY <1>0, Shapes
    <2>2. \A j \in DOMAIN Tail(to_clear[t]) : /\ j + 1 \in DOMAIN to_clear[t]
                                              /\ Tail(to_clear[t])[j] = to_clear[t][j + 1]
      BY <2>1
    <2>3. u # t => to_clear'[u] = to_clear[u]
      BY <1>0, <1>2, Shapes
    <2>4. to_clear'[t] = Tail(to_clear[t])
      BY <1>0, <1>2, Shapes
    <2>5. CASE u = t
      <3>1. i \in DOMAIN Tail(to_clear[t]) /\ to_clear'[u][i] = Tail(to_clear[t])[i]
        BY <1>7, <2>4, <2>5
      <3>2. i + 1 \in DOMAIN to_clear[t] /\ to_clear'[u][i] = to_clear[t][i + 1]
        BY <2>2, <3>1
      <3>3. context[to_clear[t][i + 1][1]] # "none"
        BY <3>2 DEF Housed, ClearsOwned
      <3> QED
        BY <3>2, <3>3
    <2>6. CASE u # t
      BY <1>7, <2>3, <2>6 DEF Housed, ClearsOwned
    <2> QED
      BY <2>5, <2>6
  <1> QED
    BY <1>2, <1>3, <1>4, <1>5, <1>6, <1>7, PlainHoused

LEMMA ResetsHoused ==
    ASSUME Typed, AtHome, Housed, Settled, NEW t \in Worker, NEW w \in Actor, Resets(t, w)
    PROVE  Housed'
  <1>0. Tabled
    BY DEF Housed
  <1>1. /\ pages' = pages /\ engine' = engine /\ object' = object /\ drawn' = drawn
        /\ context' = [context EXCEPT ![w] = IF @ = "none" THEN "none" ELSE "blank"]
        /\ overtaken' = overtaken \cup Overtaken(w)
    BY DEF Resets
  <1>2. \/ pc' = [pc EXCEPT ![t] = "loop"] /\ current' = [current EXCEPT ![t] = NoActor]
        \/ pc' = pc /\ current' = current
    BY DEF Resets
  <1>3. PICK o \in Worker : o = thread_offset[w]
    BY <1>0, Shapes
  <1>4. context[w] = "none" => to_clear' = to_clear /\ saved' = saved
    BY DEF Resets
  <1>5. ASSUME context[w] # "none"
        PROVE  /\ to_clear' = [to_clear EXCEPT ![o] = Append(@, saved[w])]
               /\ saved' = [saved EXCEPT ![w] = End(pages, saved[w])]
               /\ Fit(saved[w], object, drawn) /\ saved[w][1] = w /\ saved[w][2] # 0
               /\ LET e == End(pages, saved[w]) IN
                  Fit(e, object, drawn) /\ e[1] = w /\ e[2] # 0 /\ e # NoPage
    <2>1. Fit(saved[w], object, drawn) /\ saved[w][1] = w /\ saved[w][2] # 0
      BY <1>0, <1>5 DEF Housed, HasObject, Tabled, FitSaved
    <2>2. /\ Fit(End(pages, saved[w]), object, drawn)
          /\ End(pages, saved[w])[1] = w /\ End(pages, saved[w])[2] # 0
      BY <1>0, <2>1, EndFits DEF Tabled
    <2>3. End(pages, saved[w]) # NoPage
      BY <2>2, PageIs DEF Fit
    <2> QED
      BY <1>3, <1>5, <2>1, <2>2, <2>3 DEF Resets
  <1>6. Overtaken(w) \subseteq Actor \X Nat
    <2>1. object[w] \in Nat
      BY <1>0, Shapes
    <2>2. \A i \in 1 .. StartsQueued(w) : object[w] + i \in Nat
      BY <2>1
    <2>3. IsExecuted(w) => ObjectOf(saved[w]) \in Actor \X Nat
      <3>1. ASSUME IsExecuted(w) PROVE context[w] # "none"
        BY <3>1 DEF IsExecuted, Housed, Occupied, Busy
      <3>2. ASSUME context[w] # "none" PROVE ObjectOf(saved[w]) \in Actor \X Nat
        <4>1. saved[w][1] = w /\ saved[w][2] \in Nat
          BY <1>5, <3>2, PageIs DEF Fit
        <4> QED
          BY <4>1 DEF ObjectOf
      <3> QED
        BY <3>1, <3>2
    <2> QED
      BY <2>2, <2>3 DEF Overtaken
  <1>7. Tabled'
    <2>1. FitSaved(saved', object, drawn)
      <3>1. CASE context[w] = "none"
        BY <1>0, <1>4, <3>1 DEF Tabled
      <3>2. CASE context[w] # "none"
        BY <1>0, <1>5, <3>2, SameFit
      <3> QED
        BY <3>1, <3>2
    <2>2. FitClears(to_clear', object, drawn)
      <3>1. FitClears(to_clear, object, drawn)
        BY <1>0 DEF Tabled
      <3>2. CASE context[w] = "none"
        BY <1>4, <3>1, <3>2
      <3>3. CASE context[w] # "none"
        <4>1. PICK p : p = saved[w]
          OBVIOUS
        <4>2. Fit(p, object, drawn) /\ p[1] \in Actor /\ p[2] # 0
          BY <1>5, <3>3, <4>1
        <4>3. FitClears([to_clear EXCEPT ![o] = Append(@, p)], object, drawn)
          BY <3>1, <4>2, ClearsChange
        <4> QED
          BY <1>1, <1>5, <3>3, <4>1, <4>3
      <3> QED
        BY <3>2, <3>3
    <2>3. overtaken' \subseteq Actor \X Nat
      BY <1>0, <1>1, <1>6 DEF Tabled
    <2> QED
      BY <1>0, <1>1, <2>1, <2>2, <2>3 DEF Tabled
  <1>8. \A u \in Worker \ {t} : pc'[u] = pc[u] /\ current'[u] = current[u]
    BY <1>0, <1>2, Shapes
  <1>9. Busy(t)' => Busy(t) /\ current'[t] = current[t]
    BY <1>0, <1>2, Shapes DEF Busy, RunningPhp
  <1>10. \A b \in Actor : context'[b] # "none" <=> context[b] # "none"
    BY <1>0, <1>1, Shapes
  <1>11. \A b \in Actor : saved[b] # NoPage => saved'[b] # NoPage
    BY <1>0, <1>4, <1>5, Shapes
  <1>12. ASSUME NEW u \in Worker, NEW i \in DOMAIN to_clear'[u]
         PROVE  context[to_clear'[u][i][1]] # "none"
    <2>1. CASE context[w] = "none"
      BY <1>4, <1>12, <2>1 DEF Housed, ClearsOwned
    <2>2. CASE context[w] # "none"
      <3>1. u # o => to_clear'[u] = to_clear[u]
        BY <1>0, <1>5, <2>2, Shapes
      <3>2. to_clear'[o] = Append(to_clear[o], saved[w])
        BY <1>0, <1>5, <2>2, Shapes
      <3>3. to_clear[o] \in Seq(Page) /\ saved[w] \in Page
        BY <1>0, <1>5, <2>2, Shapes DEF Fit
      <3>4. \A j \in DOMAIN Append(to_clear[o], saved[w]) :
              \/ j \in DOMAIN to_clear[o] /\ Append(to_clear[o], saved[w])[j] = to_clear[o][j]
              \/ Append(to_clear[o], saved[w])[j] = saved[w]
        BY <3>3
      <3>5. CASE u # o
        BY <1>12, <3>1, <3>5 DEF Housed, ClearsOwned
      <3>6. CASE u = o
        BY <1>5, <1>12, <2>2, <3>2, <3>4, <3>6 DEF Housed, ClearsOwned
      <3> QED
        BY <3>5, <3>6
    <2> QED
      BY <2>1, <2>2
  <1>13. engine[t][2] # 0 => Homely(engine[t][1], t)
    BY DEF Housed, EnginesHome
  <1>14. Busy(t)' => /\ current'[t] \in Actor /\ context[current'[t]] # "none"
                     /\ engine'[t][1] = current'[t] /\ engine'[t][2] # 0
    BY <1>1, <1>9 DEF Housed, Occupied
  <1> QED
    BY <1>1, <1>7, <1>8, <1>10, <1>11, <1>12, <1>13, <1>14, PlainHoused
-----------------------------------------------------------------------------
(* The queues and the pages to clear go together.                          *)
Queues(q, c) == Aligned(q, c) /\ Paired(q)

LEMMA FreeTasks ==
    ASSUME NEW a
    PROVE  /\ IsFree(FreeTask(a)) /\ FreeTask(a).actor = a
           /\ ~IsFree(NewTask(a)) /\ ~IsFree(ResumeTask(a))
  BY DEF IsFree, FreeTask, NewTask, ResumeTask

LEMMA QueuesAppend ==
    ASSUME NEW q \in Seq(Task), NEW c \in Seq(Page), Queues(q, c), NEW x \in Task, ~IsFree(x)
    PROVE  Queues(Append(q, x), c)
  <1>1. PICK f : Matches(f, q, c)
    BY DEF Queues, Aligned
  <1>2. /\ DOMAIN q \subseteq DOMAIN Append(q, x)
        /\ \A i \in DOMAIN q : Append(q, x)[i] = q[i]
        /\ \A i \in DOMAIN Append(q, x) : i \in DOMAIN q \/ Append(q, x)[i] = x
    OBVIOUS
  <1>3. Matches(f, Append(q, x), c)
    BY <1>1, <1>2 DEF Matches
  <1>4. Paired(Append(q, x))
    BY <1>2 DEF Queues, Paired
  <1> QED
    BY <1>3, <1>4 DEF Queues, Aligned

LEMMA TailIs ==
    ASSUME NEW S, NEW q \in Seq(S), q # <<>>
    PROVE  /\ Tail(q) \in Seq(S) /\ 1 \in DOMAIN q /\ Head(q) = q[1]
           /\ \A i \in DOMAIN Tail(q) : /\ i \in Nat \ {0} /\ i + 1 \in DOMAIN q
                                        /\ Tail(q)[i] = q[i + 1]
           /\ \A i \in DOMAIN q : /\ i \in Nat
                                  /\ i # 1 => i - 1 \in DOMAIN Tail(q) /\ Tail(q)[i - 1] = q[i]
  <1>1. /\ Len(q) \in Nat \ {0} /\ DOMAIN q = 1 .. Len(q)
        /\ Tail(q) \in Seq(S) /\ DOMAIN Tail(q) = 1 .. (Len(q) - 1)
        /\ \A i \in 1 .. (Len(q) - 1) : Tail(q)[i] = q[i + 1]
        /\ Head(q) = q[1]
    OBVIOUS
  <1>2. \A i \in DOMAIN q : i \in Nat /\ (i # 1 => i - 1 \in 1 .. (Len(q) - 1) /\ (i - 1) + 1 = i)
    BY <1>1
  <1>3. \A i \in DOMAIN Tail(q) : i \in Nat \ {0} /\ i + 1 \in DOMAIN q
    BY <1>1
  <1> QED
    BY <1>1, <1>2, <1>3

LEMMA PairedTail ==
    ASSUME NEW q \in Seq(Task), q # <<>>, Paired(q)
    PROVE  /\ Paired(Tail(q))
           /\ \A a : Head(q) = FreeTask(a) => Tail(q) # <<>> /\ Head(Tail(q)) = NewTask(a)
  <1>1. ASSUME NEW i \in DOMAIN Tail(q), IsFree(Tail(q)[i])
        PROVE  i + 1 \in DOMAIN Tail(q) /\ Tail(q)[i + 1] = NewTask(Tail(q)[i].actor)
    <2>1. i \in Nat \ {0} /\ i + 1 \in DOMAIN q /\ Tail(q)[i] = q[i + 1]
      BY TailIs
    <2>2. (i + 1) + 1 \in DOMAIN q /\ q[(i + 1) + 1] = NewTask(q[i + 1].actor)
      BY <1>1, <2>1 DEF Paired
    <2>3. (i + 1) + 1 # 1 /\ ((i + 1) + 1) - 1 = i + 1
      BY <2>1
    <2>4. i + 1 \in DOMAIN Tail(q) /\ Tail(q)[i + 1] = q[(i + 1) + 1]
      BY <2>2, <2>3, TailIs
    <2> QED
      BY <2>1, <2>2, <2>4
  <1>2. ASSUME NEW a, Head(q) = FreeTask(a)
        PROVE  Tail(q) # <<>> /\ Head(Tail(q)) = NewTask(a)
    <2>1. 1 \in DOMAIN q /\ q[1] = FreeTask(a)
      BY <1>2, TailIs
    <2>2. IsFree(q[1]) /\ q[1].actor = a
      BY <2>1 DEF IsFree, FreeTask
    <2>3. 1 + 1 \in DOMAIN q /\ q[1 + 1] = NewTask(a)
      BY <2>1, <2>2 DEF Paired
    <2>4. 1 \in DOMAIN Tail(q) /\ Tail(q)[1] = NewTask(a)
      <3>1. 1 + 1 # 1 /\ (1 + 1) - 1 = 1
        OBVIOUS
      <3> QED
        BY <2>3, <3>1, TailIs
    <2>5. PICK r \in Seq(Task) : r = Tail(q)
      BY TailIs
    <2>6. 1 \in DOMAIN r /\ r[1] = NewTask(a)
      BY <2>4, <2>5
    <2>7. r # <<>> /\ Head(r) = r[1]
      BY <2>6
    <2> QED
      BY <2>5, <2>6, <2>7
  <1> QED
    BY <1>1, <1>2 DEF Paired

LEMMA QueuesTail ==
    ASSUME NEW q \in Seq(Task), NEW c \in Seq(Page), Queues(q, c), q # <<>>, ~IsFree(Head(q))
    PROVE  Queues(Tail(q), c)
  <1>1. PICK f : Matches(f, q, c)
    BY DEF Queues, Aligned
  <1>2. \A j \in DOMAIN c : /\ f[j] \in DOMAIN q /\ f[j] # 1 /\ f[j] \in Nat
                            /\ f[j] - 1 \in DOMAIN Tail(q) /\ Tail(q)[f[j] - 1] = q[f[j]]
    <2> SUFFICES ASSUME NEW j \in DOMAIN c
                 PROVE  /\ f[j] \in DOMAIN q /\ f[j] # 1 /\ f[j] \in Nat
                        /\ f[j] - 1 \in DOMAIN Tail(q) /\ Tail(q)[f[j] - 1] = q[f[j]]
      OBVIOUS
    <2>1. f[j] \in DOMAIN q /\ IsFree(q[f[j]])
      <3>1. f[j] \in DOMAIN q /\ q[f[j]] = FreeTask(c[j][1])
        BY <1>1 DEF Matches
      <3> QED
        BY <3>1, FreeTasks
    <2>2. f[j] # 1
      BY <2>1, TailIs
    <2> QED
      BY <2>1, <2>2, TailIs
  <1> DEFINE g == [j \in DOMAIN c |-> f[j] - 1]
  <1>3. g \in [DOMAIN c -> DOMAIN Tail(q)]
    BY <1>2
  <1>4. \A i, j \in DOMAIN c : i < j => g[i] < g[j]
    BY <1>1, <1>2 DEF Matches
  <1>5. \A j \in DOMAIN c : Tail(q)[g[j]] = FreeTask(c[j][1])
    BY <1>1, <1>2 DEF Matches
  <1>6. ASSUME NEW i \in DOMAIN Tail(q), IsFree(Tail(q)[i])
        PROVE  \E j \in DOMAIN c : g[j] = i
    <2>1. i \in Nat \ {0} /\ i + 1 \in DOMAIN q /\ Tail(q)[i] = q[i + 1]
      BY TailIs
    <2>2. PICK j \in DOMAIN c : f[j] = i + 1
      BY <1>1, <1>6, <2>1 DEF Matches
    <2>3. g[j] = i
      BY <2>1, <2>2
    <2> QED
      BY <2>3
  <1> HIDE DEF g
  <1>7. Matches(g, Tail(q), c)
    BY <1>3, <1>4, <1>5, <1>6 DEF Matches
  <1> QED
    BY <1>7, PairedTail DEF Queues, Aligned

LEMMA QueuesTailFree ==
    ASSUME NEW q \in Seq(Task), NEW c \in Seq(Page), Queues(q, c), q # <<>>,
           NEW a, Head(q) = FreeTask(a)
    PROVE  /\ c # <<>> /\ c[1][1] = a
           /\ Queues(Tail(q), Tail(c))
           /\ Tail(q) # <<>> /\ Head(Tail(q)) = NewTask(a)
  <1>1. PICK f : Matches(f, q, c)
    BY DEF Queues, Aligned
  <1>2. 1 \in DOMAIN q /\ q[1] = FreeTask(a) /\ IsFree(q[1])
    BY TailIs DEF IsFree, FreeTask
  <1>3. PICK k \in DOMAIN c : f[k] = 1
    BY <1>1, <1>2 DEF Matches
  <1>4. c # <<>> /\ 1 \in DOMAIN c /\ DOMAIN c = 1 .. Len(c) /\ Len(c) \in Nat
    BY <1>3
  <1>5. k = 1
    <2>1. f[1] \in DOMAIN q
      BY <1>1, <1>4 DEF Matches
    <2>2. f[1] \in Nat /\ f[1] >= 1
      BY <2>1
    <2>3. 1 < k => f[1] < f[k]
      BY <1>1, <1>3, <1>4 DEF Matches
    <2> QED
      BY <1>3, <1>4, <2>2, <2>3
  <1>6. c[1][1] = a
    <2>1. q[1] = FreeTask(c[1][1])
      BY <1>1, <1>3, <1>5 DEF Matches
    <2> QED
      BY <1>2, <2>1 DEF FreeTask
  <1>7. \A j \in DOMAIN Tail(c) :
          /\ j \in Nat /\ j + 1 \in DOMAIN c /\ Tail(c)[j] = c[j + 1]
          /\ f[j + 1] \in DOMAIN q /\ f[j + 1] \in Nat /\ f[j + 1] # 1
          /\ f[j + 1] - 1 \in DOMAIN Tail(q) /\ Tail(q)[f[j + 1] - 1] = q[f[j + 1]]
    <2> SUFFICES ASSUME NEW j \in DOMAIN Tail(c)
                 PROVE  /\ j \in Nat /\ j + 1 \in DOMAIN c /\ Tail(c)[j] = c[j + 1]
                        /\ f[j + 1] \in DOMAIN q /\ f[j + 1] \in Nat /\ f[j + 1] # 1
                        /\ f[j + 1] - 1 \in DOMAIN Tail(q) /\ Tail(q)[f[j + 1] - 1] = q[f[j + 1]]
      OBVIOUS
    <2>1. j \in Nat \ {0} /\ j + 1 \in DOMAIN c /\ Tail(c)[j] = c[j + 1]
      BY <1>4, TailIs
    <2>2. 1 < j + 1
      BY <2>1
    <2>3. f[1] < f[j + 1] /\ f[j + 1] \in DOMAIN q
      BY <1>1, <1>4, <2>1, <2>2 DEF Matches
    <2>4. f[j + 1] # 1 /\ f[j + 1] \in Nat
      BY <1>3, <1>5, <2>3, TailIs
    <2> QED
      BY <2>1, <2>3, <2>4, TailIs
  <1> DEFINE g == [j \in DOMAIN Tail(c) |-> f[j + 1] - 1]
  <1>8. g \in [DOMAIN Tail(c) -> DOMAIN Tail(q)]
    BY <1>7
  <1>9. ASSUME NEW i \in DOMAIN Tail(c), NEW j \in DOMAIN Tail(c), i < j
        PROVE  g[i] < g[j]
    <2>1. i + 1 < j + 1 /\ i + 1 \in DOMAIN c /\ j + 1 \in DOMAIN c
      BY <1>7, <1>9
    <2>2. f[i + 1] < f[j + 1] /\ f[i + 1] \in DOMAIN q /\ f[j + 1] \in DOMAIN q
      BY <1>1, <2>1 DEF Matches
    <2>3. f[i + 1] \in Nat /\ f[j + 1] \in Nat
      BY <2>2
    <2>4. g[i] = f[i + 1] - 1 /\ g[j] = f[j + 1] - 1
      OBVIOUS
    <2> HIDE DEF g
    <2> QED
      BY <2>2, <2>3, <2>4
  <1>10. \A j \in DOMAIN Tail(c) : Tail(q)[g[j]] = FreeTask(Tail(c)[j][1])
    BY <1>1, <1>7 DEF Matches
  <1>11. ASSUME NEW i \in DOMAIN Tail(q), IsFree(Tail(q)[i])
         PROVE  \E j \in DOMAIN Tail(c) : g[j] = i
    <2>1. i \in Nat \ {0} /\ i + 1 \in DOMAIN q /\ Tail(q)[i] = q[i + 1]
      BY TailIs
    <2>2. PICK j \in DOMAIN c : f[j] = i + 1
      BY <1>1, <1>11, <2>1 DEF Matches
    <2>3. j # 1 /\ j \in Nat
      BY <1>3, <1>4, <1>5, <2>1, <2>2
    <2>4. j - 1 \in DOMAIN Tail(c) /\ (j - 1) + 1 = j
      BY <1>4, <2>3, TailIs
    <2>5. g[j - 1] = i
      BY <2>1, <2>2, <2>4
    <2> QED
      BY <2>4, <2>5
  <1> HIDE DEF g
  <1>12. Matches(g, Tail(q), Tail(c))
    BY <1>8, <1>9, <1>10, <1>11 DEF Matches
  <1> QED
    BY <1>4, <1>6, <1>12, PairedTail DEF Queues, Aligned

LEMMA QueuesRestart ==
    ASSUME NEW q \in Seq(Task), NEW c \in Seq(Page), Queues(q, c), NEW w \in Actor,
           NEW p \in Page, p[1] = w
    PROVE  Queues(q \o <<FreeTask(w), NewTask(w)>>, Append(c, p))
  <1>1. PICK f : Matches(f, q, c)
    BY DEF Queues, Aligned
  <1>2. PICK n \in Nat : n = Len(q) /\ DOMAIN q = 1 .. n
    OBVIOUS
  <1>3. PICK m \in Nat : m = Len(c) /\ DOMAIN c = 1 .. m
    OBVIOUS
  <1>4. PICK r : r = q \o <<FreeTask(w), NewTask(w)>>
    OBVIOUS
  <1>5. /\ DOMAIN r = 1 .. (n + 2) /\ r[n + 1] = FreeTask(w) /\ r[n + 2] = NewTask(w)
        /\ \A i \in 1 .. n : r[i] = q[i]
    BY <1>2, <1>4
  <1>6. PICK d : d = Append(c, p)
    OBVIOUS
  <1>7. DOMAIN d = 1 .. (m + 1) /\ d[m + 1] = p /\ \A j \in 1 .. m : d[j] = c[j]
    BY <1>3, <1>6
  <1> DEFINE g == [j \in 1 .. (m + 1) |-> IF j = m + 1 THEN n + 1 ELSE f[j]]
  <1>8. \A j \in 1 .. m : f[j] \in 1 .. n /\ q[f[j]] = FreeTask(c[j][1])
    BY <1>1, <1>2, <1>3 DEF Matches
  <1>9. /\ g[m + 1] = n + 1
        /\ \A j \in 1 .. m : j \in 1 .. (m + 1) /\ g[j] = f[j]
    OBVIOUS
  <1>10. \A j \in 1 .. (m + 1) : j = m + 1 \/ j \in 1 .. m
    OBVIOUS
  <1>11. g \in [DOMAIN d -> DOMAIN r]
    BY <1>5, <1>7, <1>8
  <1> HIDE DEF g
  <1>12. ASSUME NEW i \in DOMAIN d, NEW j \in DOMAIN d, i < j
         PROVE  g[i] < g[j]
    <2>1. i \in 1 .. m
      BY <1>7, <1>12
    <2>2. CASE j = m + 1
      BY <1>8, <1>9, <2>1, <2>2
    <2>3. CASE j \in 1 .. m
      BY <1>1, <1>3, <1>9, <1>12, <2>1, <2>3 DEF Matches
    <2> QED
      BY <1>7, <1>10, <2>2, <2>3
  <1>13. ASSUME NEW j \in DOMAIN d
         PROVE  r[g[j]] = FreeTask(d[j][1])
    <2>1. CASE j = m + 1
      BY <1>5, <1>7, <1>9, <2>1
    <2>2. CASE j \in 1 .. m
      <3>1. g[j] \in 1 .. n /\ q[g[j]] = FreeTask(c[j][1])
        BY <1>8, <1>9, <2>2
      <3>2. d[j] = c[j] /\ r[g[j]] = q[g[j]]
        BY <1>5, <1>7, <2>2, <3>1
      <3> QED
        BY <3>1, <3>2
    <2> QED
      BY <1>7, <1>10, <2>1, <2>2
  <1>14. ASSUME NEW i \in DOMAIN r, IsFree(r[i])
         PROVE  /\ \E j \in DOMAIN d : g[j] = i
                /\ i + 1 \in DOMAIN r /\ r[i + 1] = NewTask(r[i].actor)
    <2>1. i # n + 2
      BY <1>5, <1>14 DEF IsFree, NewTask
    <2>2. i = n + 1 \/ i \in 1 .. n
      BY <1>5, <2>1
    <2>3. CASE i = n + 1
      <3>1. m + 1 \in DOMAIN d /\ g[m + 1] = i
        BY <1>7, <1>9, <2>3
      <3>2. i + 1 = n + 2 /\ i + 1 \in DOMAIN r
        BY <1>5, <2>3
      <3>3. r[i].actor = w
        BY <1>5, <2>3 DEF FreeTask
      <3> QED
        BY <1>5, <3>1, <3>2, <3>3
    <2>4. CASE i \in 1 .. n
      <3>1. IsFree(q[i]) /\ i \in DOMAIN q /\ r[i] = q[i]
        BY <1>2, <1>5, <1>14, <2>4
      <3>2. PICK j \in DOMAIN c : f[j] = i
        BY <1>1, <3>1 DEF Matches
      <3>3. j \in DOMAIN d /\ g[j] = i
        BY <1>3, <1>7, <1>9, <3>2
      <3>4. i + 1 \in DOMAIN q /\ q[i + 1] = NewTask(q[i].actor)
        BY <3>1 DEF Queues, Paired
      <3>5. i + 1 \in 1 .. n /\ i + 1 \in DOMAIN r
        BY <1>2, <1>5, <3>4
      <3> QED
        BY <1>5, <3>1, <3>3, <3>4, <3>5
    <2> QED
      BY <2>2, <2>3, <2>4
  <1>15. Matches(g, r, d)
    BY <1>11, <1>12, <1>13, <1>14 DEF Matches
  <1>16. Paired(r)
    BY <1>14 DEF Paired
  <1> QED
    BY <1>4, <1>6, <1>15, <1>16 DEF Queues, Aligned
-----------------------------------------------------------------------------
LEMMA QueueOf ==
    ASSUME Typed, Tabled, ClearsQueued, NEW u \in Worker
    PROVE  tasks[u] \in Seq(Task) /\ to_clear[u] \in Seq(Page) /\ Queues(tasks[u], to_clear[u])
  <1>1. tasks[u] \in Seq(Task) /\ to_clear[u] \in Seq(Page)
    BY Shapes
  <1> QED
    BY <1>1 DEF ClearsQueued, Queues

LEMMA OwnTasks ==
    ASSUME NEW a \in Actor
    PROVE  {ResumeTask(a), NewTask(a), FreeTask(a)} \subseteq Task
  BY DEF Task, ResumeTask, NewTask, FreeTask

LEMMA QueuedStill ==
    ASSUME ClearsQueued,
           \A u \in Worker : \/ tasks'[u] = tasks[u] /\ to_clear'[u] = to_clear[u]
                             \/ Queues(tasks'[u], to_clear'[u])
    PROVE  ClearsQueued'
  BY DEF ClearsQueued, Queues

LEMMA CalmQueued ==
    ASSUME Typed, Tabled, ClearsQueued, Calm, CalmQueues
    PROVE  ClearsQueued'
  <1>1. to_clear' = to_clear
    BY DEF Calm, vmVars
  <1>2. ASSUME NEW t \in Worker, NEW a \in Actor,
               \/ tasks'[t] = tasks[t]
               \/ tasks'[t] = Append(tasks[t], ResumeTask(a))
               \/ tasks'[t] = Append(tasks[t], NewTask(a))
               \/ /\ tasks[t] # <<>> /\ Head(tasks[t]) = ResumeTask(a)
                  /\ tasks'[t] = Tail(tasks[t]),
               \A u \in Worker \ {t} : tasks'[u] = tasks[u]
        PROVE  ClearsQueued'
    <2>1. tasks'[t] = tasks[t] \/ Queues(tasks'[t], to_clear[t])
      <3>1. PICK q \in Seq(Task) : q = tasks[t]
        BY QueueOf
      <3>2. PICK c \in Seq(Page) : c = to_clear[t]
        BY QueueOf
      <3>3. Queues(q, c)
        BY <3>1, <3>2, QueueOf
      <3>4. ResumeTask(a) \in Task /\ NewTask(a) \in Task
        BY OwnTasks
      <3>5. ~IsFree(ResumeTask(a)) /\ ~IsFree(NewTask(a))
        BY FreeTasks
      <3>6. Queues(Append(q, ResumeTask(a)), c) /\ Queues(Append(q, NewTask(a)), c)
        BY <3>3, <3>4, <3>5, QueuesAppend
      <3>7. q # <<>> /\ Head(q) = ResumeTask(a) => Queues(Tail(q), c)
        BY <3>3, <3>5, QueuesTail
      <3> QED
        BY <1>2, <3>1, <3>2, <3>6, <3>7
    <2> QED
      BY <1>1, <1>2, <2>1, QueuedStill
  <1>3. CASE \A u \in Worker : tasks'[u] = tasks[u]
    BY <1>1, <1>3, QueuedStill
  <1>4. Unscheduled \subseteq Actor
    BY DEF Typed, TypeOK, ThreadTypes, Unscheduled
  <1> QED
    BY <1>2, <1>3, <1>4 DEF CalmQueues

(* A worker takes a task that is not for pages.                            *)
LEMMA PopQueued ==
    ASSUME Typed, Tabled, ClearsQueued, NEW t \in Worker, NEW a \in Actor, tasks[t] # <<>>,
           Head(tasks[t]) \in {NewTask(a), ResumeTask(a)},
           tasks' = [tasks EXCEPT ![t] = Tail(@)], to_clear' = to_clear
    PROVE  ClearsQueued'
  <1>1. tasks'[t] = Tail(tasks[t]) /\ \A u \in Worker \ {t} : tasks'[u] = tasks[u]
    BY Shapes
  <1>2. Queues(tasks'[t], to_clear[t])
    BY <1>1, QueueOf, QueuesTail, FreeTasks
  <1> QED
    BY <1>1, <1>2, QueuedStill

LEMMA ClearsNext ==
    ASSUME Typed, Tabled, ClearsQueued, NEW t \in Worker, NEW a \in Actor, Clears(t, a)
    PROVE  /\ to_clear[t] # <<>> /\ to_clear[t][1][1] = a
           /\ tasks'[t] # <<>> /\ Head(tasks'[t]) = NewTask(a)
           /\ \A u \in Worker \ {t} : tasks'[u] = tasks[u] /\ to_clear'[u] = to_clear[u]
           /\ tasks'[t] = Tail(tasks[t]) /\ to_clear'[t] = Tail(to_clear[t])
           /\ ClearsQueued'
  <1>1. /\ tasks[t] # <<>> /\ Head(tasks[t]) = FreeTask(a)
        /\ tasks' = [tasks EXCEPT ![t] = Tail(@)] /\ to_clear' = [to_clear EXCEPT ![t] = Tail(@)]
    BY DEF Clears
  <1>2. /\ tasks'[t] = Tail(tasks[t]) /\ to_clear'[t] = Tail(to_clear[t])
        /\ \A u \in Worker \ {t} : tasks'[u] = tasks[u] /\ to_clear'[u] = to_clear[u]
    BY <1>1, Shapes
  <1>3. tasks[t] \in Seq(Task) /\ to_clear[t] \in Seq(Page) /\ Queues(tasks[t], to_clear[t])
    BY QueueOf
  <1>4. /\ to_clear[t] # <<>> /\ to_clear[t][1][1] = a
        /\ Queues(Tail(tasks[t]), Tail(to_clear[t]))
        /\ Tail(tasks[t]) # <<>> /\ Head(Tail(tasks[t])) = NewTask(a)
    BY <1>1, <1>3, QueuesTailFree
  <1>5. ClearsQueued'
    BY <1>2, <1>4, QueuedStill
  <1> QED
    BY <1>2, <1>4, <1>5

LEMMA ResetsQueued ==
    ASSUME Typed, Housed, ClearsQueued, NEW t \in Worker, NEW w \in Actor, Resets(t, w)
    PROVE  ClearsQueued'
  <1>0. Tabled
    BY DEF Housed
  <1>1. PICK o \in Worker : o = thread_offset[w]
    BY <1>0, Shapes
  <1>2. tasks' = [tasks EXCEPT ![o] = tasks[o] \o RestartTasks(w)]
    BY <1>1 DEF Resets
  <1>3. tasks'[o] = tasks[o] \o RestartTasks(w) /\ \A u \in Worker \ {o} : tasks'[u] = tasks[u]
    BY <1>0, <1>2, Shapes
  <1>4. tasks[o] \in Seq(Task) /\ to_clear[o] \in Seq(Page) /\ Queues(tasks[o], to_clear[o])
    BY <1>0, QueueOf
  <1>5. CASE context[w] = "none"
    <2>1. to_clear' = to_clear
      BY <1>5 DEF Resets
    <2>2. tasks'[o] = Append(tasks[o], NewTask(w))
      <3>1. tasks'[o] = tasks[o] \o <<NewTask(w)>>
        BY <1>3, <1>5 DEF RestartTasks
      <3>2. NewTask(w) \in Task
        BY OwnTasks
      <3> QED
        BY <1>4, <3>1, <3>2, Joined
    <2>3. Queues(tasks'[o], to_clear[o])
      BY <1>4, <2>2, QueuesAppend, FreeTasks, OwnTasks
    <2> QED
      BY <1>3, <2>1, <2>3, QueuedStill
  <1>6. CASE context[w] # "none"
    <2>1. to_clear' = [to_clear EXCEPT ![o] = Append(to_clear[o], saved[w])]
      BY <1>1, <1>6 DEF Resets
    <2>2. to_clear'[o] = Append(to_clear[o], saved[w]) /\ \A u \in Worker \ {o} : to_clear'[u] = to_clear[u]
      BY <1>0, <2>1, Shapes
    <2>3. saved[w] \in Page /\ saved[w][1] = w
      BY <1>0, <1>6 DEF Housed, HasObject, Tabled, FitSaved, Fit
    <2>4. tasks'[o] = tasks[o] \o <<FreeTask(w), NewTask(w)>>
      BY <1>3, <1>6 DEF RestartTasks
    <2>5. Queues(tasks'[o], to_clear'[o])
      BY <1>4, <2>2, <2>3, <2>4, QueuesRestart
    <2> QED
      BY <1>3, <2>2, <2>5, QueuedStill
  <1> QED
    BY <1>5, <1>6

LEMMA StaysQueued ==
    ASSUME Typed, Housed, ClearsQueued, NEW t \in Worker, SharpStep(t)
    PROVE  ClearsQueued'
  <1>0. Tabled
    BY DEF Housed
  <1>1. CASE \/ Enters(t) \/ Grows(t) \/ Shrinks(t) \/ Blocks(t) \/ Leaves(t) \/ LeavesCtor(t)
             \/ Destroys(t)
    <2>1. tasks' = tasks /\ to_clear' = to_clear
      BY <1>1 DEF Enters, Grows, Shrinks, Blocks, Leaves, LeavesCtor, Destroys, vmVars
    <2> QED
      BY <2>1 DEF ClearsQueued
  <1>2. CASE \E a \in Actor : MakesObject(t, a) \/ Reenters(t, a)
    <2>1. PICK a \in Actor : MakesObject(t, a) \/ Reenters(t, a)
      BY <1>2
    <2>2. /\ tasks[t] # <<>> /\ Head(tasks[t]) \in {NewTask(a), ResumeTask(a)}
          /\ tasks' = [tasks EXCEPT ![t] = Tail(@)] /\ to_clear' = to_clear
      BY <2>1 DEF MakesObject, Reenters
    <2> QED
      BY <1>0, <2>2, PopQueued
  <1>3. CASE \E a \in Actor : Clears(t, a)
    BY <1>0, <1>3, ClearsNext
  <1>4. CASE \E w \in Actor : Resets(t, w)
    BY <1>4, ResetsQueued
  <1> QED
    BY <1>1, <1>2, <1>3, <1>4 DEF SharpStep

(* The steps that do not come from a task begin and end no object, and so  *)
(* all of this is kept.                                                    *)
LEMMA StaysHoused ==
    ASSUME Typed, AtHome, Settled, Housed, ClearsQueued,
           (Calm /\ CalmQueues) \/ \E t \in Worker : SharpStep(t)
    PROVE  Housed' /\ ClearsQueued'
  <1>0. Tabled
    BY DEF Housed
  <1>1. CASE Calm /\ CalmQueues
    BY <1>0, <1>1, CalmHoused, CalmQueued
  <1>2. ASSUME NEW t \in Worker, SharpStep(t)
        PROVE  Housed'
    <2>1. CASE Enters(t) \/ Grows(t) \/ Shrinks(t) \/ Blocks(t)
      BY <2>1, EntersHoused, GrowsHoused, ShrinksHoused, BlocksHoused
    <2>2. CASE Leaves(t) \/ LeavesCtor(t) \/ Destroys(t)
      BY <2>2, LeavesHoused, LeavesCtorHoused, DestroysHoused
    <2>3. CASE \E a \in Actor : MakesObject(t, a) \/ Reenters(t, a)
      BY <2>3, MakesObjectHoused, ReentersHoused
    <2>4. CASE \E a \in Actor : Clears(t, a)
      BY <1>0, <2>4, ClearsNext, ClearsHoused
    <2>5. CASE \E w \in Actor : Resets(t, w)
      BY <2>5, ResetsHoused
    <2> QED
      BY <1>2, <2>1, <2>2, <2>3, <2>4, <2>5 DEF SharpStep
  <1> QED
    BY <1>1, <1>2, StaysQueued
-----------------------------------------------------------------------------
(* All that is known of the threads and of the pages.                      *)
Places == Typed /\ AtHome /\ RightTasks /\ Roles /\ OwnedOnce /\ Housed /\ ClearsQueued

LEMMA PlacesInit ==
    ASSUME VmInit
    PROVE  Housed /\ ClearsQueued
  <1>1. /\ pc = [t \in Thread |-> IF t = Main THEN "script" ELSE "loop"]
        /\ context = [a \in Actor |-> "none"] /\ tasks = [t \in Thread |-> <<>>]
    BY DEF VmInit, Init, ThreadsInit, ActorsInit
  <1>2. /\ pages = [p \in {Own(t) : t \in Worker} |-> NoPage]
        /\ engine = [t \in Worker |-> Own(t)] /\ saved = [a \in Actor |-> NoPage]
        /\ to_clear = [t \in Worker |-> <<>>] /\ object = [a \in Actor |-> 0]
        /\ drawn = [a \in Actor |-> 0] /\ overtaken = {}
    BY DEF VmInit
  <1>3. Tabled
    <2>1. \A t \in Worker : Fit(Own(t), object, drawn) /\ Own(t)[2] = 0
      BY OwnFits
    <2>2. \A t \in Worker : Own(t) # NoPage
      BY <2>1, PageIs DEF Fit
    <2>3. Grounded(pages)
      <3>1. \A q \in DOMAIN pages : pages[q] = NoPage /\ q # NoPage
        BY <1>2, <2>2
      <3> QED
        BY <3>1 DEF Grounded
    <2>4. FitTable(pages, object, drawn)
      BY <1>2, <2>1, <2>3 DEF FitTable
    <2>5. FitEngines(engine, object, drawn)
      BY <1>2, <2>1 DEF FitEngines, Fit
    <2>6. FitSaved(saved, object, drawn)
      BY <1>2 DEF FitSaved
    <2>7. FitClears(to_clear, object, drawn)
      BY <1>2 DEF FitClears
    <2>8. FitCounts(object, drawn)
      BY <1>2, MaxPagesAssumption DEF FitCounts
    <2> QED
      BY <1>2, <2>4, <2>5, <2>6, <2>7, <2>8 DEF Tabled
  <1>4. Occupied /\ EnginesHome
    <2>1. \A t \in Worker : pc[t] = "loop" /\ engine[t][2] = 0
      BY <1>1, <1>2, OwnFits, ThreadAssumption DEF Thread
    <2> QED
      BY <2>1 DEF Occupied, EnginesHome, Busy, RunningPhp
  <1>5. HasObject
    BY <1>1 DEF HasObject
  <1>6. \A t \in Worker : tasks[t] = <<>> /\ to_clear[t] = <<>>
    BY <1>1, <1>2 DEF Thread
  <1>7. ClearsOwned
    BY <1>6 DEF ClearsOwned
  <1>8. ClearsQueued
    <2>1. Matches(<<>>, <<>>, <<>>)
      BY DEF Matches
    <2>2. Aligned(<<>>, <<>>) /\ Paired(<<>>)
      BY <2>1 DEF Aligned, Paired
    <2> QED
      BY <1>6, <2>2 DEF ClearsQueued
  <1> QED
    BY <1>3, <1>4, <1>5, <1>7, <1>8 DEF Housed

LEMMA PlacesStep ==
    ASSUME Places, [VmNext]_<<vars, vmVars>>
    PROVE  /\ Settled /\ Housed' /\ ClearsQueued'
           /\ (Calm /\ CalmQueues) \/ (fault = "none" /\ \E t \in Worker : SharpStep(t))
  <1>1. [Next]_vars
    BY VmStepIsStep
  <1>2. Settled
    BY <1>1, StaysAtHome DEF Places
  <1>3. (Calm /\ CalmQueues) \/ (fault = "none" /\ \E t \in Worker : SharpStep(t))
    BY StepsAre DEF Places, Roles
  <1> QED
    BY <1>2, <1>3, StaysHoused DEF Places

LEMMA PlacesKnown == VmSpec => []Places
  <1>1. VmInit => Housed /\ ClearsQueued
    BY PlacesInit
  <1>2. Places /\ [VmNext]_<<vars, vmVars>> => Housed' /\ ClearsQueued'
    BY PlacesStep
  <1>3. Typed /\ AtHome /\ RightTasks /\ Roles /\ OwnedOnce /\ Housed /\ ClearsQueued
          <=> Places
    BY DEF Places
  <1>4. VmSpec => [](Typed /\ AtHome /\ RightTasks /\ Roles /\ OwnedOnce)
    BY ImplementsActorSystem, TypedAlways, AlwaysAtHome, TasksAlwaysRight, RolesAlways,
       AlwaysOwnedOnce, PTL
  <1> QED
    BY <1>1, <1>2, <1>3, <1>4, PTL DEF VmSpec

(* Every VM stack that a thread, a context, a task or a page names is one  *)
(* that phactor or PHP has allocated for a thread or an object, and no     *)
(* NULL page is queued or run on.                                          *)
THEOREM VmTyped == VmSpec => []VmTypeOK
  <1>1. Places => VmTypeOK
    <2> SUFFICES ASSUME Places PROVE VmTypeOK
      OBVIOUS
    <2>1. Tabled
      BY DEF Places, Housed
    <2>2. Live \subseteq Page /\ \A p \in Live : pages[p] \in Page \cup {NoPage}
      BY <2>1 DEF Tabled, FitTable, Fit, Live
    <2> QED
      BY <2>1, <2>2 DEF Tabled, FitEngines, FitSaved, FitClears, FitCounts, VmTypeOK
  <1> QED
    BY <1>1, PlacesKnown, PTL
-----------------------------------------------------------------------------
(* Which pages are whose: for an actor a on its thread h.                  *)
SoundIn(pg, p) == p \in DOMAIN pg /\ End(pg, p) = <<p[1], p[2], 0>>
FirstIn(pg, p) == p \in DOMAIN pg /\ p[3] = 0
IsOvertaken(a, p) == <<a, p[2]>> \in overtaken
IsNext(a, h) == pc[h] \in {"loop", "pop"} /\ tasks[h] # <<>> /\ Head(tasks[h]) = NewTask(a)
StartsIn(q, a) == {i \in DOMAIN q : q[i] = NewTask(a)}

(* While its code runs, it is on the chain of its present object.          *)
OnPages(a, h) == Executes(a, h) =>
    /\ SoundIn(pages, engine[h])
    /\ engine[h][2] = object[a] /\ saved[a][2] = object[a]
    /\ context[a] # "saved"
    /\ Early(h) => engine[h][3] = 0 /\ saved[a] = engine[h]
OneObject(pg, a) == \A p \in DOMAIN pg : p[1] = a /\ pg[p] # NoPage => pg[p][2] = p[2]
Present(a) == a \in by_ref /\ context[a] # "none" => saved[a][2] = object[a]

(* What it waits on is sound; the pages of an object that was overtaken by *)
(* a restart may be gone, but then its next object comes before a resume.  *)
WaitsSound(a, h) == context[a] = "saved" /\ heap[a] = "live" =>
    SoundIn(pages, saved[a]) \/ (IsOvertaken(a, saved[a]) /\ (a \in by_ref => IsNext(a, h)))
NotLeftOn(a, h) == context[a] = "saved" /\ engine[h][1] = a => engine[h][2] # saved[a][2]

(* The object whose pages are to be cleared is not executed before.        *)
RestsUntilCleared(a, h) == \A i \in DOMAIN to_clear[h] :
    to_clear[h][i][1] = a /\ to_clear[h][i][2] = saved[a][2] /\ ~IsOvertaken(a, saved[a])
       => ~Executes(a, h) /\ context[a] = "blank"
RestsOnFirst(a, h) ==
    heap[a] = "live"
        /\ (context[a] = "blank" \/ (context[a] = "stale" /\ ~Executes(a, h)))
        /\ ~IsOvertaken(a, saved[a])
    => FirstIn(pages, saved[a])
ClearsSound(a, h) == heap[a] = "live" => \A i \in DOMAIN to_clear[h] :
    to_clear[h][i][1] = a /\ ~IsOvertaken(a, to_clear[h][i]) =>
       /\ SoundIn(pages, to_clear[h][i])
       /\ \A j \in DOMAIN to_clear[h] :
            j # i /\ to_clear[h][j][1] = a /\ to_clear[h][j][2] = to_clear[h][i][2]
              => to_clear[h][i][3] = 0 \/ to_clear[h][j][3] = 0

(* The objects it is still to get are known to be overtaken, all but one.  *)
StartsCounted(a, h) ==
    LET n == Cardinality(StartsIn(tasks[h], a)) IN
    /\ \A k \in 1 .. (n - 1) : <<a, object[a] + k>> \in overtaken
    /\ n # 0 /\ (context[a] = "saved" \/ Executes(a, h)) => <<a, object[a]>> \in overtaken

(* Deep pages are in use, kept, or to be cleared.                          *)
DeepHeld(a, h) == fault = "none" => \A p \in DOMAIN pages :
    p[1] = a /\ p[3] # 0 /\ ~IsOvertaken(a, p) =>
       \/ Executes(a, h) /\ p \in Chain(pages, engine[h])
       \/ context[a] = "saved" /\ p \in Chain(pages, saved[a])
       \/ \E i \in DOMAIN to_clear[h] :
            to_clear[h][i][1] = a /\ p \in Chain(pages, to_clear[h][i])

Kept(a, h) ==
    /\ OnPages(a, h) /\ OneObject(pages, a) /\ Present(a) /\ WaitsSound(a, h) /\ NotLeftOn(a, h)
    /\ RestsUntilCleared(a, h) /\ RestsOnFirst(a, h) /\ ClearsSound(a, h)
    /\ StartsCounted(a, h) /\ DeepHeld(a, h)

PagesKept == \A a \in Actor \ raced : Kept(a, thread_offset[a])

-----------------------------------------------------------------------------
LEMMA ChainOfObject ==
    ASSUME NEW pg, NEW ob, NEW dr, FitTable(pg, ob, dr), NEW a, OneObject(pg, a),
           NEW p \in DOMAIN pg, p[1] = a
    PROVE  \A q \in Chain(pg, p) : q \in DOMAIN pg /\ q[1] = a /\ q[2] = p[2]
  <1> DEFINE T == {q \in DOMAIN pg : q[1] = a /\ q[2] = p[2]}
  <1>1. Grounded(pg)
    BY DEF FitTable
  <1>2. ASSUME NEW r \in DOMAIN pg, r \in T, pg[r] \in DOMAIN pg
        PROVE  pg[r] \in T
    <2>1. pg[r] \in Page
      BY <1>2 DEF FitTable, Fit
    <2>2. pg[r] # NoPage
      BY <2>1, PageIs
    <2> QED
      BY <1>2, <2>2 DEF FitTable, OneObject
  <1>3. p \in T
    OBVIOUS
  <1> HIDE DEF T
  <1>4. Chain(pg, p) \subseteq T
    BY <1>1, <1>2, <1>3, ChainWithin
  <1> QED
    BY <1>4 DEF T

(* The end of a page's chain is a page of the same object.                 *)
LEMMA EndOfObject ==
    ASSUME NEW pg, NEW ob, NEW dr, FitTable(pg, ob, dr), NEW a, OneObject(pg, a),
           NEW p, p[1] = a
    PROVE  End(pg, p)[1] = a /\ End(pg, p)[2] = p[2]
  <1>1. CASE p \in DOMAIN pg
    <2>1. End(pg, p) \in Chain(pg, p)
      BY <1>1, EndIs DEF FitTable
    <2> QED
      BY <1>1, <2>1, ChainOfObject
  <1>2. CASE p \notin DOMAIN pg
    BY <1>2 DEF End
  <1> QED
    BY <1>1, <1>2

LEMMA FirstIs ==
    ASSUME NEW pg, NEW ob, NEW dr, FitTable(pg, ob, dr), NEW p, FirstIn(pg, p)
    PROVE  /\ pg[p] = NoPage /\ pg[p] \notin DOMAIN pg
           /\ Chain(pg, p) = {p} /\ End(pg, p) = p
           /\ p = <<p[1], p[2], 0>> /\ SoundIn(pg, p)
  <1>1. p \in DOMAIN pg /\ p[3] = 0 /\ Grounded(pg) /\ p \in Page
    BY DEF FirstIn, FitTable, Fit
  <1>2. pg[p] = NoPage
    BY <1>1 DEF FitTable
  <1>3. pg[p] \notin DOMAIN pg
    <2>1. \A q \in DOMAIN pg : q \in Page
      BY DEF FitTable, Fit
    <2> QED
      BY <1>2, <2>1, PageIs
  <1>4. Chain(pg, p) = {p}
    BY <1>1, <1>3, ChainUnfolds
  <1>5. End(pg, p) = p
    BY <1>1, <1>3, EndUnfolds
  <1>6. p = <<p[1], p[2], 0>>
    BY <1>1, PageIs
  <1> QED
    BY <1>1, <1>2, <1>3, <1>4, <1>5, <1>6 DEF SoundIn

(* A sound page that is a first page, and the first page of a sound one.   *)
LEMMA SoundFirst ==
    ASSUME NEW pg, NEW ob, NEW dr, FitTable(pg, ob, dr), NEW p, SoundIn(pg, p)
    PROVE  /\ FirstIn(pg, End(pg, p)) /\ End(pg, p)[3] = 0
           /\ p[3] = 0 => End(pg, p) = p /\ Chain(pg, p) = {p}
  <1>1. p \in DOMAIN pg /\ End(pg, p) = <<p[1], p[2], 0>> /\ Grounded(pg)
    BY DEF SoundIn, FitTable
  <1>2. End(pg, p) \in DOMAIN pg
    BY <1>1, EndIs, ChainInside
  <1>3. End(pg, p)[3] = 0
    BY <1>1
  <1>4. p[3] = 0 => FirstIn(pg, p)
    BY <1>1 DEF FirstIn
  <1> QED
    BY <1>2, <1>3, <1>4, FirstIs DEF FirstIn

(* Pages freed elsewhere.                                                  *)
LEMMA FreedApart ==
    ASSUME NEW pg, NEW ob, NEW dr, FitTable(pg, ob, dr), NEW S, NEW p \in DOMAIN pg,
           \A q \in Chain(pg, p) : q \notin S
    PROVE  /\ p \in DOMAIN Without(pg, S) /\ Chain(Without(pg, S), p) = Chain(pg, p)
           /\ SoundIn(pg, p) => SoundIn(Without(pg, S), p)
           /\ FirstIn(pg, p) => FirstIn(Without(pg, S), p)
  <1>1. /\ p \in DOMAIN Without(pg, S) /\ Chain(Without(pg, S), p) = Chain(pg, p)
        /\ End(Without(pg, S), p) = End(pg, p)
    BY FreeingElsewhere DEF FitTable
  <1> QED
    BY <1>1 DEF SoundIn, FirstIn

(* ph_vmcontext_clear leaves first pages alone.                            *)
LEMMA FirstUncleared ==
    ASSUME NEW pg, NEW ob, NEW dr, FitTable(pg, ob, dr), NEW c, NEW p, FirstIn(pg, p)
    PROVE  LET pg2 == Without(pg, Chain(pg, c) \ {End(pg, c)}) IN
           FirstIn(pg2, p) /\ SoundIn(pg2, p)
  <1> DEFINE S == Chain(pg, c) \ {End(pg, c)}
  <1>1. p \in DOMAIN pg /\ pg[p] \notin DOMAIN pg /\ p = <<p[1], p[2], 0>> /\ p[3] = 0 /\ Grounded(pg)
    BY FirstIs DEF FirstIn, FitTable
  <1>2. p \notin S
    <2>1. CASE c \in DOMAIN pg
      BY <1>1, <2>1, EndIs
    <2>2. CASE c \notin DOMAIN pg
      BY <2>2 DEF Chain
    <2> QED
      BY <2>1, <2>2
  <1> HIDE DEF S
  <1>3. p \in DOMAIN Without(pg, S) /\ End(Without(pg, S), p) = p
    BY <1>1, <1>2, FirstPageStays
  <1>4. FirstIn(Without(pg, S), p) /\ SoundIn(Without(pg, S), p)
    BY <1>1, <1>3 DEF FirstIn, SoundIn
  <1> QED
    BY <1>4 DEF S

LEMMA WithoutSameObject ==
    ASSUME NEW pg, NEW a, OneObject(pg, a), NEW S
    PROVE  OneObject(Without(pg, S), a)
  BY DEF OneObject, Without

LEMMA ExtendedSameObject ==
    ASSUME NEW pg, NEW a, OneObject(pg, a), NEW n, NEW v, n \notin DOMAIN pg,
           n[1] = a /\ v # NoPage => v[2] = n[2]
    PROVE  OneObject(Extended(pg, n, v), a)
  BY DEF OneObject, Extended
-----------------------------------------------------------------------------
(* What other threads and other actors do leaves all of this alone.        *)
SameClears(a, c, c2) ==
    /\ \E d \in {0, 1} : \A i \in DOMAIN c2 :
         c2[i][1] = a => i + d \in DOMAIN c /\ c[i + d] = c2[i]
    /\ \A i \in DOMAIN c : c[i][1] = a => \E j \in DOMAIN c2 : c2[j] = c[i]

SamePages(a, pg, pg2) ==
    /\ \A p \in DOMAIN pg : p[1] = a =>
         /\ p \in DOMAIN pg2 /\ pg2[p] = pg[p]
         /\ Chain(pg2, p) = Chain(pg, p) /\ End(pg2, p) = End(pg, p)
    /\ \A p \in DOMAIN pg2 : p[1] = a => p \in DOMAIN pg

FewerStarts(a, q, q2) == Cardinality(StartsIn(q2, a)) <= Cardinality(StartsIn(q, a))

Apart(a, h) ==
    /\ Executes(a, h)' <=> Executes(a, h)
    /\ Executes(a, h) => engine'[h] = engine[h] /\ (Early(h)' => Early(h))
    /\ engine'[h][1] = a => engine'[h] = engine[h] \/ engine'[h][2] = 0
    /\ object'[a] = object[a] /\ saved'[a] = saved[a] /\ context'[a] = context[a]
    /\ heap'[a] = "live" => heap[a] = "live"
    /\ a \in by_ref' => a \in by_ref \/ context[a] = "none"
    /\ \A k : <<a, k>> \in overtaken' <=> <<a, k>> \in overtaken
    /\ IsNext(a, h) => IsNext(a, h)'
    /\ FewerStarts(a, tasks[h], tasks'[h])
    /\ SameClears(a, to_clear[h], to_clear'[h])
    /\ SamePages(a, pages, pages')
    /\ fault' = "none" => fault = "none"

LEMMA StartsFinite ==
    ASSUME NEW S, NEW q \in Seq(S), NEW a
    PROVE  IsFiniteSet(StartsIn(q, a)) /\ Cardinality(StartsIn(q, a)) \in Nat
  <1>1. IsFiniteSet(DOMAIN q)
    <2>1. DOMAIN q = 1 .. Len(q) /\ 1 \in Int /\ Len(q) \in Int
      OBVIOUS
    <2> QED
      BY <2>1, FS_Interval
  <1>2. StartsIn(q, a) \subseteq DOMAIN q
    BY DEF StartsIn
  <1> QED
    BY <1>1, <1>2, FS_Subset, FS_CardinalityType

LEMMA OwnSaved ==
    ASSUME Housed, NEW a \in Actor
    PROVE  /\ saved[a] # NoPage => saved[a] \in Page /\ saved[a][1] = a /\ saved[a][2] # 0
           /\ context[a] # "none" => saved[a] # NoPage
           /\ \A t \in Worker : \A i \in DOMAIN to_clear[t] :
                 to_clear[t][i][1] = a => saved[a] # NoPage
  <1>1. saved[a] # NoPage => saved[a] \in Page /\ saved[a][1] = a /\ saved[a][2] # 0
    BY DEF Housed, Tabled, FitSaved, Fit
  <1>2. context[a] # "none" => saved[a] # NoPage
    BY DEF Housed, HasObject
  <1> QED
    BY <1>1, <1>2 DEF Housed, ClearsOwned

LEMMA SameSound ==
    ASSUME NEW a, NEW pg, NEW pg2, SamePages(a, pg, pg2), NEW p, p[1] = a
    PROVE  /\ SoundIn(pg, p) => SoundIn(pg2, p)
           /\ FirstIn(pg, p) => FirstIn(pg2, p)
           /\ p \in DOMAIN pg2 => Chain(pg2, p) = Chain(pg, p)
           /\ p \in DOMAIN pg => Chain(pg2, p) = Chain(pg, p)
  BY DEF SamePages, SoundIn, FirstIn

LEMMA ApartKeeps ==
    ASSUME Typed, Typed', Housed, Housed', NEW a \in Actor, NEW h \in Worker, Kept(a, h), Apart(a, h)
    PROVE  Kept(a, h)'
  <1>1. /\ Executes(a, h)' <=> Executes(a, h)
        /\ Executes(a, h) => engine'[h] = engine[h] /\ (Early(h)' => Early(h))
        /\ engine'[h][1] = a => engine'[h] = engine[h] \/ engine'[h][2] = 0
        /\ object'[a] = object[a] /\ saved'[a] = saved[a] /\ context'[a] = context[a]
        /\ heap'[a] = "live" => heap[a] = "live"
        /\ a \in by_ref' => a \in by_ref \/ context[a] = "none"
        /\ \A k : <<a, k>> \in overtaken' <=> <<a, k>> \in overtaken
        /\ IsNext(a, h) => IsNext(a, h)'
        /\ fault' = "none" => fault = "none"
    BY DEF Apart
  <1>2. SamePages(a, pages, pages')
    BY DEF Apart
  <1>3. PICK d \in {0, 1} : \A i \in DOMAIN to_clear'[h] :
          to_clear'[h][i][1] = a => i + d \in DOMAIN to_clear[h] /\ to_clear[h][i + d] = to_clear'[h][i]
    BY DEF Apart, SameClears
  <1>4. \A i \in DOMAIN to_clear[h] : to_clear[h][i][1] = a =>
          \E j \in DOMAIN to_clear'[h] : to_clear'[h][j] = to_clear[h][i]
    BY DEF Apart, SameClears
  <1>5. \A p : IsOvertaken(a, p)' <=> IsOvertaken(a, p)
    BY <1>1 DEF IsOvertaken
  <1>6. OnPages(a, h)'
    <2> SUFFICES ASSUME Executes(a, h)'
                 PROVE  /\ SoundIn(pages', engine'[h])
                        /\ engine'[h][2] = object'[a] /\ saved'[a][2] = object'[a]
                        /\ context'[a] # "saved"
                        /\ Early(h)' => engine'[h][3] = 0 /\ saved'[a] = engine'[h]
      BY DEF OnPages
    <2>1. Executes(a, h) /\ engine'[h] = engine[h] /\ (Early(h)' => Early(h))
      BY <1>1
    <2>2. /\ SoundIn(pages, engine[h])
          /\ engine[h][2] = object[a] /\ saved[a][2] = object[a]
          /\ context[a] # "saved"
          /\ Early(h) => engine[h][3] = 0 /\ saved[a] = engine[h]
      BY <2>1 DEF Kept, OnPages
    <2>3. engine[h][1] = a
      BY <2>1 DEF Housed, Occupied, Executes
    <2>4. SoundIn(pages', engine[h])
      BY <1>2, <2>2, <2>3, SameSound
    <2> QED
      BY <1>1, <2>1, <2>2, <2>4
  <1>7. OneObject(pages', a)
    BY <1>2 DEF Kept, OneObject, SamePages
  <1>8. Present(a)'
    BY <1>1 DEF Kept, Present
  <1>9. WaitsSound(a, h)'
    <2> SUFFICES ASSUME context'[a] = "saved", heap'[a] = "live"
                 PROVE  \/ SoundIn(pages', saved'[a])
                        \/ IsOvertaken(a, saved[a])' /\ (a \in by_ref' => IsNext(a, h)')
      BY DEF WaitsSound
    <2>1. context[a] = "saved" /\ heap[a] = "live" /\ saved[a][1] = a
      BY <1>1, OwnSaved
    <2>2. \/ SoundIn(pages, saved[a])
          \/ IsOvertaken(a, saved[a]) /\ (a \in by_ref => IsNext(a, h))
      BY <2>1 DEF Kept, WaitsSound
    <2>3. SoundIn(pages, saved[a]) => SoundIn(pages', saved[a])
      BY <1>2, <2>1, SameSound
    <2> QED
      BY <1>1, <2>1, <2>2, <2>3 DEF IsOvertaken
  <1>10. NotLeftOn(a, h)'
    <2> SUFFICES ASSUME context'[a] = "saved", engine'[h][1] = a
                 PROVE  engine'[h][2] # saved'[a][2]
      BY DEF NotLeftOn
    <2>1. context[a] = "saved" /\ saved[a][2] # 0
      BY <1>1, OwnSaved
    <2> QED
      BY <1>1, <2>1 DEF Kept, NotLeftOn
  <1>11. RestsUntilCleared(a, h)'
    <2> SUFFICES ASSUME NEW i \in DOMAIN to_clear'[h], to_clear'[h][i][1] = a,
                        to_clear'[h][i][2] = saved'[a][2], ~IsOvertaken(a, saved[a])'
                 PROVE  ~Executes(a, h)' /\ context'[a] = "blank"
      BY DEF RestsUntilCleared
    <2>1. i + d \in DOMAIN to_clear[h] /\ to_clear[h][i + d] = to_clear'[h][i]
      BY <1>3
    <2>2. ~IsOvertaken(a, saved[a])
      BY <1>1 DEF IsOvertaken
    <2> QED
      BY <1>1, <2>1, <2>2 DEF Kept, RestsUntilCleared
  <1>12. RestsOnFirst(a, h)'
    <2> SUFFICES ASSUME heap'[a] = "live", ~IsOvertaken(a, saved[a])',
                        context'[a] = "blank" \/ (context'[a] = "stale" /\ ~Executes(a, h)')
                 PROVE  FirstIn(pages', saved'[a])
      BY DEF RestsOnFirst
    <2>1. saved[a][1] = a /\ ~IsOvertaken(a, saved[a])
      BY <1>1, OwnSaved DEF IsOvertaken
    <2>2. FirstIn(pages, saved[a])
      BY <1>1, <2>1 DEF Kept, RestsOnFirst
    <2> QED
      BY <1>1, <1>2, <2>1, <2>2, SameSound
  <1>13. ClearsSound(a, h)'
    <2> SUFFICES ASSUME heap'[a] = "live", NEW i \in DOMAIN to_clear'[h],
                        to_clear'[h][i][1] = a, ~IsOvertaken(a, to_clear[h][i])'
                 PROVE  /\ SoundIn(pages', to_clear'[h][i])
                        /\ \A j \in DOMAIN to_clear'[h] :
                             j # i /\ to_clear'[h][j][1] = a /\ to_clear'[h][j][2] = to_clear'[h][i][2]
                               => to_clear'[h][i][3] = 0 \/ to_clear'[h][j][3] = 0
      BY DEF ClearsSound
    <2>1. PICK p : p = to_clear'[h][i]
      OBVIOUS
    <2>2. i + d \in DOMAIN to_clear[h] /\ to_clear[h][i + d] = p /\ p[1] = a
      BY <1>3, <2>1
    <2>3. ~IsOvertaken(a, p)
      BY <1>1, <2>1 DEF IsOvertaken
    <2>4. /\ SoundIn(pages, p)
          /\ \A j \in DOMAIN to_clear[h] :
               j # i + d /\ to_clear[h][j][1] = a /\ to_clear[h][j][2] = p[2]
                 => p[3] = 0 \/ to_clear[h][j][3] = 0
      BY <1>1, <2>2, <2>3 DEF Kept, ClearsSound
    <2>5. SoundIn(pages', p)
      BY <1>2, <2>2, <2>4, SameSound
    <2>6. ASSUME NEW j \in DOMAIN to_clear'[h], j # i, to_clear'[h][j][1] = a,
                 to_clear'[h][j][2] = p[2]
          PROVE  p[3] = 0 \/ to_clear'[h][j][3] = 0
      <3>1. j + d \in DOMAIN to_clear[h] /\ to_clear[h][j + d] = to_clear'[h][j]
        BY <1>3, <2>6
      <3>2. j + d # i + d
        <4>1. i \in Int /\ j \in Int
          <5>1. to_clear'[h] \in Seq(Page)
            BY DEF Housed, Tabled, FitClears
          <5> QED
            BY <5>1
        <4> QED
          BY <2>6, <4>1
      <3> QED
        BY <2>4, <2>6, <3>1, <3>2
    <2> QED
      BY <2>1, <2>5, <2>6
  <1>14. StartsCounted(a, h)'
    <2>1. PICK n \in Int : n = Cardinality(StartsIn(tasks[h], a)) /\ n >= 0
      <3>1. tasks[h] \in Seq(Task)
        BY Shapes DEF Housed
      <3> QED
        BY <3>1, StartsFinite
    <2>2. PICK m \in Int : m = Cardinality(StartsIn(tasks'[h], a)) /\ m >= 0 /\ m <= n
      <3>1. PICK q \in Seq(Task) : q = tasks'[h]
        BY DEF Typed, TypeOK, QueueTypes, Thread
      <3>2. Cardinality(StartsIn(q, a)) \in Nat
        BY StartsFinite
      <3> QED
        BY <2>1, <3>1, <3>2 DEF Apart, FewerStarts
    <2>3. /\ \A k \in 1 .. (n - 1) : <<a, object[a] + k>> \in overtaken
          /\ n # 0 /\ (context[a] = "saved" \/ Executes(a, h)) => <<a, object[a]>> \in overtaken
      BY <2>1 DEF Kept, StartsCounted
    <2>4. /\ \A k \in 1 .. (m - 1) : <<a, object'[a] + k>> \in overtaken'
          /\ m # 0 /\ (context'[a] = "saved" \/ Executes(a, h)') => <<a, object'[a]>> \in overtaken'
      BY <1>1, <2>1, <2>2, <2>3
    <2> QED
      BY <2>2, <2>4 DEF StartsCounted
  <1>15. DeepHeld(a, h)'
    <2> SUFFICES ASSUME fault' = "none", NEW p \in DOMAIN pages', p[1] = a, p[3] # 0,
                        ~IsOvertaken(a, p)'
                 PROVE  \/ Executes(a, h)' /\ p \in Chain(pages', engine'[h])
                        \/ context'[a] = "saved" /\ p \in Chain(pages', saved'[a])
                        \/ \E i \in DOMAIN to_clear'[h] :
                             to_clear'[h][i][1] = a /\ p \in Chain(pages', to_clear'[h][i])
      BY DEF DeepHeld
    <2>1. p \in DOMAIN pages /\ ~IsOvertaken(a, p) /\ fault = "none"
      BY <1>1, <1>2 DEF SamePages, IsOvertaken
    <2>2. \A r : r[1] = a /\ p \in Chain(pages, r) => p \in Chain(pages', r)
      <3>1. \A r : p \in Chain(pages, r) => r \in DOMAIN pages
        BY DEF Chain
      <3> QED
        BY <1>2, <3>1, SameSound
    <2>3. CASE Executes(a, h) /\ p \in Chain(pages, engine[h])
      BY <1>1, <2>2, <2>3 DEF Housed, Occupied, Executes
    <2>4. CASE context[a] = "saved" /\ p \in Chain(pages, saved[a])
      BY <1>1, <2>2, <2>4, OwnSaved
    <2>5. CASE \E i \in DOMAIN to_clear[h] : to_clear[h][i][1] = a /\ p \in Chain(pages, to_clear[h][i])
      BY <1>4, <2>2, <2>5
    <2> QED
      BY <2>1, <2>3, <2>4, <2>5 DEF Kept, DeepHeld
  <1> QED
    BY <1>6, <1>7, <1>8, <1>9, <1>10, <1>11, <1>12, <1>13, <1>14, <1>15 DEF Kept
-----------------------------------------------------------------------------
(* How many starts of an actor are queued, as tasks come and go.           *)
LEMMA StartsTail ==
    ASSUME NEW q \in Seq(Task), q # <<>>, NEW a
    PROVE  Cardinality(StartsIn(Tail(q), a)) =
             IF Head(q) = NewTask(a) THEN Cardinality(StartsIn(q, a)) - 1
             ELSE Cardinality(StartsIn(q, a))
  <1> DEFINE T == StartsIn(Tail(q), a)
             S == StartsIn(q, a) \ {1}
             f == [i \in T |-> i + 1]
  <1>1. /\ Tail(q) \in Seq(Task) /\ 1 \in DOMAIN q /\ Head(q) = q[1]
        /\ \A i \in DOMAIN Tail(q) : i \in Nat \ {0} /\ i + 1 \in DOMAIN q /\ Tail(q)[i] = q[i + 1]
        /\ \A i \in DOMAIN q : /\ i \in Nat
                               /\ i # 1 => i - 1 \in DOMAIN Tail(q) /\ Tail(q)[i - 1] = q[i]
    BY TailIs
  <1>2. T \subseteq DOMAIN Tail(q) /\ S \subseteq DOMAIN q
    BY DEF StartsIn
  <1>3. \A i \in T : i \in Nat \ {0} /\ i + 1 \in S
    BY <1>1 DEF StartsIn
  <1>4. \A j \in S : j \in Nat /\ j - 1 \in T
    BY <1>1 DEF StartsIn
  <1>5. IsFiniteSet(T) /\ IsFiniteSet(StartsIn(q, a)) /\ Cardinality(StartsIn(q, a)) \in Nat
    BY <1>1, StartsFinite
  <1>6. ExistsBijection(T, S)
    <2> HIDE DEF T, S
    <2>1. f \in [T -> S]
      BY <1>3
    <2>2. \A i, j \in T : f[i] = f[j] => i = j
      BY <1>3
    <2>3. \A j \in S : \E i \in T : f[i] = j
      <3> SUFFICES ASSUME NEW j \in S PROVE \E i \in T : f[i] = j
        OBVIOUS
      <3>1. j - 1 \in T /\ (j - 1) + 1 = j
        BY <1>4
      <3> QED
        BY <3>1
    <2> HIDE DEF f
    <2>4. f \in Bijection(T, S)
      BY <2>1, <2>2, <2>3 DEF Bijection, Injection, Surjection, IsInjective
    <2> QED
      BY <2>4 DEF ExistsBijection
  <1>7. Cardinality(T) = Cardinality(S)
    BY <1>5, <1>6, FS_Bijection
  <1>8. Cardinality(S) = IF 1 \in StartsIn(q, a) THEN Cardinality(StartsIn(q, a)) - 1
                         ELSE Cardinality(StartsIn(q, a))
    BY <1>5, FS_RemoveElement
  <1>9. 1 \in StartsIn(q, a) <=> Head(q) = NewTask(a)
    BY <1>1 DEF StartsIn
  <1> QED
    BY <1>7, <1>8, <1>9

LEMMA StartsAppend ==
    ASSUME NEW q \in Seq(Task), NEW x \in Task, NEW a
    PROVE  Cardinality(StartsIn(Append(q, x), a)) =
             IF x = NewTask(a) THEN Cardinality(StartsIn(q, a)) + 1
             ELSE Cardinality(StartsIn(q, a))
  <1> DEFINE n == Len(q) + 1
  <1>1. /\ DOMAIN Append(q, x) = DOMAIN q \cup {n} /\ n \notin DOMAIN q
        /\ \A i \in DOMAIN q : Append(q, x)[i] = q[i]
        /\ Append(q, x)[n] = x
    OBVIOUS
  <1>2. IsFiniteSet(StartsIn(q, a))
    BY StartsFinite
  <1> HIDE DEF n
  <1>3. CASE x = NewTask(a)
    <2>1. StartsIn(Append(q, x), a) = StartsIn(q, a) \cup {n}
      BY <1>1, <1>3 DEF StartsIn
    <2>2. n \notin StartsIn(q, a)
      BY <1>1 DEF StartsIn
    <2> QED
      BY <1>2, <1>3, <2>1, <2>2, FS_AddElement
  <1>4. CASE x # NewTask(a)
    <2>1. StartsIn(Append(q, x), a) = StartsIn(q, a)
      BY <1>1, <1>4 DEF StartsIn
    <2> QED
      BY <1>4, <2>1
  <1> QED
    BY <1>3, <1>4

LEMMA TasksApart ==
    ASSUME NEW a, NEW b
    PROVE  /\ NewTask(a) = NewTask(b) <=> a = b
           /\ NewTask(a) # ResumeTask(b) /\ NewTask(a) # FreeTask(b) /\ ResumeTask(a) # FreeTask(b)
           /\ FreeTask(a) = FreeTask(b) <=> a = b
           /\ ResumeTask(a) = ResumeTask(b) <=> a = b
  <1>1. NewTask(a).actor = a /\ NewTask(b).actor = b /\ FreeTask(a).actor = a
        /\ FreeTask(b).actor = b /\ ResumeTask(a).actor = a /\ ResumeTask(b).actor = b
    BY DEF NewTask, FreeTask, ResumeTask
  <1>2. NewTask(a).type = "NEW_ACTOR" /\ FreeTask(b).type = "FREE_VM_STACK"
        /\ ResumeTask(b).type = "RESUME_ACTOR" /\ ResumeTask(a).type = "RESUME_ACTOR"
    BY DEF NewTask, FreeTask, ResumeTask
  <1> QED
    BY <1>1, <1>2

-----------------------------------------------------------------------------
(* Everything of an actor that is not in raced is on its own thread.       *)
HomeOf(a, h) ==
    \A t \in Worker : t # h =>
        /\ ~Executes(a, t)
        /\ engine[t][1] = a => engine[t][2] = 0
        /\ \A i \in DOMAIN to_clear[t] : to_clear[t][i][1] # a
        /\ a \notin actor_removals[t]
        /\ \A task \in {ResumeTask(a), NewTask(a), FreeTask(a)} : ~Queued(t, task)
        /\ StartsIn(tasks[t], a) = {}

LEMMA AllAtHome ==
    ASSUME Places, NEW a \in Actor \ raced
    PROVE  HomeOf(a, thread_offset[a])
  <1> SUFFICES ASSUME NEW t \in Worker, t # thread_offset[a]
               PROVE  /\ ~Executes(a, t)
                      /\ engine[t][1] = a => engine[t][2] = 0
                      /\ \A i \in DOMAIN to_clear[t] : to_clear[t][i][1] # a
                      /\ a \notin actor_removals[t]
                      /\ \A task \in {ResumeTask(a), NewTask(a), FreeTask(a)} : ~Queued(t, task)
                      /\ StartsIn(tasks[t], a) = {}
    BY DEF HomeOf
  <1>1. ~Homely(a, t)
    BY DEF Homely
  <1>2. ~Executes(a, t)
    BY <1>1, RunHomely DEF Places, Housed, Executes
  <1>3. engine[t][1] = a => engine[t][2] = 0
    BY <1>1 DEF Places, Housed, EnginesHome
  <1>4. t \in Thread
    BY DEF Thread
  <1>5. a \notin actor_removals[t] /\ ~AwaitsTask(a, t)
    BY <1>1, <1>4 DEF Places, AtHome, Confined, AwaitsFree
  <1>6. \A task \in {ResumeTask(a), NewTask(a), FreeTask(a)} : ~Queued(t, task)
    BY <1>5 DEF AwaitsTask
  <1>7. \A i \in DOMAIN to_clear[t] : to_clear[t][i][1] # a
    <2> SUFFICES ASSUME NEW i \in DOMAIN to_clear[t], to_clear[t][i][1] = a PROVE FALSE
      OBVIOUS
    <2>1. PICK f : Matches(f, tasks[t], to_clear[t])
      BY DEF Places, ClearsQueued, Aligned
    <2>2. f[i] \in DOMAIN tasks[t] /\ tasks[t][f[i]] = FreeTask(a)
      BY <2>1 DEF Matches
    <2> QED
      BY <1>6, <2>2 DEF Queued
  <1>8. StartsIn(tasks[t], a) = {}
    BY <1>6 DEF StartsIn, Queued
  <1> QED
    BY <1>2, <1>3, <1>5, <1>6, <1>7, <1>8

LEMMA NotHere ==
    ASSUME NEW a, NEW h, HomeOf(a, h), NEW t \in Worker,
           \/ Executes(a, t)
           \/ engine[t][1] = a /\ engine[t][2] # 0
           \/ tasks[t] # <<>> /\ tasks[t] \in Seq(Task)
                /\ Head(tasks[t]) \in {ResumeTask(a), NewTask(a), FreeTask(a)}
           \/ a \in actor_removals[t]
           \/ \E i \in DOMAIN to_clear[t] : to_clear[t][i][1] = a
    PROVE  t = h
  <1>1. CASE tasks[t] # <<>> /\ tasks[t] \in Seq(Task)
                /\ Head(tasks[t]) \in {ResumeTask(a), NewTask(a), FreeTask(a)}
    <2>1. 1 \in DOMAIN tasks[t] /\ Head(tasks[t]) = tasks[t][1]
      BY <1>1
    <2> QED
      BY <1>1, <2>1 DEF HomeOf, Queued
  <1> QED
    BY <1>1 DEF HomeOf
-----------------------------------------------------------------------------
(* What is done to one actor is apart from every other.                    *)
LEMMA PagesExtendedElse ==
    ASSUME NEW pg, Grounded(pg), NEW n, NEW v, n \notin DOMAIN pg, v # n,
           \A q \in DOMAIN pg : pg[q] # n, NEW a, n[1] # a
    PROVE  SamePages(a, pg, Extended(pg, n, v))
  <1>1. LET pg2 == Extended(pg, n, v) IN
        /\ DOMAIN pg2 = DOMAIN pg \cup {n}
        /\ Grounded(pg2)
        /\ pg2[n] = v
        /\ \A p \in DOMAIN pg : /\ pg2[p] = pg[p]
                                /\ Chain(pg2, p) = Chain(pg, p)
                                /\ End(pg2, p) = End(pg, p)
        /\ Chain(pg2, n) = {n} \cup IF v \in DOMAIN pg THEN Chain(pg, v) ELSE {}
        /\ End(pg2, n) = IF v \in DOMAIN pg THEN End(pg, v) ELSE n
    BY ExtensionDoes, SMTT(60)
  <1>2. PICK pg2 : pg2 = Extended(pg, n, v)
    OBVIOUS
  <1>3. \A p \in DOMAIN pg2 : p[1] = a => p \in DOMAIN pg
    BY <1>1, <1>2
  <1>4. SamePages(a, pg, pg2)
    BY <1>1, <1>2, <1>3 DEF SamePages
  <1> QED
    BY <1>2, <1>4

LEMMA PagesFreedElse ==
    ASSUME NEW pg, NEW ob, NEW dr, FitTable(pg, ob, dr), NEW S, NEW a,
           \A q \in S : q[1] # a
    PROVE  SamePages(a, pg, Without(pg, S))
  <1>1. ASSUME NEW p \in DOMAIN pg, p[1] = a
        PROVE  /\ p \in DOMAIN Without(pg, S) /\ Without(pg, S)[p] = pg[p]
               /\ Chain(Without(pg, S), p) = Chain(pg, p)
               /\ End(Without(pg, S), p) = End(pg, p)
    <2>1. \A q \in Chain(pg, p) : q[1] = a
      BY <1>1, ChainFits
    <2>2. \A q \in Chain(pg, p) : q \notin S
      BY <2>1
    <2> QED
      BY <1>1, <2>2, FreeingElsewhere DEF FitTable
  <1>2. DOMAIN Without(pg, S) \subseteq DOMAIN pg
    BY DEF Without
  <1> QED
    BY <1>1, <1>2 DEF SamePages

LEMMA ClearsAppended ==
    ASSUME NEW c \in Seq(Page), NEW p \in Page, NEW a
    PROVE  /\ DOMAIN c \subseteq DOMAIN Append(c, p)
           /\ \A i \in DOMAIN c : Append(c, p)[i] = c[i]
           /\ \A i \in DOMAIN Append(c, p) :
                i \in DOMAIN c \/ (i = Len(c) + 1 /\ Append(c, p)[i] = p)
           /\ p[1] # a => SameClears(a, c, Append(c, p))
  <1>1. /\ DOMAIN c \subseteq DOMAIN Append(c, p)
        /\ \A i \in DOMAIN c : Append(c, p)[i] = c[i]
        /\ \A i \in DOMAIN Append(c, p) :
             i \in DOMAIN c \/ (i = Len(c) + 1 /\ Append(c, p)[i] = p)
    OBVIOUS
  <1>2. \A i \in DOMAIN c : i + 0 = i
    OBVIOUS
  <1> QED
    BY <1>1, <1>2 DEF SameClears

LEMMA ClearsTaken ==
    ASSUME NEW c \in Seq(Page), c # <<>>, NEW a, c[1][1] # a
    PROVE  SameClears(a, c, Tail(c))
  <1>1. /\ \A i \in DOMAIN Tail(c) : i + 1 \in DOMAIN c /\ Tail(c)[i] = c[i + 1]
        /\ \A i \in DOMAIN c : i # 1 => i - 1 \in DOMAIN Tail(c) /\ Tail(c)[i - 1] = c[i]
    BY TailIs
  <1> QED
    BY <1>1 DEF SameClears

LEMMA ClearsSame ==
    ASSUME NEW c \in Seq(Page), NEW a
    PROVE  SameClears(a, c, c)
  <1>1. \A i \in DOMAIN c : i + 0 = i
    OBVIOUS
  <1> QED
    BY <1>1 DEF SameClears

LEMMA PagesSame ==
    ASSUME NEW pg, NEW a
    PROVE  SamePages(a, pg, pg)
  BY DEF SamePages

LEMMA StartsSame ==
    ASSUME NEW q \in Seq(Task), NEW a
    PROVE  FewerStarts(a, q, q)
  <1>1. Cardinality(StartsIn(q, a)) \in Nat
    BY StartsFinite
  <1> QED
    BY <1>1 DEF FewerStarts

LEMMA StartsTaken ==
    ASSUME NEW q \in Seq(Task), q # <<>>, NEW a
    PROVE  FewerStarts(a, q, Tail(q))
  <1>1. Cardinality(StartsIn(q, a)) \in Nat
    BY StartsFinite
  <1> QED
    BY <1>1, StartsTail DEF FewerStarts

(* One thread t moves, and neither runs b nor came from running it.        *)
LEMMA ApartWhenMoved ==
    ASSUME NEW t \in Worker, NEW b, NEW h \in Worker,
           \A u \in Worker \ {t} : /\ pc'[u] = pc[u] /\ current'[u] = current[u]
                                   /\ engine'[u] = engine[u],
           ~Executes(b, t), ~Executes(b, t)',
           engine'[t][1] = b => engine'[t] = engine[t] \/ engine'[t][2] = 0,
           object'[b] = object[b], saved'[b] = saved[b], context'[b] = context[b],
           heap'[b] = "live" => heap[b] = "live",
           b \in by_ref' => b \in by_ref,
           \A k : <<b, k>> \in overtaken' <=> <<b, k>> \in overtaken,
           IsNext(b, h) => IsNext(b, h)',
           FewerStarts(b, tasks[h], tasks'[h]),
           SameClears(b, to_clear[h], to_clear'[h]),
           SamePages(b, pages, pages'),
           fault' = "none" => fault = "none"
    PROVE  Apart(b, h)
  <1>1. h # t => (Executes(b, h)' <=> Executes(b, h)) /\ (Early(h)' <=> Early(h))
    BY DEF Executes, Busy, Early
  <1>2. engine'[h][1] = b => engine'[h] = engine[h] \/ engine'[h][2] = 0
    OBVIOUS
  <1>3. Executes(b, h)' <=> Executes(b, h)
    BY <1>1
  <1>4. Executes(b, h) => engine'[h] = engine[h] /\ (Early(h)' => Early(h))
    BY <1>1
  <1> QED
    BY <1>2, <1>3, <1>4 DEF Apart

(* The same queue, at a thread that does not move or is not between tasks. *)
LEMMA NextStays ==
    ASSUME NEW t, NEW h, NEW b, tasks'[h] = tasks[h], t # h => pc'[h] = pc[h],
           pc[t] \notin {"loop", "pop"} \/ pc'[t] \in {"loop", "pop"}
    PROVE  IsNext(b, h) => IsNext(b, h)'
  BY DEF IsNext
-----------------------------------------------------------------------------
LEMMA SeqsAt ==
    ASSUME Places, NEW h \in Worker
    PROVE  tasks[h] \in Seq(Task) /\ to_clear[h] \in Seq(Page) /\ h \in Thread
  BY Shapes DEF Places, Housed, Thread

LEMMA HomeIs ==
    ASSUME Places, NEW b \in Actor
    PROVE  thread_offset[b] \in Worker
  BY Shapes DEF Places, Housed

LEMMA PoppedElse ==
    ASSUME Places, NEW t \in Worker, NEW h \in Worker, NEW b,
           tasks[t] # <<>>, Head(tasks[t]) # NewTask(b), tasks'[t] = Tail(tasks[t]),
           \A u \in Worker \ {t} : tasks'[u] = tasks[u] /\ pc'[u] = pc[u]
    PROVE  /\ IsNext(b, h) => IsNext(b, h)'
           /\ FewerStarts(b, tasks[h], tasks'[h])
  <1>1. tasks[h] \in Seq(Task)
    BY SeqsAt
  <1>2. CASE h = t
    <2>1. FewerStarts(b, tasks[h], Tail(tasks[h]))
      BY <1>1, <1>2, StartsTaken
    <2> QED
      BY <1>2, <2>1 DEF IsNext
  <1>3. CASE h # t
    <2>1. FewerStarts(b, tasks[h], tasks[h])
      BY <1>1, StartsSame
    <2> QED
      BY <1>3, <2>1 DEF IsNext
  <1> QED
    BY <1>2, <1>3

LEMMA MakesObjectElse ==
    ASSUME Places, NEW t \in Worker, NEW a \in Actor, MakesObject(t, a),
           NEW b \in Actor \ raced, b # a
    PROVE  Apart(b, thread_offset[b])
  <1> DEFINE p == <<a, object[a] + 1, 0>>
  <1>1. PICK h \in Worker : h = thread_offset[b]
    BY HomeIs
  <1>2. SamePages(b, pages, pages')
    <2>1. /\ \A q : Fit(q, object, drawn) => Fit(q, object', drawn')
          /\ ~Fit(p, object, drawn) /\ Fit(p, object', drawn') /\ p # NoPage
      BY MadePage DEF Places, Housed
    <2>2. FitTable(pages, object, drawn) /\ Grounded(pages)
      BY DEF Places, Housed, Tabled, FitTable
    <2>3. p[1] # b
      OBVIOUS
    <2> HIDE DEF p
    <2>4. p \notin DOMAIN pages /\ NoPage # p /\ \A q \in DOMAIN pages : pages[q] # p
      BY <2>1, <2>2, ExtendedFits
    <2>5. SamePages(b, pages, Extended(pages, p, NoPage))
      BY <2>2, <2>3, <2>4, PagesExtendedElse
    <2> QED
      BY <2>5 DEF MakesObject, p
  <1>3. /\ IsNext(b, h) => IsNext(b, h)'
        /\ FewerStarts(b, tasks[h], tasks'[h])
    <2>1. tasks \in [Thread -> Seq(Task)] /\ pc \in [Thread -> PC] /\ Worker \subseteq Thread
      BY Shapes DEF Places, Housed
    <2>2. /\ tasks[t] # <<>> /\ Head(tasks[t]) # NewTask(b) /\ tasks'[t] = Tail(tasks[t])
          /\ \A u \in Worker \ {t} : tasks'[u] = tasks[u] /\ pc'[u] = pc[u]
      BY <2>1, TasksApart DEF MakesObject
    <2> QED
      BY <2>2, PoppedElse
  <1>4. SameClears(b, to_clear[h], to_clear'[h])
    <2>1. SameClears(b, to_clear[h], to_clear[h])
      BY SeqsAt, ClearsSame
    <2> QED
      BY <2>1 DEF MakesObject
  <1>5. /\ \A u \in Worker \ {t} : /\ pc'[u] = pc[u] /\ current'[u] = current[u]
                                   /\ engine'[u] = engine[u]
        /\ ~Executes(b, t) /\ ~Executes(b, t)'
        /\ engine'[t][1] = a
        /\ object'[b] = object[b] /\ saved'[b] = saved[b] /\ context'[b] = context[b]
    <2>1. /\ pc \in [Thread -> PC] /\ current \in [Thread -> Actor \cup {NoActor}]
          /\ engine \in [Worker -> Page] /\ saved \in [Actor -> Page \cup {NoPage}]
          /\ context \in [Actor -> Context] /\ object \in [Actor -> Nat] /\ Worker \subseteq Thread
      BY Shapes DEF Places, Housed
    <2>2. engine'[t] = p
      BY <2>1 DEF MakesObject
    <2>3. ~Executes(b, t)
      BY DEF Executes, Busy, MakesObject, RunningPhp
    <2>4. ~Executes(b, t)'
      <3>1. (pc'[t] = "ctor" /\ current'[t] = a) \/ pc'[t] = "loop"
        BY <2>1 DEF MakesObject
      <3> QED
        BY <3>1 DEF Executes, Busy, RunningPhp
    <2>5. /\ \A u \in Worker \ {t} : /\ pc'[u] = pc[u] /\ current'[u] = current[u]
                                     /\ engine'[u] = engine[u]
      BY <2>1 DEF MakesObject
    <2>6. object'[b] = object[b] /\ saved'[b] = saved[b] /\ context'[b] = context[b]
      BY <2>1 DEF MakesObject
    <2> QED
      BY <2>2, <2>3, <2>4, <2>5, <2>6
  <1>6. UNCHANGED <<heap, by_ref, overtaken, fault>>
    BY DEF MakesObject, othersVars
  <1> HIDE DEF p
  <1>7. Apart(b, h)
    BY <1>2, <1>3, <1>4, <1>5, <1>6, ApartWhenMoved
  <1> QED
    BY <1>1, <1>7

LEMMA ReentersElse ==
    ASSUME Places, NEW t \in Worker, NEW a \in Actor, Reenters(t, a),
           NEW b \in Actor \ raced, b # a
    PROVE  Apart(b, thread_offset[b])
  <1>1. PICK h \in Worker : h = thread_offset[b]
    BY HomeIs
  <1>2. SamePages(b, pages, pages')
    BY PagesSame DEF Reenters
  <1>3. /\ pc \in [Thread -> PC] /\ current \in [Thread -> Actor \cup {NoActor}]
        /\ engine \in [Worker -> Page] /\ context \in [Actor -> Context]
        /\ tasks \in [Thread -> Seq(Task)] /\ Worker \subseteq Thread
    BY Shapes DEF Places, Housed
  <1>4. /\ IsNext(b, h) => IsNext(b, h)'
        /\ FewerStarts(b, tasks[h], tasks'[h])
    <2>1. /\ tasks[t] # <<>> /\ Head(tasks[t]) # NewTask(b) /\ tasks'[t] = Tail(tasks[t])
          /\ \A u \in Worker \ {t} : tasks'[u] = tasks[u] /\ pc'[u] = pc[u]
      BY <1>3, TasksApart DEF Reenters
    <2> QED
      BY <2>1, PoppedElse
  <1>5. SameClears(b, to_clear[h], to_clear'[h])
    <2>1. SameClears(b, to_clear[h], to_clear[h])
      BY SeqsAt, ClearsSame
    <2> QED
      BY <2>1 DEF Reenters
  <1>6. /\ \A u \in Worker \ {t} : /\ pc'[u] = pc[u] /\ current'[u] = current[u]
                                   /\ engine'[u] = engine[u]
        /\ object'[b] = object[b] /\ saved'[b] = saved[b] /\ context'[b] = context[b]
    BY <1>3 DEF Reenters
  <1>7. ~Executes(b, t) /\ ~Executes(b, t)'
    <2>1. current'[t] = a
      BY <1>3 DEF Reenters
    <2>2. pc[t] = "pop"
      BY DEF Reenters
    <2> QED
      BY <2>1, <2>2 DEF Executes, Busy, RunningPhp
  <1>8. engine'[t][1] = a
    <2>1. engine'[t] = saved[a] /\ context[a] # "none"
      BY <1>3 DEF Reenters
    <2> QED
      BY <2>1, OwnSaved DEF Places
  <1>9. UNCHANGED <<heap, by_ref, overtaken, fault>>
    BY DEF Reenters, othersVars
  <1>10. Apart(b, h)
    BY <1>2, <1>4, <1>5, <1>6, <1>7, <1>8, <1>9, ApartWhenMoved
  <1> QED
    BY <1>1, <1>10
-----------------------------------------------------------------------------
(* What a thread does to the actor it runs.                                *)
LEMMA RunningElse ==
    ASSUME Places, NEW t \in Worker, NEW b \in Actor, b # current[t], Busy(t),
           \A u \in Worker \ {t} : /\ pc'[u] = pc[u] /\ current'[u] = current[u]
                                   /\ engine'[u] = engine[u],
           ~Executes(b, t)', engine'[t][1] # b \/ engine'[t][2] = 0,
           saved'[b] = saved[b], context'[b] = context[b], by_ref' \subseteq by_ref,
           UNCHANGED <<tasks, to_clear, object, heap, overtaken, fault>>,
           SamePages(b, pages, pages')
    PROVE  Apart(b, thread_offset[b])
  <1>1. PICK h \in Worker : h = thread_offset[b]
    BY HomeIs
  <1>2. tasks[h] \in Seq(Task) /\ to_clear[h] \in Seq(Page)
    BY SeqsAt
  <1>3. FewerStarts(b, tasks[h], tasks'[h])
    <2>1. FewerStarts(b, tasks[h], tasks[h])
      BY <1>2, StartsSame
    <2> QED
      BY <2>1
  <1>4. SameClears(b, to_clear[h], to_clear'[h])
    <2>1. SameClears(b, to_clear[h], to_clear[h])
      BY <1>2, ClearsSame
    <2> QED
      BY <2>1
  <1>5. IsNext(b, h) => IsNext(b, h)'
    BY DEF IsNext, Busy, RunningPhp
  <1>6. ~Executes(b, t)
    BY DEF Executes
  <1>7. Apart(b, h)
    BY <1>3, <1>4, <1>5, <1>6, ApartWhenMoved
  <1> QED
    BY <1>1, <1>7

LEMMA GrowsElse ==
    ASSUME Places, NEW t \in Worker, Grows(t), NEW b \in Actor, b # current[t]
    PROVE  Apart(b, thread_offset[b])
  <1> DEFINE p == <<current[t], object[current[t]], drawn[current[t]] + 1>>
  <1>1. /\ pc \in [Thread -> PC] /\ current \in [Thread -> Actor \cup {NoActor}]
        /\ engine \in [Worker -> Page] /\ Worker \subseteq Thread
    BY Shapes DEF Places, Housed
  <1>2. SamePages(b, pages, pages')
    <2>1. /\ \A q : Fit(q, object, drawn) => Fit(q, object', drawn')
          /\ ~Fit(p, object, drawn) /\ Fit(p, object', drawn') /\ p # NoPage
          /\ Fit(engine[t], object, drawn) /\ engine[t][1] = p[1] /\ engine[t][2] # 0
          /\ p[2] # 0 /\ p[3] # 0
      BY GrownPage DEF Places, Housed
    <2>2. FitTable(pages, object, drawn) /\ Grounded(pages)
      BY DEF Places, Housed, Tabled, FitTable
    <2>3. p[1] # b
      OBVIOUS
    <2> HIDE DEF p
    <2>4. p \notin DOMAIN pages /\ engine[t] # p /\ \A q \in DOMAIN pages : pages[q] # p
      BY <2>1, <2>2, ExtendedFits
    <2>5. SamePages(b, pages, Extended(pages, p, engine[t]))
      BY <2>2, <2>3, <2>4, PagesExtendedElse
    <2> QED
      BY <2>5 DEF Grows, p
  <1>3. engine'[t][1] = current[t] /\ \A u \in Worker \ {t} : engine'[u] = engine[u]
    BY <1>1 DEF Grows
  <1>4. UNCHANGED <<pc, current, context, saved, by_ref, tasks, to_clear, object, heap, overtaken, fault>>
    BY DEF Grows, othersVars
  <1>5. Busy(t) /\ ~Executes(b, t)'
    BY <1>4 DEF Grows, Busy, RunningPhp, Executes
  <1> HIDE DEF p
  <1> QED
    BY <1>2, <1>3, <1>4, <1>5, RunningElse

LEMMA ShrinksElse ==
    ASSUME Places, NEW t \in Worker, Shrinks(t), NEW b \in Actor, b # current[t]
    PROVE  Apart(b, thread_offset[b])
  <1>1. engine \in [Worker -> Page]
    BY Shapes DEF Places, Housed
  <1>2. pages[engine[t]][1] = current[t] /\ engine[t][1] = current[t]
    BY ShrinksTo DEF Places, Housed
  <1>3. SamePages(b, pages, pages')
    <2>1. \A q \in {engine[t]} : q[1] # b
      BY <1>2
    <2> QED
      BY <2>1, PagesFreedElse DEF Places, Housed, Tabled, Shrinks
  <1>4. engine'[t][1] = current[t] /\ \A u \in Worker \ {t} : engine'[u] = engine[u]
    BY <1>1, <1>2 DEF Shrinks
  <1>5. UNCHANGED <<pc, current, context, saved, by_ref, tasks, to_clear, object, heap, overtaken, fault>>
    BY DEF Shrinks, othersVars
  <1>6. Busy(t) /\ ~Executes(b, t)'
    BY <1>5 DEF Shrinks, Busy, RunningPhp, Executes
  <1> QED
    BY <1>3, <1>4, <1>5, <1>6, RunningElse

LEMMA EntersElse ==
    ASSUME Places, NEW t \in Worker, Enters(t), NEW b \in Actor, b # current[t]
    PROVE  Apart(b, thread_offset[b])
  <1>1. /\ pc \in [Thread -> PC] /\ current \in [Thread -> Actor \cup {NoActor}]
        /\ engine \in [Worker -> Page] /\ Worker \subseteq Thread
    BY Shapes DEF Places, Housed
  <1>2. SamePages(b, pages, pages')
    BY PagesSame DEF Enters
  <1>3. Busy(t)
    BY DEF Enters, Busy, RunningPhp
  <1>4. current[t] \in Actor /\ context[current[t]] # "none"
    BY <1>3 DEF Places, Housed, Occupied
  <1>5. engine'[t][1] = current[t]
    BY <1>1, <1>4, OwnSaved DEF Places, Enters
  <1>6. \A u \in Worker \ {t} : pc'[u] = pc[u] /\ current'[u] = current[u] /\ engine'[u] = engine[u]
    BY <1>1 DEF Enters
  <1>7. UNCHANGED <<current, context, saved, by_ref, tasks, to_clear, object, heap, overtaken, fault>>
    BY DEF Enters, othersVars
  <1>8. ~Executes(b, t)'
    BY <1>7 DEF Executes
  <1> QED
    BY <1>2, <1>3, <1>5, <1>6, <1>7, <1>8, RunningElse

LEMMA BlocksElse ==
    ASSUME Places, NEW t \in Worker, Blocks(t), NEW b \in Actor, b # current[t]
    PROVE  Apart(b, thread_offset[b])
  <1>1. /\ pc \in [Thread -> PC] /\ current \in [Thread -> Actor \cup {NoActor}]
        /\ engine \in [Worker -> Page] /\ Worker \subseteq Thread
        /\ saved \in [Actor -> Page \cup {NoPage}] /\ context \in [Actor -> Context]
    BY Shapes DEF Places, Housed
  <1>2. SamePages(b, pages, pages')
    BY PagesSame DEF Blocks
  <1>3. Busy(t)
    BY DEF Blocks, Busy, RunningPhp
  <1>4. engine'[t][2] = 0
    BY <1>1 DEF Blocks, Own
  <1>5. \A u \in Worker \ {t} : pc'[u] = pc[u] /\ current'[u] = current[u] /\ engine'[u] = engine[u]
    BY <1>1 DEF Blocks
  <1>6. saved'[b] = saved[b] /\ context'[b] = context[b]
    BY <1>1 DEF Blocks
  <1>7. UNCHANGED <<by_ref, tasks, to_clear, object, heap, overtaken, fault>>
    BY DEF Blocks, othersVars
  <1>8. ~Executes(b, t)'
    <2>1. pc'[t] = "loop"
      BY <1>1 DEF Blocks
    <2> QED
      BY <2>1 DEF Executes, Busy, RunningPhp
  <1> QED
    BY <1>2, <1>3, <1>4, <1>5, <1>6, <1>7, <1>8, RunningElse

LEMMA LeavesElse ==
    ASSUME Places, NEW t \in Worker, Leaves(t), NEW b \in Actor, b # current[t]
    PROVE  Apart(b, thread_offset[b])
  <1>1. /\ pc \in [Thread -> PC] /\ current \in [Thread -> Actor \cup {NoActor}]
        /\ engine \in [Worker -> Page] /\ Worker \subseteq Thread
        /\ saved \in [Actor -> Page \cup {NoPage}]
    BY Shapes DEF Places, Housed
  <1>2. Busy(t)
    BY DEF Leaves, Busy, RunningPhp
  <1>3. engine[t][1] = current[t] /\ engine[t] \in Page
    BY <1>1, <1>2 DEF Places, Housed, Occupied
  <1>4. SamePages(b, pages, pages')
    <2> DEFINE S == Chain(pages, engine[t]) \ {End(pages, engine[t])}
    <2>1. \A q \in S : q[1] # b
      <3>1. CASE engine[t] \in DOMAIN pages
        BY <1>3, <3>1, ChainFits DEF Places, Housed, Tabled
      <3>2. CASE engine[t] \notin DOMAIN pages
        BY <3>2 DEF Chain
      <3> QED
        BY <3>1, <3>2
    <2>2. pages' = Without(pages, S)
      BY DEF Leaves
    <2> HIDE DEF S
    <2> QED
      BY <2>1, <2>2, PagesFreedElse DEF Places, Housed, Tabled
  <1>5. engine'[t][2] = 0
    BY <1>1 DEF Leaves, Own
  <1>6. PICK label \in {"loop", "crash"} : pc' = [pc EXCEPT ![t] = label]
    BY DEF Leaves
  <1>7. PICK x : current' = [current EXCEPT ![t] = x]
    BY DEF Leaves
  <1>8. \A u \in Worker \ {t} : pc'[u] = pc[u] /\ current'[u] = current[u] /\ engine'[u] = engine[u]
    BY <1>1, <1>6, <1>7 DEF Leaves
  <1>9. saved'[b] = saved[b] /\ context'[b] = context[b]
    BY <1>1 DEF Leaves
  <1>10. UNCHANGED <<tasks, to_clear, object, heap, overtaken, fault>> /\ by_ref' \subseteq by_ref
    BY DEF Leaves
  <1>11. ~Executes(b, t)'
    <2>1. pc'[t] = label
      BY <1>1, <1>6
    <2> QED
      BY <2>1 DEF Executes, Busy, RunningPhp
  <1> QED
    BY <1>2, <1>4, <1>5, <1>8, <1>9, <1>10, <1>11, RunningElse

LEMMA LeavesCtorElse ==
    ASSUME Places, NEW t \in Worker, LeavesCtor(t), NEW b \in Actor, b # current[t]
    PROVE  Apart(b, thread_offset[b])
  <1>1. pc \in [Thread -> PC] /\ Worker \subseteq Thread
    BY Shapes DEF Places, Housed
  <1>2. SamePages(b, pages, pages')
    BY PagesSame DEF LeavesCtor, vmVars
  <1>3. Busy(t) /\ ~Executes(b, t)'
    BY <1>1 DEF LeavesCtor, Busy, RunningPhp, Executes
  <1>4. UNCHANGED <<current, context, saved, engine, by_ref, tasks, to_clear, object, heap, overtaken, fault>>
    BY DEF LeavesCtor, vmVars, othersVars
  <1>5. engine'[t][1] # b
    BY <1>3, <1>4 DEF Places, Housed, Occupied
  <1>6. \A u \in Worker \ {t} : pc'[u] = pc[u] /\ current'[u] = current[u] /\ engine'[u] = engine[u]
    BY <1>1, <1>4 DEF LeavesCtor
  <1> QED
    BY <1>2, <1>3, <1>4, <1>5, <1>6, RunningElse
-----------------------------------------------------------------------------
LEMMA RestartQueue ==
    ASSUME NEW q \in Seq(Task), NEW w \in Actor
    PROVE  /\ RestartTasks(w) = IF context[w] = "none" THEN <<NewTask(w)>>
                                ELSE <<FreeTask(w), NewTask(w)>>
           /\ q \o <<NewTask(w)>> = Append(q, NewTask(w))
           /\ q \o <<FreeTask(w), NewTask(w)>> = Append(Append(q, FreeTask(w)), NewTask(w))
           /\ Append(q, FreeTask(w)) \in Seq(Task) /\ NewTask(w) \in Task /\ FreeTask(w) \in Task
  <1>1. NewTask(w) \in Task /\ FreeTask(w) \in Task
    BY OwnTasks
  <1>2. \A x, y \in Task : /\ q \o <<x>> = Append(q, x)
                           /\ q \o <<y, x>> = Append(Append(q, y), x)
                           /\ Append(q, y) \in Seq(Task)
    OBVIOUS
  <1> QED
    BY <1>1, <1>2 DEF RestartTasks

LEMMA RestartStarts ==
    ASSUME NEW q \in Seq(Task), NEW w \in Actor, NEW b
    PROVE  LET q2 == q \o RestartTasks(w) IN
           /\ Cardinality(StartsIn(q2, b)) =
                IF b = w THEN Cardinality(StartsIn(q, b)) + 1 ELSE Cardinality(StartsIn(q, b))
           /\ q # <<>> => q2 # <<>> /\ Head(q2) = Head(q)
  <1>1. /\ RestartTasks(w) = IF context[w] = "none" THEN <<NewTask(w)>>
                             ELSE <<FreeTask(w), NewTask(w)>>
        /\ q \o <<NewTask(w)>> = Append(q, NewTask(w))
        /\ q \o <<FreeTask(w), NewTask(w)>> = Append(Append(q, FreeTask(w)), NewTask(w))
        /\ Append(q, FreeTask(w)) \in Seq(Task) /\ NewTask(w) \in Task /\ FreeTask(w) \in Task
    BY RestartQueue
  <1>2. NewTask(w) = NewTask(b) <=> b = w
    BY TasksApart
  <1>3. FreeTask(w) # NewTask(b)
    BY TasksApart
  <1>4. Cardinality(StartsIn(q, b)) \in Nat
    BY StartsFinite
  <1>5. Cardinality(StartsIn(Append(q, FreeTask(w)), b)) = Cardinality(StartsIn(q, b))
    BY <1>1, <1>3, StartsAppend
  <1>6. \A r \in Seq(Task) : Cardinality(StartsIn(Append(r, NewTask(w)), b)) =
                IF b = w THEN Cardinality(StartsIn(r, b)) + 1 ELSE Cardinality(StartsIn(r, b))
    BY <1>1, <1>2, StartsAppend
  <1>7. \A r \in Seq(Task) : r # <<>> => \A x \in Task : Append(r, x) # <<>> /\ Head(Append(r, x)) = Head(r)
    OBVIOUS
  <1>8. \A r \in Seq(Task) : \A x \in Task : Append(r, x) # <<>>
    OBVIOUS
  <1>9. CASE context[w] = "none"
    <2>1. q \o RestartTasks(w) = Append(q, NewTask(w))
      BY <1>1, <1>9
    <2> QED
      BY <1>1, <1>6, <1>7, <2>1
  <1>10. CASE context[w] # "none"
    <2>1. PICK r \in Seq(Task) : r = Append(q, FreeTask(w))
      BY <1>1
    <2>2. q \o RestartTasks(w) = Append(r, NewTask(w))
      BY <1>1, <1>10, <2>1
    <2>3. Cardinality(StartsIn(r, b)) = Cardinality(StartsIn(q, b))
      BY <1>5, <2>1
    <2>4. q # <<>> => r # <<>> /\ Head(r) = Head(q)
      BY <1>1, <1>7, <2>1
    <2>5. r # <<>> => Append(r, NewTask(w)) # <<>> /\ Head(Append(r, NewTask(w))) = Head(r)
      BY <1>1, <1>7
    <2> QED
      BY <1>6, <2>2, <2>3, <2>4, <2>5
  <1> QED
    BY <1>9, <1>10

(* What a restart adds to overtaken are objects of the restarted actor.    *)
LEMMA OvertakenOwn ==
    ASSUME Places, NEW w \in Actor
    PROVE  /\ \A b : b # w => \A k : <<b, k>> \notin Overtaken(w)
           /\ IsExecuted(w) <=> \E u \in Worker : Executes(w, u)
           /\ IsExecuted(w) => saved[w][1] = w /\ <<w, saved[w][2]>> \in Overtaken(w)
           /\ \A i \in 1 .. StartsQueued(w) : <<w, object[w] + i>> \in Overtaken(w)
           /\ StartsQueued(w) = Cardinality(StartsIn(tasks[thread_offset[w]], w))
  <1>1. IsExecuted(w) <=> \E u \in Worker : Executes(w, u)
    BY DEF IsExecuted, Executes, Busy
  <1>2. IsExecuted(w) => saved[w][1] = w
    <2>1. IsExecuted(w) => context[w] # "none"
      BY <1>1 DEF Places, Housed, Occupied, Executes
    <2> QED
      BY <2>1, OwnSaved DEF Places
  <1>3. IsExecuted(w) => ObjectOf(saved[w]) = <<w, saved[w][2]>>
    BY <1>2 DEF ObjectOf
  <1>4. Overtaken(w) = {<<w, object[w] + i>> : i \in 1 .. StartsQueued(w)}
                       \cup (IF IsExecuted(w) THEN {<<w, saved[w][2]>>} ELSE {})
    BY <1>3 DEF Overtaken
  <1>5. \A b : b # w => \A k : <<b, k>> \notin Overtaken(w)
    BY <1>4
  <1>6. StartsQueued(w) = Cardinality(StartsIn(tasks[thread_offset[w]], w))
    BY DEF StartsQueued, StartsIn
  <1> QED
    BY <1>1, <1>2, <1>4, <1>5, <1>6

ResetsDoes(w, o) ==
    /\ o \in Worker /\ tasks'[o] = tasks[o] \o RestartTasks(w)
    /\ \A u \in Worker : u # o => tasks'[u] = tasks[u] /\ to_clear'[u] = to_clear[u]
    /\ \A b \in Actor : b # w => saved'[b] = saved[b] /\ context'[b] = context[b]
    /\ context'[w] = IF context[w] = "none" THEN "none" ELSE "blank"
    /\ context[w] # "none" => /\ to_clear'[o] = Append(to_clear[o], saved[w])
                              /\ saved'[w] = End(pages, saved[w])
    /\ context[w] = "none" => to_clear'[o] = to_clear[o] /\ saved' = saved
    /\ \A u \in Worker : /\ Busy(u)' <=> Busy(u)
                         /\ Busy(u) => current'[u] = current[u]
                         /\ Early(u)' <=> Early(u)
                         /\ pc[u] \in {"loop", "pop"} => pc'[u] = pc[u]
    /\ UNCHANGED <<heap, by_ref, created, thread_offset, newborn, actor_removals, pages,
                   engine, object, drawn, fault>>
    /\ overtaken' = overtaken \cup Overtaken(w)
    /\ raced \subseteq raced' /\ (w \in raced' \/ Started(w) \/ w \notin created)

LEMMA ResetsAt ==
    ASSUME Places, NEW t \in Worker, NEW w \in Actor, Resets(t, w), NEW o, o = thread_offset[w]
    PROVE  ResetsDoes(w, o)
  <1>1. /\ pc \in [Thread -> PC] /\ current \in [Thread -> Actor \cup {NoActor}]
        /\ Worker \subseteq Thread /\ context \in [Actor -> Context]
        /\ tasks \in [Thread -> Seq(Task)] /\ to_clear \in [Worker -> Seq(Page)]
        /\ saved \in [Actor -> Page \cup {NoPage}] /\ thread_offset \in [Actor -> Worker]
    BY Shapes DEF Places, Housed
  <1>2. /\ o \in Worker /\ tasks'[o] = tasks[o] \o RestartTasks(w)
        /\ \A u \in Worker : u # o => tasks'[u] = tasks[u]
    <2>1. tasks' = [tasks EXCEPT ![o] = @ \o RestartTasks(w)]
      BY DEF Resets
    <2> QED
      BY <1>1, <2>1
  <1>3. /\ \A u \in Worker : u # o => to_clear'[u] = to_clear[u]
        /\ \A b \in Actor : b # w => saved'[b] = saved[b]
        /\ context[w] # "none" => /\ to_clear'[o] = Append(to_clear[o], saved[w])
                                  /\ saved'[w] = End(pages, saved[w])
        /\ context[w] = "none" => to_clear'[o] = to_clear[o] /\ saved' = saved
    <2>1. CASE context[w] # "none"
      <3>1. /\ to_clear' = [to_clear EXCEPT ![o] = Append(@, saved[w])]
            /\ saved' = [saved EXCEPT ![w] = End(pages, @)]
        BY <2>1 DEF Resets
      <3> QED
        BY <1>1, <1>2, <2>1, <3>1
    <2>2. CASE context[w] = "none"
      BY <2>2 DEF Resets
    <2> QED
      BY <2>1, <2>2
  <1>4. /\ \A b \in Actor : b # w => context'[b] = context[b]
        /\ context'[w] = IF context[w] = "none" THEN "none" ELSE "blank"
    <2>1. context' = [context EXCEPT ![w] = IF @ = "none" THEN "none" ELSE "blank"]
      BY DEF Resets
    <2> QED
      BY <1>1, <2>1
  <1>5. \A u \in Worker : /\ Busy(u)' <=> Busy(u)
                          /\ Busy(u) => current'[u] = current[u]
                          /\ Early(u)' <=> Early(u)
                          /\ pc[u] \in {"loop", "pop"} => pc'[u] = pc[u]
    <2>1. CASE /\ pc[t] = "crash" /\ pc' = [pc EXCEPT ![t] = "loop"]
               /\ current' = [current EXCEPT ![t] = NoActor]
      <3>1. \A u \in Worker \ {t} : pc'[u] = pc[u] /\ current'[u] = current[u]
        BY <1>1, <2>1
      <3>2. pc'[t] = "loop" /\ pc[t] = "crash"
        BY <1>1, <2>1
      <3> QED
        BY <3>1, <3>2 DEF Busy, Early, RunningPhp
    <2>2. CASE UNCHANGED <<pc, current>>
      BY <2>2 DEF Busy, Early
    <2> QED
      BY <2>1, <2>2 DEF Resets
  <1>6. UNCHANGED <<heap, by_ref, created, thread_offset, newborn, actor_removals, pages,
                    engine, object, drawn, fault>>
    BY DEF Resets
  <1>7. overtaken' = overtaken \cup Overtaken(w)
    BY DEF Resets
  <1>8. raced \subseteq raced' /\ (w \in raced' \/ Started(w) \/ w \notin created)
    BY DEF Resets, Started
  <1> QED
    BY <1>2, <1>3, <1>4, <1>5, <1>6, <1>7, <1>8 DEF ResetsDoes

LEMMA ResetsElse ==
    ASSUME Places, NEW t \in Worker, NEW w \in Actor, Resets(t, w),
           NEW b \in Actor, b # w
    PROVE  Apart(b, thread_offset[b])
  <1>1. PICK h \in Worker : h = thread_offset[b]
    BY HomeIs
  <1>2. PICK o \in Worker : o = thread_offset[w]
    BY HomeIs
  <1>3. /\ tasks'[o] = tasks[o] \o RestartTasks(w)
        /\ \A u \in Worker : u # o => tasks'[u] = tasks[u] /\ to_clear'[u] = to_clear[u]
        /\ saved'[b] = saved[b] /\ context'[b] = context[b]
        /\ context[w] # "none" => to_clear'[o] = Append(to_clear[o], saved[w])
        /\ context[w] = "none" => to_clear'[o] = to_clear[o]
        /\ \A u \in Worker : /\ Busy(u)' <=> Busy(u)
                             /\ Busy(u) => current'[u] = current[u]
                             /\ Early(u)' <=> Early(u)
                             /\ pc[u] \in {"loop", "pop"} => pc'[u] = pc[u]
        /\ UNCHANGED <<heap, by_ref, pages, engine, object, fault>>
        /\ overtaken' = overtaken \cup Overtaken(w)
    <2>1. ResetsDoes(w, o)
      BY <1>2, ResetsAt
    <2> QED
      BY <2>1 DEF ResetsDoes
  <1>4. /\ tasks[h] \in Seq(Task) /\ to_clear[h] \in Seq(Page)
        /\ tasks[o] \in Seq(Task) /\ to_clear[o] \in Seq(Page)
    BY SeqsAt
  <1>5. /\ FewerStarts(b, tasks[h], tasks'[h])
        /\ tasks[h] # <<>> => tasks'[h] # <<>> /\ Head(tasks'[h]) = Head(tasks[h])
    <2>1. CASE h = o
      <3>1. PICK q \in Seq(Task) : q = tasks[o]
        BY <1>4
      <3>2. PICK q2 : q2 = q \o RestartTasks(w)
        OBVIOUS
      <3>3. /\ Cardinality(StartsIn(q2, b)) = Cardinality(StartsIn(q, b))
            /\ q # <<>> => q2 # <<>> /\ Head(q2) = Head(q)
        BY <3>2, RestartStarts
      <3>4. Cardinality(StartsIn(q, b)) \in Nat
        BY StartsFinite
      <3>5. tasks[h] = q /\ tasks'[h] = q2
        BY <1>3, <2>1, <3>1, <3>2
      <3> QED
        BY <3>3, <3>4, <3>5 DEF FewerStarts
    <2>2. CASE h # o
      <3>1. FewerStarts(b, tasks[h], tasks[h])
        BY <1>4, StartsSame
      <3> QED
        BY <1>3, <2>2, <3>1
    <2> QED
      BY <2>1, <2>2
  <1>6. IsNext(b, h) => IsNext(b, h)'
    BY <1>3, <1>5 DEF IsNext
  <1>7. SameClears(b, to_clear[h], to_clear'[h])
    <2>1. CASE h = o /\ context[w] # "none"
      <3>1. saved[w] \in Page /\ saved[w][1] = w
        BY <2>1, OwnSaved DEF Places
      <3>2. SameClears(b, to_clear[o], Append(to_clear[o], saved[w]))
        BY <1>4, <3>1, ClearsAppended
      <3> QED
        BY <1>3, <2>1, <3>2
    <2>2. CASE ~(h = o /\ context[w] # "none")
      <3>1. SameClears(b, to_clear[h], to_clear[h])
        BY <1>4, ClearsSame
      <3> QED
        BY <1>3, <2>2, <3>1
    <2> QED
      BY <2>1, <2>2
  <1>8. SamePages(b, pages, pages')
    <2>1. SamePages(b, pages, pages)
      BY PagesSame
    <2> QED
      BY <1>3, <2>1
  <1>9. \A k : <<b, k>> \in overtaken' <=> <<b, k>> \in overtaken
    BY <1>3, OvertakenOwn
  <1>10. /\ Executes(b, h)' <=> Executes(b, h)
         /\ Executes(b, h) => engine'[h] = engine[h] /\ (Early(h)' => Early(h))
    BY <1>3 DEF Executes
  <1>11. Apart(b, h)
    BY <1>3, <1>5, <1>6, <1>7, <1>8, <1>9, <1>10 DEF Apart
  <1> QED
    BY <1>1, <1>11
-----------------------------------------------------------------------------
LEMMA ClearsElse ==
    ASSUME Places, fault = "none", NEW t \in Worker, NEW a \in Actor, Clears(t, a),
           NEW b \in Actor, b # a
    PROVE  Apart(b, thread_offset[b])
  <1>1. PICK h \in Worker : h = thread_offset[b]
    BY HomeIs
  <1>2. PICK p : p = Head(to_clear[t])
    OBVIOUS
  <1>3. /\ to_clear[t] # <<>> /\ to_clear[t][1][1] = a
        /\ \A u \in Worker \ {t} : tasks'[u] = tasks[u] /\ to_clear'[u] = to_clear[u]
        /\ tasks'[t] = Tail(tasks[t]) /\ to_clear'[t] = Tail(to_clear[t])
    BY ClearsNext DEF Places, Housed
  <1>4. to_clear[h] \in Seq(Page) /\ to_clear[t] \in Seq(Page)
    BY SeqsAt
  <1>5. p = to_clear[t][1] /\ p[1] = a /\ p \in Page
    BY <1>2, <1>3, <1>4
  <1>6. SamePages(b, pages, pages')
    <2> DEFINE S == Chain(pages, p) \ {End(pages, p)}
    <2>1. \A q \in S : q[1] # b
      <3>1. CASE p \in DOMAIN pages
        BY <1>5, <3>1, ChainFits DEF Places, Housed, Tabled
      <3>2. CASE p \notin DOMAIN pages
        BY <3>2 DEF Chain
      <3> QED
        BY <3>1, <3>2
    <2>2. pages' = Without(pages, S)
      BY <1>2 DEF Clears
    <2> HIDE DEF S
    <2> QED
      BY <2>1, <2>2, PagesFreedElse DEF Places, Housed, Tabled
  <1>7. /\ pc \in [Thread -> PC] /\ Worker \subseteq Thread
    BY Shapes DEF Places, Housed
  <1>8. pc[t] = "pop" /\ pc'[t] = "loop" /\ \A u \in Worker \ {t} : pc'[u] = pc[u]
    BY <1>7 DEF Clears
  <1>9. /\ IsNext(b, h) => IsNext(b, h)'
        /\ FewerStarts(b, tasks[h], tasks'[h])
    <2>1. tasks[t] # <<>> /\ Head(tasks[t]) # NewTask(b)
      BY TasksApart DEF Clears
    <2> QED
      BY <1>3, <1>8, <2>1, PoppedElse
  <1>10. SameClears(b, to_clear[h], to_clear'[h])
    <2>1. CASE h = t
      <3>1. SameClears(b, to_clear[t], Tail(to_clear[t]))
        BY <1>3, <1>4, ClearsTaken
      <3> QED
        BY <1>3, <2>1, <3>1
    <2>2. CASE h # t
      <3>1. SameClears(b, to_clear[h], to_clear[h])
        BY <1>4, ClearsSame
      <3> QED
        BY <1>3, <2>2, <3>1
    <2> QED
      BY <2>1, <2>2
  <1>11. UNCHANGED <<current, context, engine, saved, object, overtaken, heap, by_ref>>
    BY DEF Clears, othersVars
  <1>12. ~Executes(b, t) /\ ~Executes(b, t)'
    BY <1>8 DEF Executes, Busy, RunningPhp
  <1>13. Apart(b, h)
    BY <1>6, <1>8, <1>9, <1>10, <1>11, <1>12, ApartWhenMoved
  <1> QED
    BY <1>1, <1>13

LEMMA DestroysElse ==
    ASSUME Places, NEW t \in Worker, Destroys(t), NEW b \in Actor, b \notin actor_removals[t]
    PROVE  Apart(b, thread_offset[b])
  <1>1. PICK h \in Worker : h = thread_offset[b]
    BY HomeIs
  <1>2. SamePages(b, pages, pages')
    <2> DEFINE S == UNION {Chain(pages, saved[a]) : a \in actor_removals[t]}
    <2>1. \A q \in S : q[1] # b
      <3> SUFFICES ASSUME NEW a \in actor_removals[t], NEW q \in Chain(pages, saved[a])
                   PROVE  q[1] # b
        OBVIOUS
      <3>1. saved[a] \in DOMAIN pages
        BY DEF Chain
      <3>2. a \in Actor
        BY DEF Places, Typed, TypeOK, QueueTypes
      <3>3. saved[a] # NoPage
        <4>1. saved[a] \in Page
          BY <3>1 DEF Places, Housed, Tabled, FitTable, Fit
        <4> QED
          BY <4>1, PageIs
      <3>4. saved[a][1] = a
        BY <3>2, <3>3, OwnSaved DEF Places
      <3>5. q[1] = a
        BY <3>1, <3>4, ChainFits DEF Places, Housed, Tabled
      <3> QED
        BY <3>5
    <2>2. pages' = Without(pages, S)
      BY DEF Destroys
    <2> HIDE DEF S
    <2> QED
      BY <2>1, <2>2, PagesFreedElse DEF Places, Housed, Tabled
  <1>3. pc \in [Thread -> PC] /\ Worker \subseteq Thread
    BY Shapes DEF Places, Housed
  <1>4. /\ \A u \in Worker \ {t} : pc'[u] = pc[u]
        /\ (pc[t] = "loop" /\ pc'[t] = "pop") \/ (pc[t] = "spin" /\ pc'[t] = "ended")
    BY <1>3 DEF Destroys
  <1>5. UNCHANGED <<current, context, tasks, by_ref, engine, saved, to_clear, object, overtaken, fault>>
    BY DEF Destroys
  <1>6. heap'[b] = heap[b]
    BY DEF Destroys
  <1>7. IsNext(b, h) => IsNext(b, h)'
    BY <1>4, <1>5, NextStays
  <1>8. FewerStarts(b, tasks[h], tasks'[h])
    <2>1. FewerStarts(b, tasks[h], tasks[h])
      BY SeqsAt, StartsSame
    <2> QED
      BY <1>5, <2>1
  <1>9. SameClears(b, to_clear[h], to_clear'[h])
    <2>1. SameClears(b, to_clear[h], to_clear[h])
      BY SeqsAt, ClearsSame
    <2> QED
      BY <1>5, <2>1
  <1>10. ~Executes(b, t) /\ ~Executes(b, t)'
    BY <1>4 DEF Executes, Busy, RunningPhp
  <1>11. Apart(b, h)
    BY <1>2, <1>4, <1>5, <1>6, <1>7, <1>8, <1>9, <1>10, ApartWhenMoved
  <1> QED
    BY <1>1, <1>11

LEMMA CalmElse ==
    ASSUME Places, Calm, NEW b \in Actor, NEW h \in Worker,
           tasks[h] # <<>> /\ Idling(h) => Idling(h)',
           \/ tasks'[h] = tasks[h]
           \/ \E x \in Task : x # NewTask(b) /\ tasks'[h] = Append(tasks[h], x)
           \/ tasks[h] # <<>> /\ Head(tasks[h]) # NewTask(b) /\ tasks'[h] = Tail(tasks[h])
    PROVE  Apart(b, h)
  <1>1. PICK q \in Seq(Task) : q = tasks[h]
    BY SeqsAt
  <1>2. Cardinality(StartsIn(q, b)) \in Nat
    BY StartsFinite
  <1>3. /\ q # <<>> /\ Head(q) = NewTask(b) => tasks'[h] # <<>> /\ Head(tasks'[h]) = NewTask(b)
        /\ FewerStarts(b, tasks[h], tasks'[h])
    <2>1. CASE tasks'[h] = q
      BY <1>1, <1>2, <2>1, StartsSame
    <2>2. CASE \E x \in Task : x # NewTask(b) /\ tasks'[h] = Append(q, x)
      <3>1. PICK x \in Task : x # NewTask(b) /\ tasks'[h] = Append(q, x)
        BY <2>2
      <3>2. Cardinality(StartsIn(Append(q, x), b)) = Cardinality(StartsIn(q, b))
        BY <3>1, StartsAppend
      <3>3. q # <<>> => Append(q, x) # <<>> /\ Head(Append(q, x)) = Head(q)
        OBVIOUS
      <3>4. FewerStarts(b, q, Append(q, x))
        BY <1>2, <3>2 DEF FewerStarts
      <3> QED
        BY <1>1, <3>1, <3>3, <3>4
    <2>3. CASE q # <<>> /\ Head(q) # NewTask(b) /\ tasks'[h] = Tail(q)
      <3>1. FewerStarts(b, q, Tail(q))
        BY <2>3, StartsTaken
      <3> QED
        BY <1>1, <2>3, <3>1
    <2> QED
      BY <1>1, <2>1, <2>2, <2>3
  <1>4. IsNext(b, h) => IsNext(b, h)'
    BY <1>1, <1>3 DEF IsNext, Idling
  <1>5. UNCHANGED <<vmVars, context>>
    BY DEF Calm
  <1>6. SameClears(b, to_clear[h], to_clear'[h])
    <2>1. SameClears(b, to_clear[h], to_clear[h])
      BY SeqsAt, ClearsSame
    <2> QED
      BY <1>5, <2>1 DEF vmVars
  <1>7. SamePages(b, pages, pages')
    <2>1. SamePages(b, pages, pages)
      BY PagesSame
    <2> QED
      BY <1>5, <2>1 DEF vmVars
  <1>8. /\ Executes(b, h)' <=> Executes(b, h)
        /\ Executes(b, h) => engine'[h] = engine[h] /\ (Early(h)' => Early(h))
    BY DEF Calm, Executes, vmVars
  <1>9. b \in by_ref' => b \in by_ref \/ context[b] = "none"
    BY DEF Calm, Places, Housed, HasObject, Started
  <1>10. /\ engine'[h][1] = b => engine'[h] = engine[h] \/ engine'[h][2] = 0
         /\ object'[b] = object[b] /\ saved'[b] = saved[b] /\ context'[b] = context[b]
         /\ heap'[b] = "live" => heap[b] = "live"
         /\ \A k : <<b, k>> \in overtaken' <=> <<b, k>> \in overtaken
         /\ fault' = "none" => fault = "none"
    BY <1>5 DEF Calm, vmVars
  <1> QED
    BY <1>3, <1>4, <1>6, <1>7, <1>8, <1>9, <1>10 DEF Apart

(* A new actor that is handed to its thread has no pages yet.              *)
LEMMA NewbornKept ==
    ASSUME Places, Calm, NEW b \in Actor, ~Started(b), NEW h \in Worker, Kept(b, h),
           NEW o \in Worker, tasks'[o] = Append(tasks[o], NewTask(b)),
           Executes(b, o)' => Executes(b, o)
    PROVE  Kept(b, o)'
  <1>1. context[b] = "none"
    BY DEF Places, Housed, HasObject
  <1>2. \A u \in Worker : ~Executes(b, u)
    BY <1>1 DEF Places, Housed, Occupied, Executes
  <1>3. \A u \in Worker : \A i \in DOMAIN to_clear[u] : to_clear[u][i][1] # b
    BY <1>1 DEF Places, Housed, ClearsOwned
  <1>4. /\ context'[b] = "none" /\ pages' = pages /\ to_clear' = to_clear
        /\ overtaken' = overtaken /\ (fault' = "none" => fault = "none") /\ object' = object
    BY <1>1 DEF Calm, vmVars
  <1>5. ~Executes(b, o)'
    BY <1>2
  <1>6. OnPages(b, o)' /\ Present(b)' /\ WaitsSound(b, o)' /\ NotLeftOn(b, o)' /\ RestsOnFirst(b, o)'
    BY <1>4, <1>5 DEF OnPages, Present, WaitsSound, NotLeftOn, RestsOnFirst
  <1>7. OneObject(pages', b)
    BY <1>4 DEF Kept
  <1>8. RestsUntilCleared(b, o)' /\ ClearsSound(b, o)'
    BY <1>3, <1>4 DEF RestsUntilCleared, ClearsSound
  <1>9. StartsCounted(b, o)'
    <2>1. PICK q \in Seq(Task) : q = tasks[o]
      BY SeqsAt
    <2>2. StartsIn(q, b) = {}
      <3>1. ~Homely(b, o) /\ o \in Thread
        BY SeqsAt DEF Homely
      <3>2. ~AwaitsTask(b, o)
        BY <3>1 DEF Places, AtHome, Confined
      <3> QED
        BY <2>1, <3>2 DEF AwaitsTask, Queued, StartsIn
    <2>3. Cardinality(StartsIn(q, b)) = 0
      BY <2>2, FS_EmptySet
    <2>4. NewTask(b) \in Task
      BY OwnTasks
    <2>5. Cardinality(StartsIn(Append(q, NewTask(b)), b)) = 1
      BY <2>3, <2>4, StartsAppend
    <2>6. Cardinality(StartsIn(tasks'[o], b)) = 1
      BY <2>1, <2>5
    <2> QED
      BY <1>4, <1>5, <2>6 DEF StartsCounted
  <1>10. DeepHeld(b, o)'
    <2>1. fault = "none" => \A p \in DOMAIN pages :
            ~(p[1] = b /\ p[3] # 0 /\ ~IsOvertaken(b, p))
      BY <1>1, <1>2, <1>3 DEF Kept, DeepHeld
    <2> QED
      BY <1>4, <2>1 DEF DeepHeld, IsOvertaken
  <1> QED
    BY <1>6, <1>7, <1>8, <1>9, <1>10 DEF Kept

LEMMA CalmKept ==
    ASSUME Places, Typed', Housed', PagesKept, Calm, CalmQueues
    PROVE  PagesKept'
  <1> SUFFICES ASSUME NEW b \in Actor \ raced', NEW o, o = thread_offset'[b]
               PROVE  Kept(b, o)'
    BY DEF PagesKept
  <1>1. b \notin raced
    BY DEF Calm
  <1>2. PICK h \in Worker : h = thread_offset[b]
    BY HomeIs
  <1>3. Kept(b, h)
    BY <1>1, <1>2 DEF PagesKept
  <1>4. \A t \in Worker : tasks[t] # <<>> /\ Idling(t) => Idling(t)'
    BY DEF CalmQueues
  <1>5. CASE \E t \in Worker : /\ thread_offset' = thread_offset
                               /\ \/ tasks'[t] = tasks[t]
                                  \/ \E a \in Actor : tasks'[t] = Append(tasks[t], ResumeTask(a))
                                  \/ \E a \in Actor : /\ tasks[t] # <<>>
                                                      /\ Head(tasks[t]) = ResumeTask(a)
                                                      /\ tasks'[t] = Tail(tasks[t])
                               /\ \A u \in Worker \ {t} : tasks'[u] = tasks[u]
    <2>1. h = o
      BY <1>2, <1>5
    <2>2. \A a \in Actor : ResumeTask(a) \in Task /\ ResumeTask(a) # NewTask(b)
      BY OwnTasks, TasksApart
    <2>3. \/ tasks'[h] = tasks[h]
          \/ \E x \in Task : x # NewTask(b) /\ tasks'[h] = Append(tasks[h], x)
          \/ tasks[h] # <<>> /\ Head(tasks[h]) # NewTask(b) /\ tasks'[h] = Tail(tasks[h])
      BY <1>5, <2>2
    <2>4. Apart(b, h)
      BY <1>4, <2>3, CalmElse
    <2>5. Kept(b, h)'
      BY <1>3, <2>4, ApartKeeps DEF Places
    <2> QED
      BY <2>1, <2>5
  <1>6. CASE \E a \in Unscheduled, u \in Worker :
               /\ thread_offset' = [thread_offset EXCEPT ![a] = u]
               /\ tasks'[u] = Append(tasks[u], NewTask(a))
               /\ \A v \in Worker \ {u} : tasks'[v] = tasks[v]
    <2>1. PICK a \in Unscheduled, u \in Worker :
               /\ thread_offset' = [thread_offset EXCEPT ![a] = u]
               /\ tasks'[u] = Append(tasks[u], NewTask(a))
               /\ \A v \in Worker \ {u} : tasks'[v] = tasks[v]
      BY <1>6
    <2>2. thread_offset \in [Actor -> Worker]
      BY Shapes DEF Places, Housed
    <2>3. CASE a = b
      <3>1. o = u
        BY <2>1, <2>2, <2>3
      <3>2. ~Started(b)
        BY <1>1, <2>1, <2>3 DEF Started
      <3>3. Executes(b, u)' => Executes(b, u)
        BY DEF Calm, Executes
      <3>4. Kept(b, u)'
        BY <1>3, <2>1, <2>3, <3>2, <3>3, NewbornKept
      <3> QED
        BY <3>1, <3>4
    <2>4. CASE a # b
      <3>1. o = h
        BY <1>2, <2>1, <2>2, <2>4
      <3>2. a \in Actor
        BY DEF Unscheduled, Places, Typed, TypeOK, ThreadTypes
      <3>3. NewTask(a) \in Task /\ NewTask(a) # NewTask(b)
        BY <2>4, <3>2, OwnTasks, TasksApart
      <3>4. \/ tasks'[h] = tasks[h]
            \/ \E x \in Task : x # NewTask(b) /\ tasks'[h] = Append(tasks[h], x)
        BY <2>1, <3>3
      <3>5. Apart(b, h)
        BY <1>4, <3>4, CalmElse
      <3>6. Kept(b, h)'
        BY <1>3, <3>5, ApartKeeps DEF Places
      <3> QED
        BY <3>1, <3>6
    <2> QED
      BY <2>3, <2>4
  <1> QED
    BY <1>5, <1>6 DEF CalmQueues
-----------------------------------------------------------------------------
(* What is known of an actor that runs.                                    *)
RunsAs(a, t) ==
    /\ a \in Actor /\ t = thread_offset[a] /\ Kept(a, t) /\ Executes(a, t)
    /\ SoundIn(pages, engine[t]) /\ engine[t] \in Page /\ engine[t] \in DOMAIN pages
    /\ engine[t][1] = a /\ engine[t][2] = object[a] /\ engine[t][2] # 0
    /\ saved[a] \in Page /\ saved[a][1] = a /\ saved[a][2] = object[a]
    /\ context[a] # "saved" /\ context[a] # "none"
    /\ \A i \in DOMAIN to_clear[t] :
         to_clear[t][i][1] = a /\ to_clear[t][i][2] = object[a]
           => IsOvertaken(a, to_clear[t][i])

LEMMA RunIsKept ==
    ASSUME Places, PagesKept, NEW t \in Worker, Busy(t), NEW a, a = current[t], a \notin raced
    PROVE  RunsAs(a, t)
  <1>1. /\ a \in Actor /\ context[a] # "none" /\ engine[t][1] = a /\ engine[t][2] # 0
    BY DEF Places, Housed, Occupied
  <1>2. Executes(a, t)
    BY DEF Executes
  <1>3. t = thread_offset[a]
    BY <1>1, <1>2, AllAtHome, NotHere
  <1>4. Kept(a, t)
    BY <1>1, <1>3 DEF PagesKept
  <1>5. /\ SoundIn(pages, engine[t]) /\ engine[t][2] = object[a] /\ saved[a][2] = object[a]
        /\ context[a] # "saved"
    BY <1>2, <1>4 DEF Kept, OnPages
  <1>6. engine[t] \in Page
    BY Shapes DEF Places, Housed
  <1>7. saved[a] \in Page /\ saved[a][1] = a
    BY <1>1, OwnSaved DEF Places
  <1>8. ASSUME NEW i \in DOMAIN to_clear[t], to_clear[t][i][1] = a, to_clear[t][i][2] = object[a]
        PROVE  IsOvertaken(a, to_clear[t][i])
    BY <1>2, <1>4, <1>5, <1>8 DEF Kept, RestsUntilCleared, IsOvertaken
  <1>9. engine[t] \in DOMAIN pages
    BY <1>5 DEF SoundIn
  <1> QED
    BY <1>1, <1>2, <1>3, <1>4, <1>5, <1>6, <1>7, <1>8, <1>9 DEF RunsAs

LEMMA EntersKept ==
    ASSUME Places, Typed', Housed', PagesKept, NEW t \in Worker, Enters(t),
           NEW a, a = current[t], a \notin raced
    PROVE  Kept(a, t)'
  <1>1. Busy(t) /\ Early(t)
    BY DEF Enters, Busy, Early, RunningPhp
  <1>2. /\ a \in Actor /\ Kept(a, t) /\ Executes(a, t)
    <2>1. RunsAs(a, t)
      BY <1>1, RunIsKept
    <2> QED
      BY <2>1 DEF RunsAs
  <1>3. saved[a] = engine[t]
    BY <1>1, <1>2 DEF Kept, OnPages
  <1>4. /\ pc \in [Thread -> PC] /\ engine \in [Worker -> Page] /\ Worker \subseteq Thread
        /\ tasks[t] \in Seq(Task) /\ to_clear[t] \in Seq(Page)
    BY Shapes, SeqsAt DEF Places, Housed
  <1>5. engine' = engine /\ pc'[t] = "receive"
    BY <1>3, <1>4 DEF Enters
  <1>6. UNCHANGED <<current, context, saved, tasks, to_clear, object, overtaken, fault, pages,
                    heap, by_ref>>
    BY DEF Enters, othersVars
  <1>7. Executes(a, t)' /\ ~Early(t)' /\ ~IsNext(a, t)
    BY <1>5, <1>6 DEF Executes, Busy, Early, RunningPhp, IsNext, Enters
  <1>8. /\ FewerStarts(a, tasks[t], tasks[t]) /\ SameClears(a, to_clear[t], to_clear[t])
        /\ SamePages(a, pages, pages)
    BY <1>4, StartsSame, ClearsSame, PagesSame
  <1>9. Apart(a, t)
    BY <1>2, <1>5, <1>6, <1>7, <1>8 DEF Apart
  <1> QED
    BY <1>2, <1>9, ApartKeeps DEF Places

LEMMA LeavesCtorKept ==
    ASSUME Places, PagesKept, NEW t \in Worker, LeavesCtor(t),
           NEW a, a = current[t], a \notin raced
    PROVE  Kept(a, t)'
  <1>1. Busy(t) /\ Early(t)
    BY DEF LeavesCtor, Busy, Early, RunningPhp
  <1>2. /\ a \in Actor /\ Kept(a, t) /\ Executes(a, t) /\ SoundIn(pages, engine[t])
        /\ context[a] # "saved"
    <2>1. RunsAs(a, t)
      BY <1>1, RunIsKept
    <2> QED
      BY <2>1 DEF RunsAs
  <1>3. saved[a] = engine[t] /\ engine[t][3] = 0
    BY <1>1, <1>2 DEF Kept, OnPages
  <1>4. UNCHANGED <<current, context, saved, tasks, to_clear, object, overtaken, fault, pages,
                    heap, by_ref, engine>>
    BY DEF LeavesCtor, vmVars, othersVars
  <1>5. ~Executes(a, t)'
    <2>1. pc \in [Thread -> PC] /\ Worker \subseteq Thread
      BY Shapes DEF Places, Housed
    <2>2. pc'[t] = "crash"
      BY <2>1 DEF LeavesCtor
    <2> QED
      BY <2>2 DEF Executes, Busy, RunningPhp
  <1>6. FirstIn(pages, saved[a]) /\ Chain(pages, engine[t]) = {engine[t]}
    BY <1>2, <1>3, SoundFirst DEF Places, Housed, Tabled
  <1>7. OnPages(a, t)' /\ WaitsSound(a, t)' /\ NotLeftOn(a, t)'
    BY <1>2, <1>4, <1>5 DEF OnPages, WaitsSound, NotLeftOn
  <1>8. OneObject(pages', a) /\ Present(a)'
    BY <1>2, <1>4 DEF Kept, Present
  <1>9. RestsUntilCleared(a, t)'
    BY <1>2, <1>4 DEF Kept, RestsUntilCleared, IsOvertaken
  <1>10. RestsOnFirst(a, t)'
    BY <1>4, <1>6 DEF RestsOnFirst
  <1>11. ClearsSound(a, t)'
    BY <1>2, <1>4 DEF Kept, ClearsSound, IsOvertaken
  <1>12. StartsCounted(a, t)'
    BY <1>2, <1>4, <1>5 DEF Kept, StartsCounted
  <1>13. DeepHeld(a, t)'
    <2>1. \A p \in DOMAIN pages : p[1] = a /\ p[3] # 0 => p \notin Chain(pages, engine[t])
      BY <1>3, <1>6
    <2> QED
      BY <1>2, <1>4, <2>1 DEF Kept, DeepHeld, IsOvertaken
  <1> QED
    BY <1>7, <1>8, <1>9, <1>10, <1>11, <1>12, <1>13 DEF Kept

LEMMA BlocksKept ==
    ASSUME Places, PagesKept, NEW t \in Worker, Blocks(t),
           NEW a, a = current[t], a \notin raced
    PROVE  Kept(a, t)'
  <1>1. Busy(t)
    BY DEF Blocks, Busy, RunningPhp
  <1>2. /\ a \in Actor /\ Kept(a, t) /\ Executes(a, t) /\ SoundIn(pages, engine[t])
        /\ engine[t][2] = object[a] /\ engine[t][2] # 0 /\ saved[a][2] = object[a]
        /\ context[a] # "saved"
        /\ \A i \in DOMAIN to_clear[t] :
             to_clear[t][i][1] = a /\ to_clear[t][i][2] = object[a]
               => IsOvertaken(a, to_clear[t][i])
    <2>1. RunsAs(a, t)
      BY <1>1, RunIsKept
    <2> QED
      BY <2>1 DEF RunsAs
  <1>3. UNCHANGED <<tasks, to_clear, object, overtaken, fault, pages, heap, by_ref>>
    BY DEF Blocks, othersVars
  <1>4. /\ pc'[t] = "loop" /\ context'[a] = "saved" /\ saved'[a] = engine[t] /\ engine'[t] = Own(t)
    <2>1. /\ pc \in [Thread -> PC] /\ Worker \subseteq Thread /\ context \in [Actor -> Context]
          /\ saved \in [Actor -> Page \cup {NoPage}] /\ engine \in [Worker -> Page]
      BY Shapes DEF Places, Housed
    <2> QED
      BY <1>2, <2>1 DEF Blocks
  <1>5. ~Executes(a, t)'
    BY <1>4 DEF Executes, Busy, RunningPhp
  <1>6. OnPages(a, t)' /\ WaitsSound(a, t)' /\ RestsOnFirst(a, t)'
    BY <1>2, <1>3, <1>4, <1>5 DEF OnPages, WaitsSound, RestsOnFirst
  <1>7. NotLeftOn(a, t)'
    BY <1>2, <1>4 DEF NotLeftOn, Own
  <1>8. OneObject(pages', a) /\ Present(a)'
    BY <1>2, <1>3, <1>4 DEF Kept, Present
  <1>9. RestsUntilCleared(a, t)'
    BY <1>2, <1>3, <1>4 DEF RestsUntilCleared, IsOvertaken
  <1>10. ClearsSound(a, t)'
    BY <1>2, <1>3 DEF Kept, ClearsSound, IsOvertaken
  <1>11. StartsCounted(a, t)'
    BY <1>2, <1>3, <1>5 DEF Kept, StartsCounted
  <1>12. DeepHeld(a, t)'
    BY <1>2, <1>3, <1>4 DEF Kept, DeepHeld, IsOvertaken
  <1> QED
    BY <1>6, <1>7, <1>8, <1>9, <1>10, <1>11, <1>12 DEF Kept
-----------------------------------------------------------------------------
(* Pages of the present object that are freed are in no chain to clear.    *)
LEMMA EntriesOutlast ==
    ASSUME Places, NEW t \in Worker, NEW a, RunsAs(a, t), NEW S,
           \A q \in S : q[2] = object[a],
           NEW i \in DOMAIN to_clear[t], to_clear[t][i][1] = a, ~IsOvertaken(a, to_clear[t][i]),
           to_clear[t][i] \in DOMAIN pages
    PROVE  /\ Chain(Without(pages, S), to_clear[t][i]) = Chain(pages, to_clear[t][i])
           /\ SoundIn(pages, to_clear[t][i]) => SoundIn(Without(pages, S), to_clear[t][i])
  <1>1. PICK p : p = to_clear[t][i]
    OBVIOUS
  <1>2. p[1] = a /\ p[2] # object[a] /\ p \in DOMAIN pages
    BY <1>1 DEF RunsAs
  <1>3. FitTable(pages, object, drawn) /\ OneObject(pages, a)
    BY DEF Places, Housed, Tabled, RunsAs, Kept
  <1>4. \A q \in Chain(pages, p) : q[2] = p[2]
    BY <1>2, <1>3, ChainOfObject
  <1>5. \A q \in Chain(pages, p) : q \notin S
    BY <1>2, <1>4
  <1>6. /\ Chain(Without(pages, S), p) = Chain(pages, p)
        /\ SoundIn(pages, p) => SoundIn(Without(pages, S), p)
    BY <1>2, <1>3, <1>5, FreedApart
  <1> QED
    BY <1>1, <1>6

LEMMA OutlastClears ==
    ASSUME Places, NEW t \in Worker, NEW a, RunsAs(a, t), NEW S,
           \A q \in S : q[2] = object[a],
           pages' = Without(pages, S), UNCHANGED <<to_clear, overtaken, heap, fault>>
    PROVE  /\ ClearsSound(a, t)'
           /\ \A p : ~IsOvertaken(a, p)
                       /\ (\E i \in DOMAIN to_clear[t] :
                             to_clear[t][i][1] = a /\ p \in Chain(pages, to_clear[t][i]))
                     => \E i \in DOMAIN to_clear'[t] :
                          to_clear'[t][i][1] = a /\ p \in Chain(pages', to_clear'[t][i])
  <1>1. ClearsSound(a, t)'
    <2> SUFFICES ASSUME heap[a] = "live", NEW i \in DOMAIN to_clear[t], to_clear[t][i][1] = a,
                        ~IsOvertaken(a, to_clear[t][i])
                 PROVE  /\ SoundIn(pages', to_clear[t][i])
                        /\ \A j \in DOMAIN to_clear[t] :
                             j # i /\ to_clear[t][j][1] = a /\ to_clear[t][j][2] = to_clear[t][i][2]
                               => to_clear[t][i][3] = 0 \/ to_clear[t][j][3] = 0
      BY DEF ClearsSound, IsOvertaken
    <2>1. /\ SoundIn(pages, to_clear[t][i])
          /\ \A j \in DOMAIN to_clear[t] :
                             j # i /\ to_clear[t][j][1] = a /\ to_clear[t][j][2] = to_clear[t][i][2]
                               => to_clear[t][i][3] = 0 \/ to_clear[t][j][3] = 0
      BY DEF RunsAs, Kept, ClearsSound
    <2>2. to_clear[t][i] \in DOMAIN pages
      BY <2>1 DEF SoundIn
    <2>3. SoundIn(Without(pages, S), to_clear[t][i])
      BY <2>1, <2>2, EntriesOutlast
    <2> QED
      BY <2>1, <2>3
  <1>2. ASSUME NEW p, ~IsOvertaken(a, p), NEW i \in DOMAIN to_clear[t], to_clear[t][i][1] = a,
               p \in Chain(pages, to_clear[t][i])
        PROVE  p \in Chain(pages', to_clear[t][i])
    <2>1. to_clear[t][i] \in DOMAIN pages
      BY <1>2 DEF Chain
    <2>2. FitTable(pages, object, drawn) /\ OneObject(pages, a)
      BY DEF Places, Housed, Tabled, RunsAs, Kept
    <2>3. p[2] = to_clear[t][i][2]
      BY <1>2, <2>1, <2>2, ChainOfObject
    <2>4. ~IsOvertaken(a, to_clear[t][i])
      BY <1>2, <2>3 DEF IsOvertaken
    <2>5. Chain(Without(pages, S), to_clear[t][i]) = Chain(pages, to_clear[t][i])
      BY <1>2, <2>1, <2>4, EntriesOutlast
    <2> QED
      BY <1>2, <2>5
  <1> QED
    BY <1>1, <1>2

LEMMA LeavesKept ==
    ASSUME Places, PagesKept, NEW t \in Worker, Leaves(t),
           NEW a, a = current[t], a \notin raced
    PROVE  Kept(a, t)'
  <1>1. Busy(t)
    BY DEF Leaves, Busy, RunningPhp
  <1>2. RunsAs(a, t)
    BY <1>1, RunIsKept
  <1>3. /\ a \in Actor /\ Kept(a, t) /\ Executes(a, t) /\ SoundIn(pages, engine[t])
        /\ engine[t] \in DOMAIN pages /\ engine[t][1] = a
        /\ engine[t][2] = object[a] /\ saved[a][2] = object[a]
        /\ context[a] # "saved"
        /\ \A i \in DOMAIN to_clear[t] :
             to_clear[t][i][1] = a /\ to_clear[t][i][2] = object[a]
               => IsOvertaken(a, to_clear[t][i])
    BY <1>2 DEF RunsAs
  <1>4. UNCHANGED <<context, tasks, heap, to_clear, object, overtaken, fault>> /\ by_ref' \subseteq by_ref
    BY DEF Leaves
  <1>5. FitTable(pages, object, drawn) /\ OneObject(pages, a)
    BY <1>3 DEF Places, Housed, Tabled, Kept
  <1>6. PICK e : e = End(pages, engine[t])
    OBVIOUS
  <1>7. PICK S : S = Chain(pages, engine[t]) \ {e}
    OBVIOUS
  <1>8. /\ FirstIn(pages, e) /\ e[3] = 0 /\ e[2] = object[a] /\ e[1] = a
    BY <1>3, <1>5, <1>6, SoundFirst, EndOfObject
  <1>9. pages' = Without(pages, S) /\ saved'[a] = e /\ ~Executes(a, t)'
    <2>1. /\ pc \in [Thread -> PC] /\ Worker \subseteq Thread
          /\ saved \in [Actor -> Page \cup {NoPage}]
      BY Shapes DEF Places, Housed
    <2>2. PICK label \in {"loop", "crash"} : pc' = [pc EXCEPT ![t] = label]
      BY DEF Leaves
    <2>3. pc'[t] \in {"loop", "crash"}
      BY <2>1, <2>2
    <2>4. ~Executes(a, t)'
      BY <2>3 DEF Executes, Busy, RunningPhp
    <2>5. pages' = Without(pages, S)
      BY <1>6, <1>7 DEF Leaves
    <2>6. saved'[a] = e
      BY <1>3, <1>6, <2>1 DEF Leaves
    <2> QED
      BY <2>4, <2>5, <2>6
  <1>10. FirstIn(Without(pages, S), e)
    <2>1. LET pg2 == Without(pages, Chain(pages, engine[t]) \ {End(pages, engine[t])}) IN
          FirstIn(pg2, e) /\ SoundIn(pg2, e)
      BY <1>5, <1>8, FirstUncleared
    <2> QED
      BY <1>6, <1>7, <2>1
  <1>11. \A q \in S : q[2] = object[a]
    BY <1>3, <1>5, <1>7, ChainOfObject
  <1>12. /\ ClearsSound(a, t)'
         /\ \A p : ~IsOvertaken(a, p)
                       /\ (\E i \in DOMAIN to_clear[t] :
                             to_clear[t][i][1] = a /\ p \in Chain(pages, to_clear[t][i]))
                     => \E i \in DOMAIN to_clear'[t] :
                          to_clear'[t][i][1] = a /\ p \in Chain(pages', to_clear'[t][i])
    BY <1>2, <1>4, <1>9, <1>11, OutlastClears
  <1>13. OnPages(a, t)' /\ WaitsSound(a, t)' /\ NotLeftOn(a, t)'
    BY <1>3, <1>4, <1>9 DEF OnPages, WaitsSound, NotLeftOn
  <1>14. OneObject(pages', a)
    BY <1>5, <1>9, WithoutSameObject
  <1>15. Present(a)'
    BY <1>4, <1>8, <1>9 DEF Present
  <1>16. RestsUntilCleared(a, t)'
    BY <1>3, <1>4, <1>8, <1>9 DEF RestsUntilCleared, IsOvertaken
  <1>17. RestsOnFirst(a, t)'
    BY <1>9, <1>10 DEF RestsOnFirst
  <1>18. StartsCounted(a, t)'
    BY <1>3, <1>4, <1>9 DEF Kept, StartsCounted
  <1>19. DeepHeld(a, t)'
    <2> SUFFICES ASSUME fault' = "none", NEW p \in DOMAIN pages', p[1] = a, p[3] # 0,
                        ~IsOvertaken(a, p)'
                 PROVE  \E i \in DOMAIN to_clear'[t] :
                          to_clear'[t][i][1] = a /\ p \in Chain(pages', to_clear'[t][i])
      BY DEF DeepHeld
    <2>1. p \in DOMAIN pages /\ p \notin S /\ ~IsOvertaken(a, p) /\ fault = "none"
      BY <1>4, <1>9 DEF Without, IsOvertaken
    <2>2. p \notin Chain(pages, engine[t])
      BY <1>7, <1>8, <2>1
    <2>3. \E i \in DOMAIN to_clear[t] : to_clear[t][i][1] = a /\ p \in Chain(pages, to_clear[t][i])
      BY <1>3, <2>1, <2>2 DEF Kept, DeepHeld
    <2> QED
      BY <1>12, <2>1, <2>3
  <1> QED
    BY <1>12, <1>13, <1>14, <1>15, <1>16, <1>17, <1>18, <1>19 DEF Kept

LEMMA ShrinksKept ==
    ASSUME Places, PagesKept, NEW t \in Worker, Shrinks(t),
           NEW a, a = current[t], a \notin raced
    PROVE  Kept(a, t)'
  <1>1. Busy(t) /\ ~Early(t)
    BY DEF Shrinks, Busy, Early, RunningPhp
  <1>2. RunsAs(a, t)
    BY <1>1, RunIsKept
  <1>3. /\ a \in Actor /\ Kept(a, t) /\ Executes(a, t) /\ SoundIn(pages, engine[t])
        /\ engine[t] \in DOMAIN pages /\ engine[t][1] = a
        /\ engine[t][2] = object[a] /\ saved[a][2] = object[a]
        /\ saved[a][1] = a /\ context[a] # "saved"
    BY <1>2 DEF RunsAs
  <1>4. UNCHANGED <<pc, current, context, saved, tasks, heap, by_ref, to_clear, object, overtaken, fault>>
    BY DEF Shrinks, othersVars
  <1>5. FitTable(pages, object, drawn) /\ OneObject(pages, a) /\ Grounded(pages)
    BY <1>3 DEF Places, Housed, Tabled, Kept, FitTable
  <1>6. PICK e1 : e1 = engine[t]
    OBVIOUS
  <1>7. PICK e2 : e2 = pages[e1]
    OBVIOUS
  <1>8. e2 \in DOMAIN pages /\ e2[1] = a /\ e2 # NoPage
    <2>1. e2 \in DOMAIN pages /\ e2[1] = a
      <3>1. Tabled /\ Occupied
        BY DEF Places, Housed
      <3>2. pages[engine[t]] \in Live /\ pages[engine[t]][1] = engine[t][1]
        BY <3>1, ShrinksTo
      <3> QED
        BY <1>3, <1>6, <1>7, <3>2 DEF Live
    <2>2. e2 \in Page
      BY <1>5, <2>1 DEF FitTable, Fit
    <2> QED
      BY <2>1, <2>2, PageIs
  <1>9. e2[2] = object[a]
    BY <1>3, <1>5, <1>6, <1>7, <1>8 DEF OneObject
  <1>10. /\ Chain(pages, e1) = {e1} \cup Chain(pages, e2)
         /\ End(pages, e1) = End(pages, e2)
         /\ e1 \notin Chain(pages, e2)
    BY <1>3, <1>5, <1>6, <1>7, <1>8, ChainUnfolds, EndUnfolds, NoReturn
  <1>11. SoundIn(pages, e2)
    BY <1>3, <1>6, <1>8, <1>9, <1>10 DEF SoundIn
  <1>12. pages' = Without(pages, {e1}) /\ engine'[t] = e2
    <2>1. engine \in [Worker -> Page]
      BY Shapes DEF Places, Housed
    <2> QED
      BY <1>6, <1>7, <2>1 DEF Shrinks
  <1>13. SoundIn(pages', e2) /\ Chain(pages', e2) = Chain(pages, e2)
    <2>1. \A q \in Chain(pages, e2) : q \notin {e1}
      BY <1>10
    <2>2. /\ Chain(Without(pages, {e1}), e2) = Chain(pages, e2)
          /\ SoundIn(pages, e2) => SoundIn(Without(pages, {e1}), e2)
      BY <1>5, <1>8, <2>1, FreedApart
    <2> QED
      BY <1>11, <1>12, <2>2
  <1>14. \A q \in {e1} : q[2] = object[a]
    BY <1>3, <1>6
  <1>15. /\ ClearsSound(a, t)'
         /\ \A p : ~IsOvertaken(a, p)
                       /\ (\E i \in DOMAIN to_clear[t] :
                             to_clear[t][i][1] = a /\ p \in Chain(pages, to_clear[t][i]))
                     => \E i \in DOMAIN to_clear'[t] :
                          to_clear'[t][i][1] = a /\ p \in Chain(pages', to_clear'[t][i])
    <2>1. PICK S : S = {e1}
      OBVIOUS
    <2>2. /\ \A q \in S : q[2] = object[a]
          /\ pages' = Without(pages, S)
          /\ UNCHANGED <<to_clear, overtaken, heap, fault>>
      BY <1>4, <1>12, <1>14, <2>1
    <2> QED
      BY <1>2, <2>2, OutlastClears
  <1>16. Executes(a, t)' /\ ~Early(t)'
    BY <1>1, <1>3, <1>4 DEF Executes, Busy, Early
  <1>17. OnPages(a, t)'
    BY <1>3, <1>4, <1>9, <1>12, <1>13, <1>16 DEF OnPages
  <1>18. WaitsSound(a, t)' /\ NotLeftOn(a, t)'
    BY <1>3, <1>4 DEF WaitsSound, NotLeftOn
  <1>19. OneObject(pages', a)
    BY <1>5, <1>12, WithoutSameObject
  <1>20. Present(a)'
    BY <1>3, <1>4 DEF Kept, Present
  <1>21. RestsUntilCleared(a, t)'
    BY <1>3, <1>4, <1>16 DEF Kept, RestsUntilCleared, IsOvertaken
  <1>22. RestsOnFirst(a, t)'
    <2> SUFFICES ASSUME FirstIn(pages, saved[a])
                 PROVE  FirstIn(pages', saved[a])
      BY <1>3, <1>4 DEF Kept, RestsOnFirst, IsOvertaken, Executes, Busy
    <2>1. saved[a] \in DOMAIN pages /\ Chain(pages, saved[a]) = {saved[a]} /\ pages[saved[a]] = NoPage
      BY <1>5, FirstIs DEF FirstIn
    <2>2. saved[a] # e1
      BY <1>7, <1>8, <2>1
    <2>3. \A q \in Chain(pages, saved[a]) : q \notin {e1}
      BY <2>1, <2>2
    <2>4. FirstIn(Without(pages, {e1}), saved[a])
      BY <1>5, <2>1, <2>3, FreedApart
    <2> QED
      BY <1>12, <2>4
  <1>23. StartsCounted(a, t)'
    BY <1>3, <1>4 DEF Kept, StartsCounted
  <1>24. DeepHeld(a, t)'
    <2> SUFFICES ASSUME fault' = "none", NEW p \in DOMAIN pages', p[1] = a, p[3] # 0,
                        ~IsOvertaken(a, p)'
                 PROVE  \/ p \in Chain(pages', engine'[t])
                        \/ \E i \in DOMAIN to_clear'[t] :
                             to_clear'[t][i][1] = a /\ p \in Chain(pages', to_clear'[t][i])
      BY <1>16 DEF DeepHeld
    <2>1. p \in DOMAIN pages /\ p # e1 /\ ~IsOvertaken(a, p) /\ fault = "none"
      BY <1>4, <1>12 DEF Without, IsOvertaken
    <2>2. CASE p \in Chain(pages, e1)
      <3>1. p \in Chain(pages, e2)
        BY <1>10, <2>1, <2>2
      <3> QED
        BY <1>12, <1>13, <3>1
    <2>3. CASE p \notin Chain(pages, engine[t])
      <3>1. \E i \in DOMAIN to_clear[t] : to_clear[t][i][1] = a /\ p \in Chain(pages, to_clear[t][i])
        BY <1>3, <2>1, <2>3 DEF Kept, DeepHeld
      <3> QED
        BY <1>15, <2>1, <3>1
    <2> QED
      BY <1>6, <2>2, <2>3
  <1> QED
    BY <1>15, <1>17, <1>18, <1>19, <1>20, <1>21, <1>22, <1>23, <1>24 DEF Kept
-----------------------------------------------------------------------------
(* A table with one more page.                                             *)
Extends(pg, pg2, n, v) ==
    /\ DOMAIN pg2 = DOMAIN pg \cup {n} /\ n \notin DOMAIN pg
    /\ \A p \in DOMAIN pg : /\ Chain(pg2, p) = Chain(pg, p)
                            /\ SoundIn(pg, p) => SoundIn(pg2, p)
                            /\ FirstIn(pg, p) => FirstIn(pg2, p)
    /\ Chain(pg2, n) = {n} \cup IF v \in DOMAIN pg THEN Chain(pg, v) ELSE {}
    /\ End(pg2, n) = IF v \in DOMAIN pg THEN End(pg, v) ELSE n

LEMMA ExtensionExtends ==
    ASSUME NEW pg, Grounded(pg), NEW n, NEW v, n \notin DOMAIN pg, v # n,
           \A q \in DOMAIN pg : pg[q] # n
    PROVE  Extends(pg, Extended(pg, n, v), n, v)
  <1>1. LET pg2 == Extended(pg, n, v) IN
        /\ DOMAIN pg2 = DOMAIN pg \cup {n}
        /\ Grounded(pg2)
        /\ pg2[n] = v
        /\ \A p \in DOMAIN pg : /\ pg2[p] = pg[p]
                                /\ Chain(pg2, p) = Chain(pg, p)
                                /\ End(pg2, p) = End(pg, p)
        /\ Chain(pg2, n) = {n} \cup IF v \in DOMAIN pg THEN Chain(pg, v) ELSE {}
        /\ End(pg2, n) = IF v \in DOMAIN pg THEN End(pg, v) ELSE n
    BY ExtensionDoes, SMTT(60)
  <1>2. PICK pg2 : pg2 = Extended(pg, n, v)
    OBVIOUS
  <1>3. \A p \in DOMAIN pg : /\ Chain(pg2, p) = Chain(pg, p)
                             /\ SoundIn(pg, p) => SoundIn(pg2, p)
                             /\ FirstIn(pg, p) => FirstIn(pg2, p)
    BY <1>1, <1>2 DEF SoundIn, FirstIn
  <1>4. Extends(pg, pg2, n, v)
    <2>1. DOMAIN pg2 = DOMAIN pg \cup {n}
      BY <1>1, <1>2
    <2>2. Chain(pg2, n) = {n} \cup IF v \in DOMAIN pg THEN Chain(pg, v) ELSE {}
      BY <1>1, <1>2
    <2>3. End(pg2, n) = IF v \in DOMAIN pg THEN End(pg, v) ELSE n
      BY <1>1, <1>2
    <2> QED
      BY <1>3, <2>1, <2>2, <2>3 DEF Extends
  <1> QED
    BY <1>2, <1>4

LEMMA MadeExtends ==
    ASSUME Places, NEW t \in Worker, NEW a \in Actor, MakesObject(t, a),
           NEW p, p = <<a, object[a] + 1, 0>>
    PROVE  Extends(pages, pages', p, NoPage) /\ pages' = Extended(pages, p, NoPage)
  <1>1. /\ \A q : Fit(q, object, drawn) => Fit(q, object', drawn')
        /\ ~Fit(p, object, drawn) /\ Fit(p, object', drawn') /\ p # NoPage
    BY MadePage DEF Places, Housed
  <1>2. FitTable(pages, object, drawn) /\ Grounded(pages)
    BY DEF Places, Housed, Tabled, FitTable
  <1>3. p \notin DOMAIN pages /\ NoPage # p /\ \A q \in DOMAIN pages : pages[q] # p
    BY <1>1, <1>2, ExtendedFits
  <1>4. Extends(pages, Extended(pages, p, NoPage), p, NoPage)
    BY <1>2, <1>3, ExtensionExtends
  <1> QED
    BY <1>4 DEF MakesObject

LEMMA GrownExtends ==
    ASSUME Places, NEW t \in Worker, Grows(t),
           NEW p, p = <<current[t], object[current[t]], drawn[current[t]] + 1>>
    PROVE  Extends(pages, pages', p, engine[t]) /\ pages' = Extended(pages, p, engine[t])
  <1>1. /\ \A q : Fit(q, object, drawn) => Fit(q, object', drawn')
        /\ ~Fit(p, object, drawn) /\ Fit(p, object', drawn') /\ p # NoPage
        /\ Fit(engine[t], object, drawn) /\ engine[t][1] = p[1] /\ engine[t][2] # 0
        /\ p[2] # 0 /\ p[3] # 0
    BY GrownPage DEF Places, Housed
  <1>2. FitTable(pages, object, drawn) /\ Grounded(pages)
    BY DEF Places, Housed, Tabled, FitTable
  <1>3. p \notin DOMAIN pages /\ engine[t] # p /\ \A q \in DOMAIN pages : pages[q] # p
    BY <1>1, <1>2, ExtendedFits
  <1>4. Extends(pages, Extended(pages, p, engine[t]), p, engine[t])
    BY <1>2, <1>3, ExtensionExtends
  <1> QED
    BY <1>4 DEF Grows

StillToClear(a, t) ==
    \A p : (\E i \in DOMAIN to_clear[t] :
               to_clear[t][i][1] = a /\ p \in Chain(pages, to_clear[t][i]))
            => \E i \in DOMAIN to_clear'[t] :
                 to_clear'[t][i][1] = a /\ p \in Chain(pages', to_clear'[t][i])

LEMMA ExtendedClears ==
    ASSUME NEW a, NEW t, Kept(a, t), NEW n, NEW v, Extends(pages, pages', n, v),
           UNCHANGED <<to_clear, overtaken, heap>>
    PROVE  ClearsSound(a, t)' /\ StillToClear(a, t)
  <1>1. \A p \in DOMAIN pages : /\ Chain(pages', p) = Chain(pages, p)
                                /\ SoundIn(pages, p) => SoundIn(pages', p)
    BY DEF Extends
  <1>2. \A p : SoundIn(pages, p) => SoundIn(pages', p)
    BY <1>1 DEF SoundIn
  <1>3. \A p, q : q \in Chain(pages, p) => q \in Chain(pages', p)
    <2>1. \A p, q : q \in Chain(pages, p) => p \in DOMAIN pages
      BY DEF Chain
    <2> QED
      BY <1>1, <2>1
  <1>4. ClearsSound(a, t)'
    BY <1>2 DEF Kept, ClearsSound, IsOvertaken
  <1> QED
    BY <1>3, <1>4 DEF StillToClear

LEMMA GrowsKept ==
    ASSUME Places, PagesKept, NEW t \in Worker, Grows(t),
           NEW a, a = current[t], a \notin raced
    PROVE  Kept(a, t)'
  <1>1. Busy(t) /\ ~Early(t)
    BY DEF Grows, Busy, Early, RunningPhp
  <1>2. RunsAs(a, t)
    BY <1>1, RunIsKept
  <1>3. /\ a \in Actor /\ Kept(a, t) /\ Executes(a, t) /\ SoundIn(pages, engine[t])
        /\ engine[t] \in DOMAIN pages /\ engine[t][1] = a
        /\ engine[t][2] = object[a] /\ saved[a][2] = object[a]
        /\ saved[a][1] = a /\ context[a] # "saved"
    BY <1>2 DEF RunsAs
  <1>4. UNCHANGED <<pc, current, context, saved, tasks, heap, by_ref, to_clear, object, overtaken, fault>>
    BY DEF Grows, othersVars
  <1>5. PICK p : p = <<a, object[a], drawn[a] + 1>>
    OBVIOUS
  <1>6. Extends(pages, pages', p, engine[t]) /\ pages' = Extended(pages, p, engine[t])
    BY <1>3, <1>5, GrownExtends
  <1>7. p[1] = a /\ p[2] = object[a]
    BY <1>5
  <1>8. engine'[t] = p
    <2>1. engine \in [Worker -> Page]
      BY Shapes DEF Places, Housed
    <2> QED
      BY <1>3, <1>5, <2>1 DEF Grows
  <1>9. /\ SoundIn(pages', p) /\ Chain(pages', p) = {p} \cup Chain(pages, engine[t])
        /\ DOMAIN pages' = DOMAIN pages \cup {p} /\ p \notin DOMAIN pages
        /\ \A q : FirstIn(pages, q) => FirstIn(pages', q)
    <2>1. End(pages', p) = End(pages, engine[t]) /\ DOMAIN pages' = DOMAIN pages \cup {p}
      BY <1>3, <1>6 DEF Extends
    <2>2. SoundIn(pages', p)
      BY <1>3, <1>7, <2>1 DEF SoundIn
    <2>3. \A q : FirstIn(pages, q) => q \in DOMAIN pages
      BY DEF FirstIn
    <2> QED
      BY <1>3, <1>6, <2>2, <2>3 DEF Extends
  <1>10. /\ ClearsSound(a, t)'
         /\ \A q : (\E i \in DOMAIN to_clear[t] :
                        to_clear[t][i][1] = a /\ q \in Chain(pages, to_clear[t][i]))
                     => \E i \in DOMAIN to_clear'[t] :
                          to_clear'[t][i][1] = a /\ q \in Chain(pages', to_clear'[t][i])
    <2>1. ClearsSound(a, t)' /\ StillToClear(a, t)
      BY <1>3, <1>4, <1>6, ExtendedClears
    <2> QED
      BY <2>1 DEF StillToClear
  <1>11. Executes(a, t)' /\ ~Early(t)'
    BY <1>1, <1>3, <1>4 DEF Executes, Busy, Early
  <1>12. OnPages(a, t)'
    BY <1>3, <1>4, <1>7, <1>8, <1>9, <1>11 DEF OnPages
  <1>13. WaitsSound(a, t)' /\ NotLeftOn(a, t)'
    BY <1>3, <1>4 DEF WaitsSound, NotLeftOn
  <1>14. OneObject(pages', a)
    <2>1. OneObject(pages, a)
      BY <1>3 DEF Kept
    <2>2. OneObject(Extended(pages, p, engine[t]), a)
      BY <1>3, <1>7, <1>9, <2>1, ExtendedSameObject
    <2> QED
      BY <1>6, <2>2
  <1>15. Present(a)' /\ StartsCounted(a, t)'
    BY <1>3, <1>4 DEF Kept, Present, StartsCounted
  <1>16. RestsUntilCleared(a, t)'
    BY <1>3, <1>4 DEF Kept, RestsUntilCleared, IsOvertaken, Executes, Busy
  <1>17. RestsOnFirst(a, t)'
    BY <1>3, <1>4, <1>9 DEF Kept, RestsOnFirst, IsOvertaken, Executes, Busy
  <1>18. DeepHeld(a, t)'
    <2> SUFFICES ASSUME fault' = "none", NEW q \in DOMAIN pages', q[1] = a, q[3] # 0,
                        ~IsOvertaken(a, q)'
                 PROVE  \/ q \in Chain(pages', engine'[t])
                        \/ \E i \in DOMAIN to_clear'[t] :
                             to_clear'[t][i][1] = a /\ q \in Chain(pages', to_clear'[t][i])
      BY <1>11 DEF DeepHeld
    <2>1. CASE q = p
      BY <1>8, <1>9, <2>1
    <2>2. CASE q \in DOMAIN pages
      <3>1. ~IsOvertaken(a, q) /\ fault = "none"
        BY <1>4 DEF IsOvertaken
      <3>2. \/ q \in Chain(pages, engine[t])
            \/ \E i \in DOMAIN to_clear[t] : to_clear[t][i][1] = a /\ q \in Chain(pages, to_clear[t][i])
        BY <1>3, <2>2, <3>1 DEF Kept, DeepHeld
      <3> QED
        BY <1>8, <1>9, <1>10, <3>2
    <2> QED
      BY <1>9, <2>1, <2>2
  <1> QED
    BY <1>10, <1>12, <1>13, <1>14, <1>15, <1>16, <1>17, <1>18 DEF Kept
-----------------------------------------------------------------------------
(* An actor is resumed on the pages that it waits on.                      *)
LEMMA ReentersKept ==
    ASSUME Places, PagesKept, NEW t \in Worker, NEW a \in Actor, Reenters(t, a), a \notin raced
    PROVE  Kept(a, t)'
  <1>1. /\ pc[t] = "pop" /\ tasks[t] # <<>> /\ Head(tasks[t]) = ResumeTask(a)
        /\ a \in by_ref /\ context[a] = "saved"
    BY DEF Reenters
  <1>2. PICK q \in Seq(Task) : q = tasks[t]
    BY SeqsAt
  <1>3. t = thread_offset[a]
    BY <1>1, <1>2, AllAtHome, NotHere
  <1>4. Kept(a, t)
    BY <1>3 DEF PagesKept
  <1>5. UNCHANGED <<pages, saved, to_clear, object, overtaken, fault, heap, by_ref>>
    BY DEF Reenters, othersVars
  <1>6. /\ tasks'[t] = Tail(q) /\ context'[a] = "stale" /\ engine'[t] = saved[a]
        /\ Executes(a, t)' /\ ~Early(t)' /\ ~Executes(a, t)
    <2>1. /\ pc \in [Thread -> PC] /\ current \in [Thread -> Actor \cup {NoActor}]
          /\ context \in [Actor -> Context] /\ tasks \in [Thread -> Seq(Task)]
          /\ engine \in [Worker -> Page] /\ Worker \subseteq Thread
      BY Shapes DEF Places, Housed
    <2>2. pc'[t] = "resume" /\ current'[t] = a
      BY <2>1 DEF Reenters
    <2>3. tasks'[t] = Tail(q) /\ context'[a] = "stale" /\ engine'[t] = saved[a]
      BY <1>2, <2>1 DEF Reenters
    <2>4. Executes(a, t)' /\ ~Early(t)' /\ ~Executes(a, t)
      BY <1>1, <2>2 DEF Executes, Busy, Early, RunningPhp
    <2> QED
      BY <2>3, <2>4
  <1>7. heap[a] = "live"
    BY <1>1 DEF Places, OwnedOnce
  <1>8. ~IsNext(a, t)
    BY <1>1, TasksApart DEF IsNext
  <1>9. SoundIn(pages, saved[a]) /\ saved[a][2] = object[a]
    <2>1. WaitsSound(a, t) /\ Present(a)
      BY <1>4 DEF Kept
    <2> QED
      BY <1>1, <1>7, <1>8, <2>1 DEF WaitsSound, Present
  <1>10. OnPages(a, t)'
    BY <1>5, <1>6, <1>9 DEF OnPages
  <1>11. OneObject(pages', a) /\ Present(a)' /\ WaitsSound(a, t)' /\ NotLeftOn(a, t)'
    BY <1>1, <1>4, <1>5, <1>6, <1>9 DEF Kept, Present, WaitsSound, NotLeftOn
  <1>12. RestsUntilCleared(a, t)'
    BY <1>1, <1>4, <1>5 DEF Kept, RestsUntilCleared, IsOvertaken
  <1>13. RestsOnFirst(a, t)'
    BY <1>6 DEF RestsOnFirst
  <1>14. ClearsSound(a, t)'
    BY <1>4, <1>5 DEF Kept, ClearsSound, IsOvertaken
  <1>15. StartsCounted(a, t)'
    <2>1. Head(q) # NewTask(a) /\ q # <<>>
      BY <1>1, <1>2, TasksApart
    <2>2. Cardinality(StartsIn(Tail(q), a)) = Cardinality(StartsIn(q, a))
      BY <2>1, StartsTail
    <2>3. Cardinality(StartsIn(tasks'[t], a)) = Cardinality(StartsIn(tasks[t], a))
      BY <1>2, <1>6, <2>2
    <2> QED
      BY <1>1, <1>4, <1>5, <2>3 DEF Kept, StartsCounted
  <1>16. DeepHeld(a, t)'
    BY <1>4, <1>5, <1>6 DEF Kept, DeepHeld, IsOvertaken
  <1> QED
    BY <1>10, <1>11, <1>12, <1>13, <1>14, <1>15, <1>16 DEF Kept

-----------------------------------------------------------------------------
(* A new object begins on a page of its own.                               *)
LEMMA MakesObjectKept ==
    ASSUME Places, PagesKept, NEW t \in Worker, NEW a \in Actor, MakesObject(t, a), a \notin raced
    PROVE  Kept(a, t)'
  <1>1. /\ pc[t] = "pop" /\ tasks[t] # <<>> /\ Head(tasks[t]) = NewTask(a)
    BY DEF MakesObject
  <1>2. PICK q \in Seq(Task) : q = tasks[t]
    BY SeqsAt
  <1>3. t = thread_offset[a]
    BY <1>1, <1>2, AllAtHome, NotHere
  <1>4. Kept(a, t)
    BY <1>3 DEF PagesKept
  <1>5. UNCHANGED <<to_clear, overtaken, fault, heap, by_ref>>
    BY DEF MakesObject, othersVars
  <1>6. PICK k \in Nat : k = object[a]
    BY Shapes DEF Places, Housed
  <1>7. PICK p : p = <<a, k + 1, 0>>
    OBVIOUS
  <1>8. p[1] = a /\ p[2] = k + 1 /\ p[3] = 0
    BY <1>7
  <1>9. Extends(pages, pages', p, NoPage) /\ pages' = Extended(pages, p, NoPage)
    BY <1>6, <1>7, MadeExtends
  <1>10. NoPage \notin DOMAIN pages
    <2>1. \A r \in DOMAIN pages : r \in Page
      BY DEF Places, Housed, Tabled, FitTable, Fit
    <2> QED
      BY <2>1, PageIs
  <1>11. /\ DOMAIN pages' = DOMAIN pages \cup {p} /\ p \notin DOMAIN pages
         /\ End(pages', p) = p /\ FirstIn(pages', p) /\ SoundIn(pages', p)
         /\ \A r : FirstIn(pages, r) => FirstIn(pages', r)
         /\ \A r : SoundIn(pages, r) => SoundIn(pages', r)
         /\ \A r, s : s \in Chain(pages, r) => s \in Chain(pages', r)
    <2>1. DOMAIN pages' = DOMAIN pages \cup {p} /\ p \notin DOMAIN pages /\ End(pages', p) = p
      BY <1>9, <1>10 DEF Extends
    <2>2. FirstIn(pages', p) /\ SoundIn(pages', p)
      BY <1>7, <1>8, <2>1 DEF FirstIn, SoundIn
    <2>3. /\ \A r : FirstIn(pages, r) => FirstIn(pages', r)
          /\ \A r : SoundIn(pages, r) => SoundIn(pages', r)
      <3>1. \A r : FirstIn(pages, r) \/ SoundIn(pages, r) => r \in DOMAIN pages
        BY DEF FirstIn, SoundIn
      <3> QED
        BY <1>9, <3>1 DEF Extends
    <2>4. \A r, s : s \in Chain(pages, r) => s \in Chain(pages', r)
      <3>1. \A r, s : s \in Chain(pages, r) => r \in DOMAIN pages
        BY DEF Chain
      <3> QED
        BY <1>9, <3>1 DEF Extends
    <2> QED
      BY <2>1, <2>2, <2>3, <2>4
  <1>12. /\ ClearsSound(a, t)'
         /\ \A r : (\E i \in DOMAIN to_clear[t] :
                        to_clear[t][i][1] = a /\ r \in Chain(pages, to_clear[t][i]))
                     => \E i \in DOMAIN to_clear'[t] :
                          to_clear'[t][i][1] = a /\ r \in Chain(pages', to_clear'[t][i])
    <2>1. Extends(pages, pages', p, NoPage)
      BY <1>9
    <2>2. UNCHANGED <<to_clear, overtaken, heap>>
      BY <1>5
    <2>3. ClearsSound(a, t)' /\ StillToClear(a, t)
      BY <1>4, <2>1, <2>2, ExtendedClears
    <2> QED
      BY <2>3 DEF StillToClear
  <1>13. OneObject(pages', a)
    <2>1. OneObject(pages, a)
      BY <1>4 DEF Kept
    <2>2. p \notin DOMAIN pages
      BY <1>11
    <2>3. OneObject(Extended(pages, p, NoPage), a)
      BY <2>1, <2>2, ExtendedSameObject
    <2> QED
      BY <1>9, <2>3
  <1>14. /\ tasks'[t] = Tail(q) /\ engine'[t] = p /\ object'[a] = k + 1 /\ ~Executes(a, t)
         /\ a \in by_ref => /\ context'[a] = "blank" /\ saved'[a] = p
                            /\ Executes(a, t)' /\ Early(t)'
         /\ a \notin by_ref => context'[a] = context[a] /\ saved'[a] = saved[a] /\ ~Executes(a, t)'
    <2>1. /\ pc \in [Thread -> PC] /\ current \in [Thread -> Actor \cup {NoActor}]
          /\ context \in [Actor -> Context] /\ tasks \in [Thread -> Seq(Task)]
          /\ engine \in [Worker -> Page] /\ Worker \subseteq Thread /\ object \in [Actor -> Nat]
          /\ saved \in [Actor -> Page \cup {NoPage}]
      BY Shapes DEF Places, Housed
    <2>2. tasks'[t] = Tail(q) /\ engine'[t] = p /\ object'[a] = k + 1
      BY <1>2, <1>6, <1>7, <2>1 DEF MakesObject
    <2>3. CASE a \in by_ref
      <3>1. pc'[t] = "ctor" /\ current'[t] = a /\ context'[a] = "blank" /\ saved'[a] = p
        BY <1>6, <1>7, <2>1, <2>3 DEF MakesObject
      <3>2. Executes(a, t)' /\ Early(t)'
        BY <3>1 DEF Executes, Busy, Early, RunningPhp
      <3>3. ~Executes(a, t)
        BY <1>1 DEF Executes, Busy, RunningPhp
      <3> QED
        BY <2>2, <2>3, <3>1, <3>2, <3>3
    <2>4. CASE a \notin by_ref
      <3>1. pc'[t] = "loop" /\ UNCHANGED <<context, current, saved>>
        BY <2>1, <2>4 DEF MakesObject
      <3>2. ~Executes(a, t)'
        BY <3>1 DEF Executes, Busy, RunningPhp
      <3>3. ~Executes(a, t)
        BY <1>1 DEF Executes, Busy, RunningPhp
      <3> QED
        BY <2>2, <2>4, <3>1, <3>2, <3>3
    <2> QED
      BY <2>3, <2>4
  <1>15. /\ \A i \in DOMAIN to_clear[t] : to_clear[t][i][1] = a => to_clear[t][i][2] # k + 1
         /\ context[a] # "none" => saved[a][2] # k + 1 /\ saved[a][1] = a
    <2>1. \A r : Fit(r, object, drawn) /\ r[1] = a /\ r[2] # 0 => r[2] # k + 1
      <3> SUFFICES ASSUME NEW r, Fit(r, object, drawn), r[1] = a, r[2] # 0
                   PROVE  r[2] # k + 1
        OBVIOUS
      <3>1. r[2] <= k /\ r[2] \in Nat
        BY <1>6, PageIs DEF Fit
      <3> QED
        BY <3>1
    <2>2. \A i \in DOMAIN to_clear[t] : Fit(to_clear[t][i], object, drawn) /\ to_clear[t][i][2] # 0
      BY DEF Places, Housed, Tabled, FitClears
    <2>3. context[a] # "none" => saved[a] # NoPage
      BY OwnSaved DEF Places
    <2>4. saved[a] # NoPage => Fit(saved[a], object, drawn) /\ saved[a][1] = a /\ saved[a][2] # 0
      BY DEF Places, Housed, Tabled, FitSaved
    <2> QED
      BY <2>1, <2>2, <2>3, <2>4
  <1>16. PICK n \in Nat : n = Cardinality(StartsIn(tasks[t], a))
    BY <1>2, StartsFinite
  <1>17. n # 0 /\ Cardinality(StartsIn(tasks'[t], a)) = n - 1
    <2>1. Cardinality(StartsIn(Tail(q), a)) = n - 1
      BY <1>1, <1>2, <1>16, StartsTail
    <2>2. Cardinality(StartsIn(Tail(q), a)) \in Nat
      <3>1. Tail(q) \in Seq(Task)
        BY <1>1, <1>2
      <3> QED
        BY <3>1, StartsFinite
    <2> QED
      BY <1>14, <2>1, <2>2
  <1>18. /\ \A i \in 1 .. (n - 1) : <<a, k + i>> \in overtaken
         /\ context[a] = "saved" => <<a, k>> \in overtaken
    BY <1>4, <1>6, <1>16, <1>17 DEF Kept, StartsCounted
  <1>19. StartsCounted(a, t)'
    <2>1. \A i \in 1 .. ((n - 1) - 1) : <<a, (k + 1) + i>> \in overtaken
      <3> SUFFICES ASSUME NEW i \in 1 .. ((n - 1) - 1) PROVE <<a, (k + 1) + i>> \in overtaken
        OBVIOUS
      <3>1. i + 1 \in 1 .. (n - 1) /\ k + (i + 1) = (k + 1) + i
        OBVIOUS
      <3>2. <<a, k + (i + 1)>> \in overtaken
        BY <1>18, <3>1
      <3> QED
        BY <3>1, <3>2
    <2>2. n - 1 # 0 => <<a, k + 1>> \in overtaken
      <3>1. n - 1 # 0 => 1 \in 1 .. (n - 1)
        BY <1>17
      <3> QED
        BY <1>18, <3>1
    <2> QED
      BY <1>5, <1>14, <1>17, <2>1, <2>2 DEF StartsCounted
  <1>20. /\ OnPages(a, t)' /\ Present(a)' /\ WaitsSound(a, t)' /\ NotLeftOn(a, t)'
         /\ RestsUntilCleared(a, t)' /\ RestsOnFirst(a, t)'
    <2>1. CASE a \in by_ref
      <3>1. OnPages(a, t)'
        BY <1>8, <1>11, <1>14, <2>1 DEF OnPages
      <3>2. Present(a)' /\ WaitsSound(a, t)' /\ NotLeftOn(a, t)'
        BY <1>8, <1>14, <2>1 DEF Present, WaitsSound, NotLeftOn
      <3>3. RestsUntilCleared(a, t)'
        BY <1>5, <1>8, <1>14, <1>15, <2>1 DEF RestsUntilCleared
      <3>4. RestsOnFirst(a, t)'
        BY <1>11, <1>14, <2>1 DEF RestsOnFirst
      <3> QED
        BY <3>1, <3>2, <3>3, <3>4
    <2>2. CASE a \notin by_ref
      <3>1. OnPages(a, t)' /\ Present(a)'
        BY <1>5, <1>14, <2>2 DEF OnPages, Present
      <3>2. WaitsSound(a, t)'
        BY <1>4, <1>5, <1>11, <1>14, <2>2 DEF Kept, WaitsSound, IsOvertaken
      <3>3. NotLeftOn(a, t)'
        BY <1>8, <1>14, <1>15, <2>2 DEF NotLeftOn
      <3>4. RestsUntilCleared(a, t)'
        BY <1>4, <1>5, <1>14, <2>2 DEF Kept, RestsUntilCleared, IsOvertaken
      <3>5. RestsOnFirst(a, t)'
        BY <1>4, <1>5, <1>11, <1>14, <2>2 DEF Kept, RestsOnFirst, IsOvertaken
      <3> QED
        BY <3>1, <3>2, <3>3, <3>4, <3>5
    <2> QED
      BY <2>1, <2>2
  <1>21. DeepHeld(a, t)'
    <2> SUFFICES ASSUME fault' = "none", NEW r \in DOMAIN pages', r[1] = a, r[3] # 0,
                        ~IsOvertaken(a, r)'
                 PROVE  \/ context'[a] = "saved" /\ r \in Chain(pages', saved'[a])
                        \/ \E i \in DOMAIN to_clear'[t] :
                             to_clear'[t][i][1] = a /\ r \in Chain(pages', to_clear'[t][i])
      BY DEF DeepHeld
    <2>1. r \in DOMAIN pages /\ ~IsOvertaken(a, r) /\ fault = "none"
      BY <1>5, <1>8, <1>11 DEF IsOvertaken
    <2>2. \/ context[a] = "saved" /\ r \in Chain(pages, saved[a])
          \/ \E i \in DOMAIN to_clear[t] : to_clear[t][i][1] = a /\ r \in Chain(pages, to_clear[t][i])
      BY <1>4, <1>14, <2>1 DEF Kept, DeepHeld
    <2>3. CASE context[a] = "saved" /\ r \in Chain(pages, saved[a])
      <3>1. a \notin by_ref
        <4> SUFFICES ASSUME a \in by_ref PROVE FALSE
          OBVIOUS
        <4>1. saved[a][2] = k
          BY <1>4, <1>6, <2>3 DEF Kept, Present
        <4>2. saved[a] \in DOMAIN pages
          BY <2>3 DEF Chain
        <4>3. FitTable(pages, object, drawn) /\ OneObject(pages, a)
          BY <1>4 DEF Places, Housed, Tabled, Kept
        <4>4. r[2] = k
          BY <1>15, <2>3, <4>1, <4>2, <4>3, ChainOfObject
        <4> QED
          BY <1>18, <2>1, <2>3, <4>4 DEF IsOvertaken
      <3> QED
        BY <1>11, <1>14, <2>3, <3>1
    <2>4. CASE \E i \in DOMAIN to_clear[t] : to_clear[t][i][1] = a /\ r \in Chain(pages, to_clear[t][i])
      BY <1>12, <2>4
    <2> QED
      BY <2>2, <2>3, <2>4
  <1> QED
    BY <1>12, <1>13, <1>19, <1>20, <1>21 DEF Kept
-----------------------------------------------------------------------------
(* A restart queues the pages an actor was left with, and its next object. *)
LEMMA ResetsKept ==
    ASSUME Places, PagesKept, NEW t \in Worker, NEW w \in Actor, Resets(t, w),
           w \notin raced, NEW o, o = thread_offset[w]
    PROVE  Kept(w, o)'
  <1>1. ResetsDoes(w, o)
    BY ResetsAt
  <1>2. /\ o \in Worker /\ tasks'[o] = tasks[o] \o RestartTasks(w)
        /\ UNCHANGED <<heap, by_ref, pages, engine, object, fault>>
        /\ overtaken' = overtaken \cup Overtaken(w)
        /\ Executes(w, o)' <=> Executes(w, o)
        /\ Early(o)' <=> Early(o)
    BY <1>1 DEF ResetsDoes, Executes
  <1>3. Kept(w, o)
    BY DEF PagesKept
  <1>4. to_clear[o] \in Seq(Page) /\ tasks[o] \in Seq(Task)
    BY <1>2, SeqsAt
  <1>5. PICK n \in Nat : n = Cardinality(StartsIn(tasks[o], w))
    BY <1>4, StartsFinite
  <1>6. Cardinality(StartsIn(tasks'[o], w)) = n + 1
    <2>1. PICK q \in Seq(Task) : q = tasks[o]
      BY <1>4
    <2>2. PICK q2 : q2 = q \o RestartTasks(w)
      OBVIOUS
    <2>3. Cardinality(StartsIn(q2, w)) = Cardinality(StartsIn(q, w)) + 1
      BY <2>2, RestartStarts
    <2> QED
      BY <1>2, <1>5, <2>1, <2>2, <2>3
  <1>7. /\ \A k \in 1 .. n : <<w, object[w] + k>> \in overtaken'
        /\ Executes(w, o) => saved[w][1] = w /\ <<w, saved[w][2]>> \in overtaken'
    <2>1. /\ IsExecuted(w) <=> \E u \in Worker : Executes(w, u)
          /\ IsExecuted(w) => saved[w][1] = w /\ <<w, saved[w][2]>> \in Overtaken(w)
          /\ \A i \in 1 .. StartsQueued(w) : <<w, object[w] + i>> \in Overtaken(w)
          /\ StartsQueued(w) = Cardinality(StartsIn(tasks[thread_offset[w]], w))
      BY OvertakenOwn
    <2>2. StartsQueued(w) = n
      BY <1>5, <2>1
    <2> QED
      BY <1>2, <2>1, <2>2
  <1>8. \A p : IsOvertaken(w, p) => IsOvertaken(w, p)'
    BY <1>2 DEF IsOvertaken
  <1>9. OneObject(pages', w)
    BY <1>2, <1>3 DEF Kept
  <1>10. CASE context[w] = "none"
    <2>1. context'[w] = "none" /\ to_clear'[o] = to_clear[o] /\ ~Executes(w, o)
      BY <1>1, <1>2, <1>10 DEF ResetsDoes, Places, Housed, Occupied, Executes
    <2>2. \A i \in DOMAIN to_clear[o] : to_clear[o][i][1] # w
      BY <1>2, <1>10 DEF Places, Housed, ClearsOwned
    <2>3. /\ OnPages(w, o)' /\ Present(w)' /\ WaitsSound(w, o)' /\ NotLeftOn(w, o)'
          /\ RestsOnFirst(w, o)'
      BY <1>2, <2>1 DEF OnPages, Present, WaitsSound, NotLeftOn, RestsOnFirst
    <2>4. RestsUntilCleared(w, o)' /\ ClearsSound(w, o)'
      BY <2>1, <2>2 DEF RestsUntilCleared, ClearsSound
    <2>5. StartsCounted(w, o)'
      BY <1>2, <1>6, <1>7, <2>1 DEF StartsCounted
    <2>6. DeepHeld(w, o)'
      <3>1. fault = "none" => \A p \in DOMAIN pages : ~(p[1] = w /\ p[3] # 0 /\ ~IsOvertaken(w, p))
        BY <1>3, <1>10, <2>1, <2>2 DEF Kept, DeepHeld
      <3> QED
        BY <1>2, <1>8, <3>1 DEF DeepHeld
    <2> QED
      BY <1>9, <2>3, <2>4, <2>5, <2>6 DEF Kept
  <1>11. CASE context[w] # "none"
    <2>1. PICK s : s = saved[w]
      OBVIOUS
    <2>2. PICK e : e = End(pages, s)
      OBVIOUS
    <2>3. PICK c \in Seq(Page) : c = to_clear[o]
      BY <1>4
    <2>4. s \in Page /\ s[1] = w
      BY <1>11, <2>1, OwnSaved DEF Places
    <2>5. to_clear'[o] = Append(c, s) /\ saved'[w] = e /\ context'[w] = "blank"
      BY <1>1, <1>11, <2>1, <2>2, <2>3 DEF ResetsDoes
    <2>6. FitTable(pages, object, drawn) /\ OneObject(pages, w)
      BY <1>3 DEF Places, Housed, Tabled, Kept
    <2>7. e[1] = w /\ e[2] = s[2]
      BY <2>2, <2>4, <2>6, EndOfObject
    <2>8. /\ DOMAIN c \subseteq DOMAIN Append(c, s)
          /\ \A i \in DOMAIN c : Append(c, s)[i] = c[i]
          /\ \A i \in DOMAIN Append(c, s) :
               i \in DOMAIN c \/ (i = Len(c) + 1 /\ Append(c, s)[i] = s)
          /\ Len(c) + 1 \in DOMAIN Append(c, s) /\ Append(c, s)[Len(c) + 1] = s
      BY <2>4
    <2>9. PICK c2 : c2 = Append(c, s)
      OBVIOUS
    <2>10. /\ \A i \in DOMAIN c2 : (i \in DOMAIN c /\ c2[i] = c[i]) \/ (i = Len(c) + 1 /\ c2[i] = s)
           /\ \A i \in DOMAIN c : i \in DOMAIN c2 /\ c2[i] = c[i]
           /\ Len(c) + 1 \in DOMAIN c2 /\ c2[Len(c) + 1] = s
           /\ to_clear'[o] = c2
      BY <2>5, <2>8, <2>9
    <2>11. ASSUME heap[w] = "live", ~IsOvertaken(w, s)'
           PROVE  SoundIn(pages, s) /\ FirstIn(pages, e) /\ (context[w] = "blank" => s[3] = 0)
      <3>1. ~IsOvertaken(w, s) /\ ~Executes(w, o)
        BY <1>7, <1>8, <2>1, <2>11 DEF IsOvertaken
      <3>2. CASE context[w] = "saved"
        <4>1. SoundIn(pages, s)
          BY <1>3, <2>1, <2>11, <3>1, <3>2 DEF Kept, WaitsSound
        <4> QED
          BY <2>2, <2>6, <3>2, <4>1, SoundFirst
      <3>3. CASE context[w] \in {"blank", "stale"}
        <4>1. FirstIn(pages, s)
          BY <1>3, <2>1, <2>11, <3>1, <3>3 DEF Kept, RestsOnFirst
        <4> QED
          BY <2>2, <2>6, <4>1, FirstIs DEF FirstIn
      <3>4. context[w] \in Context
        BY Shapes DEF Places, Housed
      <3> QED
        BY <1>11, <3>2, <3>3, <3>4 DEF Context
    <2>12. OnPages(w, o)'
      <3> SUFFICES ASSUME Executes(w, o)
                   PROVE  /\ SoundIn(pages, engine[o])
                          /\ engine[o][2] = object[w] /\ e[2] = object[w]
                          /\ Early(o) => engine[o][3] = 0 /\ e = engine[o]
        BY <1>2, <2>5 DEF OnPages
      <3>1. /\ SoundIn(pages, engine[o])
            /\ engine[o][2] = object[w] /\ s[2] = object[w]
            /\ Early(o) => engine[o][3] = 0 /\ s = engine[o]
        BY <1>3, <2>1 DEF Kept, OnPages
      <3>2. Early(o) => e = s
        BY <2>2, <2>6, <3>1, SoundFirst
      <3> QED
        BY <2>7, <3>1, <3>2
    <2>13. Present(w)' /\ WaitsSound(w, o)' /\ NotLeftOn(w, o)'
      BY <1>2, <1>3, <1>11, <2>1, <2>5, <2>7 DEF Kept, Present, WaitsSound, NotLeftOn
    <2>14. RestsUntilCleared(w, o)'
      BY <1>2, <1>7, <2>1, <2>5, <2>7 DEF RestsUntilCleared, IsOvertaken
    <2>15. RestsOnFirst(w, o)'
      <3> SUFFICES ASSUME heap[w] = "live", ~IsOvertaken(w, e)'
                   PROVE  FirstIn(pages, e)
        BY <1>2, <2>5 DEF RestsOnFirst, IsOvertaken
      <3>1. ~IsOvertaken(w, s)'
        BY <2>7 DEF IsOvertaken
      <3> QED
        BY <2>11, <3>1
    <2>16. ClearsSound(w, o)'
      <3> SUFFICES ASSUME heap[w] = "live", NEW i \in DOMAIN c2, c2[i][1] = w, ~IsOvertaken(w, c2[i])'
                   PROVE  /\ SoundIn(pages, c2[i])
                          /\ \A j \in DOMAIN c2 : j # i /\ c2[j][1] = w /\ c2[j][2] = c2[i][2]
                               => c2[i][3] = 0 \/ c2[j][3] = 0
        BY <1>2, <2>10 DEF ClearsSound, IsOvertaken
      <3>1. \A j \in DOMAIN c : /\ c[j][1] = w /\ ~IsOvertaken(w, c[j])
                                => /\ SoundIn(pages, c[j])
                                   /\ \A k \in DOMAIN c : k # j /\ c[k][1] = w /\ c[k][2] = c[j][2]
                                        => c[j][3] = 0 \/ c[k][3] = 0
        BY <1>3, <2>3 DEF Kept, ClearsSound
      <3>2. \A j \in DOMAIN c : /\ c[j][1] = w /\ c[j][2] = s[2] /\ ~IsOvertaken(w, s)'
                                => s[3] = 0
        <4> SUFFICES ASSUME NEW j \in DOMAIN c, c[j][1] = w, c[j][2] = s[2], ~IsOvertaken(w, s)'
                     PROVE  s[3] = 0
          OBVIOUS
        <4>1. ~IsOvertaken(w, s)
          BY <1>8
        <4>2. context[w] = "blank"
          BY <1>3, <2>1, <2>3, <4>1 DEF Kept, RestsUntilCleared
        <4> QED
          BY <2>11, <4>2
      <3>3. CASE i \in DOMAIN c /\ c2[i] = c[i]
        <4>1. ~IsOvertaken(w, c[i])
          BY <1>8, <3>3
        <4>2. ASSUME NEW j \in DOMAIN c2, j # i, c2[j][1] = w, c2[j][2] = c2[i][2]
              PROVE  c2[i][3] = 0 \/ c2[j][3] = 0
          <5>1. CASE j \in DOMAIN c /\ c2[j] = c[j]
            BY <3>1, <3>3, <4>1, <4>2, <5>1
          <5>2. CASE c2[j] = s
            <6>1. ~IsOvertaken(w, s)'
              BY <4>2, <5>2 DEF IsOvertaken
            <6> QED
              BY <3>2, <3>3, <4>2, <5>2, <6>1
          <5> QED
            BY <2>10, <5>1, <5>2
        <4> QED
          BY <3>1, <3>3, <4>1, <4>2
      <3>4. CASE i = Len(c) + 1 /\ c2[i] = s
        <4>1. SoundIn(pages, c2[i])
          BY <2>11, <3>4
        <4>2. ASSUME NEW j \in DOMAIN c2, j # i, c2[j][1] = w, c2[j][2] = c2[i][2]
              PROVE  c2[i][3] = 0
          <5>1. j \in DOMAIN c /\ c2[j] = c[j]
            BY <2>10, <3>4, <4>2
          <5> QED
            BY <3>2, <3>4, <4>2, <5>1
        <4> QED
          BY <4>1, <4>2
      <3> QED
        BY <2>10, <3>3, <3>4
    <2>17. StartsCounted(w, o)'
      <3>1. Executes(w, o) => <<w, object[w]>> \in overtaken'
        BY <1>3, <1>7 DEF Kept, OnPages
      <3>2. (n + 1) - 1 = n
        OBVIOUS
      <3>3. \A k \in 1 .. ((n + 1) - 1) : <<w, object'[w] + k>> \in overtaken'
        BY <1>2, <1>7, <3>2
      <3>4. context'[w] = "saved" \/ Executes(w, o)' => <<w, object'[w]>> \in overtaken'
        BY <1>2, <2>5, <3>1
      <3> QED
        BY <1>6, <3>3, <3>4 DEF StartsCounted
    <2>18. DeepHeld(w, o)'
      <3> SUFFICES ASSUME fault = "none", NEW p \in DOMAIN pages, p[1] = w, p[3] # 0,
                          ~IsOvertaken(w, p)'
                   PROVE  \/ Executes(w, o) /\ p \in Chain(pages, engine[o])
                          \/ \E i \in DOMAIN c2 : c2[i][1] = w /\ p \in Chain(pages, c2[i])
        BY <1>2, <2>10 DEF DeepHeld
      <3>1. \/ Executes(w, o) /\ p \in Chain(pages, engine[o])
            \/ p \in Chain(pages, s)
            \/ \E i \in DOMAIN c : c[i][1] = w /\ p \in Chain(pages, c[i])
        BY <1>3, <1>8, <2>1, <2>3 DEF Kept, DeepHeld
      <3> QED
        BY <2>4, <2>10, <3>1
    <2> QED
      BY <1>9, <2>12, <2>13, <2>14, <2>15, <2>16, <2>17, <2>18 DEF Kept
  <1> QED
    BY <1>10, <1>11
-----------------------------------------------------------------------------
(* A FREE_VM_STACK task frees the pages of one chain but its last, and the *)
(* actor's next object is the task that follows.                           *)
LEMMA ClearsKept ==
    ASSUME Places, PagesKept, fault = "none", NEW t \in Worker, NEW a \in Actor, Clears(t, a),
           a \notin raced
    PROVE  Kept(a, t)'
  <1>1. /\ pc[t] = "pop" /\ tasks[t] # <<>> /\ Head(tasks[t]) = FreeTask(a)
    BY DEF Clears
  <1>2. PICK q \in Seq(Task) : q = tasks[t]
    BY SeqsAt
  <1>3. t = thread_offset[a]
    BY <1>1, <1>2, AllAtHome, NotHere
  <1>4. Kept(a, t)
    BY <1>3 DEF PagesKept
  <1>5. /\ to_clear[t] # <<>> /\ to_clear[t][1][1] = a
        /\ tasks'[t] # <<>> /\ Head(tasks'[t]) = NewTask(a)
        /\ tasks'[t] = Tail(tasks[t]) /\ to_clear'[t] = Tail(to_clear[t])
    BY ClearsNext DEF Places, Housed
  <1>6. UNCHANGED <<current, context, engine, saved, object, overtaken, heap, by_ref>>
    BY DEF Clears, othersVars
  <1>7. PICK c \in Seq(Page) : c = to_clear[t]
    BY SeqsAt
  <1>8. PICK c2 : c2 = Tail(c)
    OBVIOUS
  <1>9. PICK p0 : p0 = c[1]
    OBVIOUS
  <1>10. PICK S : S = Chain(pages, p0) \ {End(pages, p0)}
    OBVIOUS
  <1>11. /\ c # <<>> /\ 1 \in DOMAIN c /\ p0[1] = a /\ p0 \in Page /\ to_clear'[t] = c2
         /\ \A i \in DOMAIN c2 : i \in Nat \ {0} /\ i + 1 \in DOMAIN c /\ c2[i] = c[i + 1]
         /\ \A i \in DOMAIN c : i \in Nat /\ (i # 1 => i - 1 \in DOMAIN c2 /\ c2[i - 1] = c[i])
    <2>1. c # <<>>
      BY <1>5, <1>7
    <2>2. /\ 1 \in DOMAIN c
          /\ \A i \in DOMAIN Tail(c) : i \in Nat \ {0} /\ i + 1 \in DOMAIN c /\ Tail(c)[i] = c[i + 1]
          /\ \A i \in DOMAIN c : /\ i \in Nat
                                 /\ i # 1 => i - 1 \in DOMAIN Tail(c) /\ Tail(c)[i - 1] = c[i]
      BY <2>1, TailIs
    <2>3. p0[1] = a /\ p0 \in Page /\ to_clear'[t] = c2
      BY <1>5, <1>7, <1>8, <1>9, <2>1, <2>2
    <2>4. /\ \A i \in DOMAIN c2 : i \in Nat \ {0} /\ i + 1 \in DOMAIN c /\ c2[i] = c[i + 1]
          /\ \A i \in DOMAIN c : i \in Nat /\ (i # 1 => i - 1 \in DOMAIN c2 /\ c2[i - 1] = c[i])
      BY <1>8, <2>2
    <2> QED
      BY <2>1, <2>2, <2>3, <2>4
  <1>12. /\ pages' = Without(pages, S) /\ ~Executes(a, t) /\ ~Executes(a, t)' /\ IsNext(a, t)'
         /\ fault' = "none" => heap[a] # "freed"
    <2>1. pc'[t] = "loop"
      <3>1. pc \in [Thread -> PC] /\ Worker \subseteq Thread
        BY Shapes DEF Places, Housed
      <3> QED
        BY <3>1 DEF Clears
    <2>2. Head(to_clear[t]) = p0
      BY <1>7, <1>9, <1>11
    <2>3. pages' = Without(pages, S)
      BY <1>10, <2>2 DEF Clears
    <2>4. fault' = "none" => heap[a] # "freed"
      BY DEF Clears
    <2> QED
      BY <1>1, <1>5, <2>1, <2>3, <2>4 DEF Executes, Busy, RunningPhp, IsNext
  <1>13. FitTable(pages, object, drawn) /\ OneObject(pages, a)
    BY <1>4 DEF Places, Housed, Tabled, Kept
  <1>14. \A r \in S : r[1] = a /\ r[2] = p0[2]
    <2>1. p0 \in DOMAIN pages => \A r \in Chain(pages, p0) : r[1] = a /\ r[2] = p0[2]
      BY <1>11, <1>13, ChainOfObject
    <2>2. p0 \notin DOMAIN pages => Chain(pages, p0) = {}
      BY DEF Chain
    <2> QED
      BY <1>10, <2>1, <2>2
  (* What stays: first pages, chains of other objects, and all of them if  *)
  (* the chain was one page only.                                          *)
  <1>15. \A p : FirstIn(pages, p) => FirstIn(pages', p)
    <2> SUFFICES ASSUME NEW p, FirstIn(pages, p) PROVE FirstIn(pages', p)
      OBVIOUS
    <2>1. LET pg2 == Without(pages, Chain(pages, p0) \ {End(pages, p0)}) IN
          FirstIn(pg2, p) /\ SoundIn(pg2, p)
      BY <1>13, FirstUncleared
    <2> QED
      BY <1>10, <1>12, <2>1
  <1>16. ASSUME NEW p \in DOMAIN pages, p[1] = a, p[2] # p0[2] \/ S = {}
         PROVE  /\ Chain(pages', p) = Chain(pages, p)
                /\ SoundIn(pages, p) => SoundIn(pages', p)
    <2>1. \A r \in Chain(pages, p) : r[2] = p[2]
      BY <1>13, <1>16, ChainOfObject
    <2>2. \A r \in Chain(pages, p) : r \notin S
      BY <1>14, <1>16, <2>1
    <2>3. /\ Chain(Without(pages, S), p) = Chain(pages, p)
          /\ SoundIn(pages, p) => SoundIn(Without(pages, S), p)
      BY <1>13, <2>2, FreedApart
    <2> QED
      BY <1>12, <2>3
  <1>17. SoundIn(pages, p0) /\ p0[3] = 0 => S = {}
    BY <1>10, <1>13, SoundFirst
  <1>18. ASSUME context[a] = "saved", ~IsOvertaken(a, saved[a])
         PROVE  saved[a][2] # p0[2] /\ saved[a][1] = a
    <2>1. saved[a][2] # p0[2]
      BY <1>4, <1>7, <1>9, <1>11, <1>18 DEF Kept, RestsUntilCleared
    <2> QED
      BY <1>18, <2>1, OwnSaved DEF Places
  <1>19. ASSUME heap[a] = "live", NEW i \in DOMAIN c, i # 1, c[i][1] = a, ~IsOvertaken(a, c[i])
         PROVE  /\ SoundIn(pages, c[i])
                /\ c[i][2] # p0[2] \/ S = {} \/ c[i][3] = 0
                /\ \A j \in DOMAIN c : j # i /\ c[j][1] = a /\ c[j][2] = c[i][2]
                     => c[i][3] = 0 \/ c[j][3] = 0
    <2>1. \A k \in DOMAIN c : c[k][1] = a /\ ~IsOvertaken(a, c[k]) =>
             /\ SoundIn(pages, c[k])
             /\ \A j \in DOMAIN c : j # k /\ c[j][1] = a /\ c[j][2] = c[k][2]
                  => c[k][3] = 0 \/ c[j][3] = 0
      BY <1>4, <1>7, <1>19 DEF Kept, ClearsSound
    <2>2. CASE c[i][2] = p0[2]
      <3>1. ~IsOvertaken(a, p0)
        BY <1>19, <2>2 DEF IsOvertaken
      <3>2. SoundIn(pages, p0)
        BY <1>9, <1>11, <2>1, <3>1
      <3>3. c[i][3] = 0 \/ p0[3] = 0
        BY <1>9, <1>11, <1>19, <2>1, <2>2
      <3> QED
        BY <1>17, <1>19, <2>1, <3>2, <3>3
    <2> QED
      BY <1>19, <2>1, <2>2
  <1>20. OnPages(a, t)' /\ Present(a)' /\ NotLeftOn(a, t)'
    BY <1>4, <1>6, <1>12 DEF Kept, OnPages, Present, NotLeftOn
  <1>21. OneObject(pages', a)
    BY <1>12, <1>13, WithoutSameObject
  <1>22. WaitsSound(a, t)'
    <2> SUFFICES ASSUME context[a] = "saved", heap[a] = "live", ~IsOvertaken(a, saved[a])
                 PROVE  SoundIn(pages', saved[a])
      BY <1>6, <1>12 DEF WaitsSound, IsOvertaken
    <2>1. SoundIn(pages, saved[a])
      BY <1>4 DEF Kept, WaitsSound
    <2>2. saved[a] \in DOMAIN pages
      BY <2>1 DEF SoundIn
    <2> QED
      BY <1>16, <1>18, <2>1, <2>2
  <1>23. RestsUntilCleared(a, t)'
    <2>1. \A i \in DOMAIN c2 : \E j \in DOMAIN c : c2[i] = c[j]
      BY <1>11
    <2> QED
      BY <1>4, <1>6, <1>7, <1>11, <1>12, <2>1 DEF Kept, RestsUntilCleared, IsOvertaken
  <1>24. RestsOnFirst(a, t)'
    BY <1>4, <1>6, <1>12, <1>15 DEF Kept, RestsOnFirst, IsOvertaken
  <1>25. ClearsSound(a, t)'
    <2> SUFFICES ASSUME heap[a] = "live", NEW i \in DOMAIN c2, c2[i][1] = a, ~IsOvertaken(a, c2[i])
                 PROVE  /\ SoundIn(pages', c2[i])
                        /\ \A j \in DOMAIN c2 : j # i /\ c2[j][1] = a /\ c2[j][2] = c2[i][2]
                             => c2[i][3] = 0 \/ c2[j][3] = 0
      BY <1>6, <1>11 DEF ClearsSound, IsOvertaken
    <2>1. PICK k \in DOMAIN c : k = i + 1 /\ c2[i] = c[k] /\ k # 1
      BY <1>11
    <2>2. /\ SoundIn(pages, c[k])
          /\ c[k][2] # p0[2] \/ S = {} \/ c[k][3] = 0
          /\ \A j \in DOMAIN c : j # k /\ c[j][1] = a /\ c[j][2] = c[k][2]
               => c[k][3] = 0 \/ c[j][3] = 0
      BY <1>19, <2>1
    <2>3. c[k] \in DOMAIN pages
      BY <2>2 DEF SoundIn
    <2>4. ASSUME c[k][2] # p0[2] \/ S = {}
          PROVE  SoundIn(pages', c[k])
      BY <1>16, <2>1, <2>2, <2>3, <2>4
    <2>5. ASSUME c[k][3] = 0
          PROVE  SoundIn(pages', c[k])
      <3>1. FirstIn(pages, c[k])
        BY <2>3, <2>5 DEF FirstIn
      <3>2. FirstIn(pages', c[k]) /\ c[k] = <<c[k][1], c[k][2], 0>>
        BY <1>13, <1>15, <3>1, FirstIs
      <3>3. FitTable(Without(pages, S), object, drawn)
        BY <1>13, WithoutFits
      <3>4. SoundIn(pages', c[k])
        BY <1>12, <3>2, <3>3, FirstIs
      <3> QED
        BY <3>4
    <2>6. SoundIn(pages', c[k])
      BY <2>1, <2>2, <2>4, <2>5
    <2>7. ASSUME NEW j \in DOMAIN c2, j # i, c2[j][1] = a, c2[j][2] = c2[i][2]
          PROVE  c2[i][3] = 0 \/ c2[j][3] = 0
      <3>1. j + 1 \in DOMAIN c /\ c2[j] = c[j + 1] /\ j + 1 # k
        BY <1>11, <2>1, <2>7
      <3> QED
        BY <2>1, <2>2, <2>7, <3>1
    <2> QED
      BY <2>1, <2>6, <2>7
  <1>26. StartsCounted(a, t)'
    <2>1. Head(q) # NewTask(a) /\ q # <<>>
      BY <1>1, <1>2, TasksApart
    <2>2. Cardinality(StartsIn(Tail(q), a)) = Cardinality(StartsIn(q, a))
      BY <2>1, StartsTail
    <2>3. Cardinality(StartsIn(tasks'[t], a)) = Cardinality(StartsIn(tasks[t], a))
      BY <1>2, <1>5, <2>2
    <2> QED
      BY <1>4, <1>6, <1>12, <2>3 DEF Kept, StartsCounted
  <1>27. DeepHeld(a, t)'
    <2> SUFFICES ASSUME fault' = "none", NEW p \in DOMAIN pages', p[1] = a, p[3] # 0,
                        ~IsOvertaken(a, p)'
                 PROVE  \/ context'[a] = "saved" /\ p \in Chain(pages', saved'[a])
                        \/ \E i \in DOMAIN c2 : c2[i][1] = a /\ p \in Chain(pages', c2[i])
      BY <1>11 DEF DeepHeld
    <2>1. p \in DOMAIN pages /\ p \notin S /\ ~IsOvertaken(a, p) /\ heap[a] = "live"
      <3>1. heap[a] \in {"live", "freed"}
        BY DEF Places, Typed, TypeOK, ObjectTypes
      <3> QED
        BY <1>6, <1>12, <3>1 DEF Without, IsOvertaken
    <2>2. \/ context[a] = "saved" /\ p \in Chain(pages, saved[a])
          \/ \E i \in DOMAIN c : c[i][1] = a /\ p \in Chain(pages, c[i])
      BY <1>4, <1>7, <1>12, <2>1 DEF Kept, DeepHeld
    <2>3. \A r : r[1] = a /\ p \in Chain(pages, r)
                   => r \in DOMAIN pages /\ r[2] = p[2] /\ ~IsOvertaken(a, r)
      <3> SUFFICES ASSUME NEW r, r[1] = a, p \in Chain(pages, r)
                   PROVE  r \in DOMAIN pages /\ r[2] = p[2] /\ ~IsOvertaken(a, r)
        OBVIOUS
      <3>1. r \in DOMAIN pages
        BY DEF Chain
      <3>2. p[2] = r[2]
        BY <1>13, <3>1, ChainOfObject
      <3> QED
        BY <2>1, <3>1, <3>2 DEF IsOvertaken
    <2>4. CASE context[a] = "saved" /\ p \in Chain(pages, saved[a])
      <3>1. saved[a][1] = a
        BY <2>4, OwnSaved DEF Places
      <3>2. saved[a] \in DOMAIN pages /\ ~IsOvertaken(a, saved[a])
        BY <2>3, <2>4, <3>1
      <3>3. saved[a][2] # p0[2]
        BY <1>18, <2>4, <3>2
      <3> QED
        BY <1>6, <1>16, <2>4, <3>1, <3>2, <3>3
    <2>5. ASSUME NEW i \in DOMAIN c, c[i][1] = a, p \in Chain(pages, c[i])
          PROVE  \E j \in DOMAIN c2 : c2[j][1] = a /\ p \in Chain(pages', c2[j])
      <3>1. c[i] \in DOMAIN pages /\ ~IsOvertaken(a, c[i])
        BY <2>3, <2>5
      <3>2. i # 1
        <4> SUFFICES ASSUME i = 1 PROVE FALSE
          OBVIOUS
        <4>1. p0 \in DOMAIN pages /\ ~IsOvertaken(a, p0) /\ p \in Chain(pages, p0)
          BY <1>9, <2>5, <3>1
        <4>2. SoundIn(pages, p0)
          BY <1>4, <1>7, <1>9, <1>11, <2>1, <4>1 DEF Kept, ClearsSound
        <4>3. p = End(pages, p0)
          BY <1>10, <2>1, <4>1
        <4> QED
          BY <1>13, <4>2, <4>3, SoundFirst
      <3>3. SoundIn(pages, c[i]) /\ (c[i][2] # p0[2] \/ S = {} \/ c[i][3] = 0)
        BY <1>19, <2>1, <2>5, <3>1, <3>2
      <3>4. c[i][3] # 0
        <4> SUFFICES ASSUME c[i][3] = 0 PROVE FALSE
          OBVIOUS
        <4>1. Chain(pages, c[i]) = {c[i]}
          BY <1>13, <3>3, SoundFirst
        <4> QED
          BY <2>5, <4>1
      <3>5. p \in Chain(pages', c[i])
        BY <1>16, <2>5, <3>1, <3>3, <3>4
      <3>6. i - 1 \in DOMAIN c2 /\ c2[i - 1] = c[i]
        BY <1>11, <3>2
      <3> QED
        BY <2>5, <3>5, <3>6
    <2> QED
      BY <2>2, <2>4, <2>5
  <1> QED
    BY <1>20, <1>21, <1>22, <1>23, <1>24, <1>25, <1>26, <1>27 DEF Kept
-----------------------------------------------------------------------------
(* An actor that is removed is freed with the chain that it is left with.  *)
LEMMA DestroyedPages ==
    ASSUME Places, NEW t \in Worker, NEW b \in Actor, Kept(b, thread_offset[b]), NEW S,
           S = UNION {Chain(pages, saved[a]) : a \in actor_removals[t]}
    PROVE  \A q \in S : q[1] = b => q \in Chain(pages, saved[b]) /\ q[2] = saved[b][2]
  <1> SUFFICES ASSUME NEW a \in actor_removals[t], NEW q \in Chain(pages, saved[a]), q[1] = b
               PROVE  q \in Chain(pages, saved[b]) /\ q[2] = saved[b][2]
    OBVIOUS
  <1>1. saved[a] \in DOMAIN pages
    BY DEF Chain
  <1>2. a \in Actor
    BY DEF Places, Typed, TypeOK, QueueTypes
  <1>3. saved[a] # NoPage
    <2>1. saved[a] \in Page
      BY <1>1 DEF Places, Housed, Tabled, FitTable, Fit
    <2> QED
      BY <2>1, PageIs
  <1>4. saved[a][1] = a
    BY <1>2, <1>3, OwnSaved DEF Places
  <1>5. q[1] = a
    BY <1>1, <1>4, ChainFits DEF Places, Housed, Tabled
  <1>6. a = b
    BY <1>5
  <1>7. OneObject(pages, b)
    BY DEF Kept
  <1>8. q[2] = saved[b][2]
    BY <1>1, <1>4, <1>6, <1>7, ChainOfObject DEF Places, Housed, Tabled
  <1> QED
    BY <1>6, <1>8

LEMMA DestroysKept ==
    ASSUME Places, PagesKept, NEW t \in Worker, Destroys(t),
           NEW b \in actor_removals[t], b \notin raced
    PROVE  Kept(b, t)'
  <1>1. b \in Actor
    BY DEF Places, Typed, TypeOK, QueueTypes
  <1>2. t = thread_offset[b]
    BY <1>1, AllAtHome, NotHere
  <1>3. Kept(b, t)
    BY <1>1, <1>2 DEF PagesKept
  <1>4. heap[b] = "live" /\ b \notin by_ref
    <2>1. heap[b] \in {"live", "freed"}
      BY <1>1 DEF Places, Typed, TypeOK, ObjectTypes
    <2> QED
      BY <1>1, <2>1 DEF Places, OwnedOnce
  <1>5. heap'[b] = "freed"
    BY <1>1 DEF Destroys
  <1>6. pc \in [Thread -> PC] /\ Worker \subseteq Thread
    BY Shapes DEF Places, Housed
  <1>7. (pc[t] = "loop" /\ pc'[t] = "pop") \/ (pc[t] = "spin" /\ pc'[t] = "ended")
    BY <1>6 DEF Destroys
  <1>8. UNCHANGED <<current, context, tasks, by_ref, engine, saved, to_clear, object, overtaken, fault>>
    BY DEF Destroys
  <1>9. ~Executes(b, t) /\ ~Executes(b, t)'
    BY <1>7 DEF Executes, Busy, RunningPhp
  <1>10. PICK S : S = UNION {Chain(pages, saved[a]) : a \in actor_removals[t]}
    OBVIOUS
  <1>11. pages' = Without(pages, S)
    BY <1>10 DEF Destroys
  <1>12. FitTable(pages, object, drawn) /\ OneObject(pages, b)
    BY <1>3 DEF Places, Housed, Tabled, Kept
  <1>13. Grounded(pages)
    BY <1>12 DEF FitTable
  <1>14. OneObject(pages', b)
    BY <1>11, <1>12, WithoutSameObject
  <1>15. OnPages(b, t)' /\ Present(b)' /\ WaitsSound(b, t)' /\ RestsOnFirst(b, t)' /\ ClearsSound(b, t)'
    BY <1>4, <1>5, <1>8, <1>9 DEF OnPages, Present, WaitsSound, RestsOnFirst, ClearsSound
  <1>16. NotLeftOn(b, t)' /\ StartsCounted(b, t)'
    BY <1>3, <1>8, <1>9 DEF Kept, NotLeftOn, StartsCounted
  <1>17. RestsUntilCleared(b, t)'
    BY <1>3, <1>8, <1>9 DEF Kept, RestsUntilCleared, IsOvertaken
  <1>18. \A q \in S : q[1] = b => q \in Chain(pages, saved[b]) /\ q[2] = saved[b][2]
    BY <1>1, <1>2, <1>3, <1>10, DestroyedPages
  <1>19. DeepHeld(b, t)'
    <2> SUFFICES ASSUME fault' = "none", NEW p \in DOMAIN pages', p[1] = b, p[3] # 0,
                        ~IsOvertaken(b, p)'
                 PROVE  \E i \in DOMAIN to_clear'[t] :
                          to_clear'[t][i][1] = b /\ p \in Chain(pages', to_clear'[t][i])
      BY DEF DeepHeld
    <2>1. p \in DOMAIN pages /\ p \notin S /\ ~IsOvertaken(b, p) /\ fault = "none"
      BY <1>8, <1>11 DEF Without, IsOvertaken
    <2>2. p \notin Chain(pages, saved[b])
      BY <1>10, <2>1
    <2>3. PICK i \in DOMAIN to_clear[t] : to_clear[t][i][1] = b /\ p \in Chain(pages, to_clear[t][i])
      BY <1>3, <1>9, <2>1, <2>2 DEF Kept, DeepHeld
    <2>4. PICK c : c = to_clear[t][i]
      OBVIOUS
    <2>5. c \in DOMAIN pages /\ c[1] = b /\ p \in Chain(pages, c)
      BY <2>3, <2>4 DEF Chain
    <2>6. \A q \in Chain(pages, c) : q[1] = b /\ q[2] = c[2]
      BY <1>12, <2>5, ChainOfObject
    <2>7. p \in Chain(pages', c)
      <3>1. CASE c[2] # saved[b][2]
        <4>1. \A q \in Chain(pages, c) : q \notin S
          BY <1>18, <2>6, <3>1
        <4>2. Chain(Without(pages, S), c) = Chain(pages, c)
          BY <1>12, <2>5, <4>1, FreedApart
        <4> QED
          BY <1>11, <2>5, <4>2
      <3>2. CASE c[2] = saved[b][2]
        <4>1. ~IsOvertaken(b, saved[b])
          BY <2>1, <2>5, <2>6, <3>2 DEF IsOvertaken
        <4>2. context[b] = "blank"
          BY <1>3, <2>3, <2>4, <3>2, <4>1 DEF Kept, RestsUntilCleared
        <4>3. FirstIn(pages, saved[b])
          BY <1>3, <1>4, <4>1, <4>2 DEF Kept, RestsOnFirst
        <4>4. /\ pages[saved[b]] \notin DOMAIN pages /\ Chain(pages, saved[b]) = {saved[b]}
              /\ saved[b][3] = 0
          BY <1>12, <4>3, FirstIs DEF FirstIn
        <4>5. \A q \in Chain(pages, c) \cap S : q = saved[b]
          BY <1>18, <2>6, <4>4
        <4>6. c \notin S
          <5> SUFFICES ASSUME c \in S PROVE FALSE
            OBVIOUS
          <5>1. c = saved[b]
            BY <1>18, <2>5, <4>4
          <5> QED
            BY <2>2, <2>5, <5>1
        <4>7. Chain(Without(pages, S), c) = Chain(pages, c) \ S
          BY <1>13, <2>5, <4>4, <4>5, <4>6, FreeingKeeps
        <4> QED
          BY <1>11, <2>1, <2>5, <4>7
      <3> QED
        BY <3>1, <3>2
    <2> QED
      BY <1>8, <2>3, <2>4, <2>7
  <1> QED
    BY <1>14, <1>15, <1>16, <1>17, <1>19 DEF Kept
-----------------------------------------------------------------------------
(* A step either leaves an actor apart or is known to keep its pages.      *)
LEMMA EachKept ==
    ASSUME Places, Typed', Housed', PagesKept, raced \subseteq raced', thread_offset' = thread_offset,
           \A b \in Actor \ raced' :
             \A h : h = thread_offset[b] => Apart(b, h) \/ Kept(b, h)'
    PROVE  PagesKept'
  <1> SUFFICES ASSUME NEW b \in Actor \ raced', NEW o, o = thread_offset'[b]
               PROVE  Kept(b, o)'
    BY DEF PagesKept
  <1>1. o = thread_offset[b] /\ o \in Worker
    BY HomeIs
  <1>2. Kept(b, o)
    BY <1>1 DEF PagesKept
  <1>3. CASE Apart(b, o)
    BY <1>1, <1>2, <1>3, ApartKeeps DEF Places
  <1> QED
    BY <1>1, <1>3

LEMMA RunnersKept ==
    ASSUME Places, Typed', Housed', PagesKept, NEW t \in Worker,
           \/ Enters(t) \/ Grows(t) \/ Shrinks(t) \/ Blocks(t) \/ Leaves(t) \/ LeavesCtor(t)
    PROVE  PagesKept'
  <1>1. raced \subseteq raced' /\ thread_offset' = thread_offset
    BY DEF Enters, Grows, Shrinks, Blocks, Leaves, LeavesCtor, othersVars
  <1>2. Busy(t)
    BY DEF Enters, Grows, Shrinks, Blocks, Leaves, LeavesCtor, Busy, RunningPhp
  <1>3. ASSUME NEW b \in Actor \ raced', NEW h, h = thread_offset[b]
        PROVE  Apart(b, h) \/ Kept(b, h)'
    <2>1. CASE b # current[t]
      <3>1. Apart(b, thread_offset[b])
        BY <2>1, EntersElse, GrowsElse, ShrinksElse, BlocksElse, LeavesElse, LeavesCtorElse
      <3> QED
        BY <1>3, <3>1
    <2>2. CASE b = current[t]
      <3>1. b \notin raced
        BY <1>1
      <3>2. t = h
        <4>1. RunsAs(b, t)
          BY <1>2, <2>2, <3>1, RunIsKept
        <4> QED
          BY <1>3, <4>1 DEF RunsAs
      <3>3. Kept(b, t)'
        BY <2>2, <3>1, EntersKept, GrowsKept, ShrinksKept, BlocksKept, LeavesKept, LeavesCtorKept
      <3> QED
        BY <3>2, <3>3
    <2> QED
      BY <2>1, <2>2
  <1> QED
    BY <1>1, <1>3, EachKept

LEMMA DestroyersKept ==
    ASSUME Places, Typed', Housed', PagesKept, NEW t \in Worker, Destroys(t)
    PROVE  PagesKept'
  <1>1. raced \subseteq raced' /\ thread_offset' = thread_offset
    BY DEF Destroys
  <1>2. ASSUME NEW b \in Actor \ raced', NEW h, h = thread_offset[b]
        PROVE  Apart(b, h) \/ Kept(b, h)'
    <2>1. CASE b \notin actor_removals[t]
      <3>1. Apart(b, thread_offset[b])
        BY <2>1, DestroysElse
      <3> QED
        BY <1>2, <3>1
    <2>2. CASE b \in actor_removals[t]
      <3>1. b \notin raced
        BY <1>1
      <3>2. t = h
        BY <1>2, <2>2, <3>1, AllAtHome, NotHere
      <3>3. Kept(b, t)'
        BY <2>2, <3>1, DestroysKept
      <3> QED
        BY <3>2, <3>3
    <2> QED
      BY <2>1, <2>2
  <1> QED
    BY <1>1, <1>2, EachKept

LEMMA TakersKept ==
    ASSUME Places, Typed', Housed', PagesKept, fault = "none", NEW t \in Worker, NEW a \in Actor,
           MakesObject(t, a) \/ Reenters(t, a) \/ Clears(t, a)
    PROVE  PagesKept'
  <1>1. raced' = raced /\ thread_offset' = thread_offset
    BY DEF MakesObject, Reenters, Clears, othersVars
  <1>2. tasks[t] # <<>> /\ Head(tasks[t]) \in {ResumeTask(a), NewTask(a), FreeTask(a)}
    BY DEF MakesObject, Reenters, Clears
  <1>3. ASSUME NEW b \in Actor \ raced', NEW h, h = thread_offset[b]
        PROVE  Apart(b, h) \/ Kept(b, h)'
    <2>1. CASE b # a
      <3>1. b \in Actor \ raced
        BY <1>1
      <3>2. Apart(b, thread_offset[b])
        BY <2>1, <3>1, MakesObjectElse, ReentersElse, ClearsElse
      <3> QED
        BY <1>3, <3>2
    <2>2. CASE b = a
      <3>1. a \notin raced
        BY <1>1, <2>2
      <3>2. tasks[t] \in Seq(Task)
        BY SeqsAt
      <3>3. t = thread_offset[a]
        BY <1>2, <3>1, <3>2, AllAtHome, NotHere
      <3>4. Kept(a, t)'
        BY <3>1, MakesObjectKept, ReentersKept, ClearsKept
      <3> QED
        BY <1>3, <2>2, <3>3, <3>4
    <2> QED
      BY <2>1, <2>2
  <1> QED
    BY <1>1, <1>3, EachKept

LEMMA RestartersKept ==
    ASSUME Places, Typed', Housed', PagesKept, NEW t \in Worker, NEW w \in Actor, Resets(t, w)
    PROVE  PagesKept'
  <1>1. raced \subseteq raced' /\ thread_offset' = thread_offset
    BY DEF Resets
  <1>2. ASSUME NEW b \in Actor \ raced', NEW h, h = thread_offset[b]
        PROVE  Apart(b, h) \/ Kept(b, h)'
    <2>1. CASE b # w
      <3>1. Apart(b, thread_offset[b])
        BY <2>1, ResetsElse
      <3> QED
        BY <1>2, <3>1
    <2>2. CASE b = w
      <3>1. w \notin raced
        BY <1>1, <2>2
      <3>2. Kept(w, h)'
        BY <1>2, <2>2, <3>1, ResetsKept
      <3> QED
        BY <2>2, <3>2
    <2> QED
      BY <2>1, <2>2
  <1> QED
    BY <1>1, <1>2, EachKept
-----------------------------------------------------------------------------
LEMMA PagesKeptInit ==
    ASSUME VmInit, Places
    PROVE  PagesKept
  <1> SUFFICES ASSUME NEW a \in Actor, NEW h, h = thread_offset[a]
               PROVE  Kept(a, h)
    BY DEF PagesKept
  <1>1. h \in Worker
    BY HomeIs
  <1>2. /\ context[a] = "none" /\ engine[h] = Own(h) /\ tasks[h] = <<>>
        /\ to_clear[h] = <<>> /\ ~Busy(h)
    <2>1. h \in Thread /\ h # Main
      BY <1>1, ThreadAssumption DEF Thread
    <2>2. pc[h] = "loop" /\ tasks[h] = <<>> /\ context[a] = "none"
      BY <2>1 DEF VmInit, Init, ActorsInit, ThreadsInit
    <2>3. engine[h] = Own(h) /\ to_clear[h] = <<>>
      BY <1>1 DEF VmInit
    <2> QED
      BY <2>2, <2>3 DEF Busy, RunningPhp
  <1>3. \A p \in DOMAIN pages : pages[p] = NoPage /\ p[3] = 0
    BY DEF VmInit, Own
  <1>4. StartsIn(tasks[h], a) = {}
    BY <1>2 DEF StartsIn
  <1>5. Cardinality(StartsIn(tasks[h], a)) = 0
    BY <1>4, FS_EmptySet
  <1>6. OnPages(a, h) /\ OneObject(pages, a) /\ Present(a) /\ WaitsSound(a, h) /\ NotLeftOn(a, h)
    BY <1>2, <1>3 DEF OnPages, Executes, OneObject, Present, WaitsSound, NotLeftOn
  <1>7. RestsUntilCleared(a, h) /\ RestsOnFirst(a, h) /\ ClearsSound(a, h)
    BY <1>2 DEF RestsUntilCleared, RestsOnFirst, ClearsSound
  <1>8. StartsCounted(a, h)
    <2>1. 1 .. (0 - 1) = {}
      OBVIOUS
    <2> QED
      BY <1>5, <2>1 DEF StartsCounted
  <1>9. DeepHeld(a, h)
    BY <1>3 DEF DeepHeld
  <1> QED
    BY <1>6, <1>7, <1>8, <1>9 DEF Kept

LEMMA PagesKeptStep ==
    ASSUME Places, Places', PagesKept, [VmNext]_<<vars, vmVars>>
    PROVE  PagesKept'
  <1>1. (Calm /\ CalmQueues) \/ (fault = "none" /\ \E t \in Worker : SharpStep(t))
    BY PlacesStep
  <1>2. Typed' /\ Housed'
    BY DEF Places
  <1>3. CASE Calm /\ CalmQueues
    BY <1>2, <1>3, CalmKept
  <1>4. CASE fault = "none" /\ \E t \in Worker : SharpStep(t)
    <2>1. PICK t \in Worker : SharpStep(t)
      BY <1>4
    <2>2. CASE \/ Enters(t) \/ Grows(t) \/ Shrinks(t) \/ Blocks(t) \/ Leaves(t) \/ LeavesCtor(t)
      BY <1>2, <2>2, RunnersKept
    <2>3. CASE Destroys(t)
      BY <1>2, <2>3, DestroyersKept
    <2>4. CASE \E a \in Actor : MakesObject(t, a) \/ Reenters(t, a) \/ Clears(t, a)
      BY <1>2, <1>4, <2>4, TakersKept
    <2>5. CASE \E w \in Actor : w \in created /\ Resets(t, w)
      BY <1>2, <2>5, RestartersKept
    <2> QED
      BY <2>1, <2>2, <2>3, <2>4, <2>5 DEF SharpStep
  <1> QED
    BY <1>1, <1>3, <1>4

(* What is known of the pages of every actor, at any time.                 *)
LEMMA PagesAlways == VmSpec => [](Places /\ PagesKept)
  <1>1. VmInit /\ Places => PagesKept
    BY PagesKeptInit
  <1>2. Places /\ Places' /\ PagesKept /\ [VmNext]_<<vars, vmVars>> => PagesKept'
    BY PagesKeptStep
  <1> QED
    BY <1>1, <1>2, PlacesKnown, PTL DEF VmSpec
-----------------------------------------------------------------------------
(* Whatever threads run, create, restart and free around it, an actor's    *)
(* code is on allocated pages, on the chain that phactor_actor_ctor began  *)
(* for its present object, and a thread that runs none is on no page that  *)
(* ph_vmcontext_swap has put away.                                         *)
THEOREM OwnPagesUsed == VmSpec => []OnOwnPages
  <1>1. ASSUME Places, PagesKept PROVE OnOwnPages
    <2> SUFFICES ASSUME NEW t \in Worker
                 PROVE  IF pc[t] \in RunningPhp
                        THEN \/ current[t] \in raced
                             \/ engine[t] \in Live /\ Bottom(engine[t]) = PageOf(current[t], 0)
                        ELSE \A a \in Actor \ raced :
                               context[a] = "saved" => engine[t] \notin PagesFrom(saved[a])
      BY DEF OnOwnPages
    <2>1. ASSUME pc[t] \in RunningPhp, NEW a, a = current[t], a \notin raced
          PROVE  engine[t] \in Live /\ Bottom(engine[t]) = PageOf(a, 0)
      <3>1. RunsAs(a, t)
        BY <1>1, <2>1, RunIsKept DEF Busy
      <3>2. End(pages, engine[t]) = <<a, object[a], 0>> /\ engine[t] \in DOMAIN pages
        BY <3>1 DEF RunsAs, SoundIn
      <3>3. Bottom(engine[t]) = End(pages, engine[t])
        BY PagesAreChains
      <3> QED
        BY <3>2, <3>3 DEF Live, PageOf
    <2>2. ASSUME NEW a \in Actor \ raced, context[a] = "saved", engine[t] \in PagesFrom(saved[a])
          PROVE  FALSE
      <3>1. PICK h : h = thread_offset[a]
        OBVIOUS
      <3>2. Kept(a, h)
        BY <1>1, <3>1 DEF PagesKept
      <3>3. engine[t] \in Chain(pages, saved[a])
        BY <2>2, PagesAreChains
      <3>4. saved[a] \in DOMAIN pages
        BY <3>3 DEF Chain
      <3>5. saved[a][1] = a /\ saved[a][2] # 0
        BY <1>1, <2>2, OwnSaved DEF Places
      <3>6. FitTable(pages, object, drawn) /\ OneObject(pages, a)
        BY <1>1, <3>2 DEF Places, Housed, Tabled, Kept
      <3>7. engine[t][1] = a /\ engine[t][2] = saved[a][2]
        BY <3>3, <3>4, <3>5, <3>6, ChainOfObject
      <3>8. t = h
        BY <1>1, <3>1, <3>5, <3>7, AllAtHome, NotHere
      <3> QED
        BY <2>2, <3>2, <3>7, <3>8 DEF Kept, NotLeftOn
    <2> QED
      BY <2>1, <2>2
  <1> QED
    BY <1>1, PagesAlways, PTL

(* What ph_vmcontext_swap and ph_vmcontext_reset leave in the context of   *)
(* an actor is still allocated, and a page of the actor, when it is taken  *)
(* up again, unless a restart found the object running or not yet made.    *)
THEOREM SavedStaysLive == VmSpec => []SavedPagesLive
  <1>1. ASSUME Places, PagesKept PROVE SavedPagesLive
    <2> SUFFICES ASSUME NEW a \in Actor \ raced, context[a] \in {"blank", "saved"},
                        heap[a] = "live", ObjectOf(saved[a]) \notin overtaken
                 PROVE  saved[a] \in Live /\ Bottom(saved[a])[1] = a
      BY DEF SavedPagesLive
    <2>1. PICK h : h = thread_offset[a]
      OBVIOUS
    <2>2. Kept(a, h)
      BY <1>1, <2>1 DEF PagesKept
    <2>3. saved[a][1] = a
      BY <1>1, OwnSaved DEF Places
    <2>4. ~IsOvertaken(a, saved[a])
      BY <2>3 DEF ObjectOf, IsOvertaken
    <2>5. saved[a] \in DOMAIN pages
      BY <2>2, <2>4 DEF Kept, WaitsSound, RestsOnFirst, SoundIn, FirstIn
    <2>6. End(pages, saved[a])[1] = a
      <3>1. FitTable(pages, object, drawn) /\ OneObject(pages, a)
        BY <1>1, <2>2 DEF Places, Housed, Tabled, Kept
      <3> QED
        BY <2>3, <3>1, EndOfObject
    <2>7. Bottom(saved[a]) = End(pages, saved[a])
      BY PagesAreChains
    <2> QED
      BY <2>5, <2>6, <2>7 DEF Live
  <1> QED
    BY <1>1, PagesAlways, PTL

(* The page in every FREE_VM_STACK task that ph_supervisor_one_for_one has *)
(* queued for an actor is allocated until ph_vmcontext_clear gets to it.   *)
THEOREM ClearsStayLive == VmSpec => []ClearsLivePages
  <1>1. ASSUME Places, PagesKept PROVE ClearsLivePages
    <2> SUFFICES ASSUME NEW t \in Worker, NEW i \in DOMAIN to_clear[t],
                        NEW p, p = to_clear[t][i]
                 PROVE  /\ p # NoPage
                        /\ p \in Live \/ ObjectOf(p) \in overtaken \/ p[1] \in Freed \cup raced
      BY DEF ClearsLivePages
    <2>1. p \in Page /\ p[1] \in Actor
      BY <1>1 DEF Places, Housed, Tabled, FitClears, Fit
    <2>2. p # NoPage
      BY <2>1, PageIs
    <2>3. ASSUME ObjectOf(p) \notin overtaken, p[1] \notin Freed \cup raced
          PROVE  p \in Live
      <3>1. PICK a \in Actor : a = p[1]
        BY <2>1
      <3>2. PICK h : h = thread_offset[a]
        OBVIOUS
      <3>3. Kept(a, h)
        BY <1>1, <2>3, <3>1, <3>2 DEF PagesKept
      <3>4. t = h
        BY <1>1, <2>3, <3>1, <3>2, AllAtHome, NotHere
      <3>5. heap[a] = "live"
        BY <1>1, <2>3, <3>1 DEF Freed, Places, Typed, TypeOK, ObjectTypes
      <3>6. ~IsOvertaken(a, p)
        BY <2>3, <3>1 DEF ObjectOf, IsOvertaken
      <3>7. SoundIn(pages, p)
        BY <3>1, <3>3, <3>4, <3>5, <3>6 DEF Kept, ClearsSound
      <3> QED
        BY <3>7 DEF SoundIn, Live
    <2> QED
      BY <2>2, <2>3
  <1> QED
    BY <1>1, PagesAlways, PTL

(* No page that PHP added under an object is lost: until it is freed, the  *)
(* engine, the context or a FREE_VM_STACK task of its actor leads to it.   *)
THEOREM DeepPagesReached == VmSpec => []DeepPagesFreed
  <1>1. ASSUME Places, PagesKept PROVE DeepPagesFreed
    <2> SUFFICES ASSUME fault = "none", NEW p \in Live, p[3] # 0, ObjectOf(p) \notin overtaken,
                        p[1] \notin raced
                 PROVE  p \in Reached
      BY DEF DeepPagesFreed
    <2>1. p[1] \in Actor
      BY <1>1 DEF Live, Places, Housed, Tabled, FitTable, Fit
    <2>2. PICK a \in Actor : a = p[1]
      BY <2>1
    <2>3. PICK h \in Worker : h = thread_offset[a]
      BY <1>1, HomeIs
    <2>4. Kept(a, h)
      BY <1>1, <2>2, <2>3 DEF PagesKept
    <2>5. ~IsOvertaken(a, p) /\ p \in DOMAIN pages
      BY <2>2 DEF ObjectOf, IsOvertaken, Live
    <2>6. \/ p \in Chain(pages, engine[h])
          \/ p \in Chain(pages, saved[a])
          \/ \E i \in DOMAIN to_clear[h] : p \in Chain(pages, to_clear[h][i])
      BY <2>2, <2>4, <2>5 DEF Kept, DeepHeld
    <2>7. \A q : Chain(pages, q) = PagesFrom(q)
      BY PagesAreChains
    <2>8. (\E i \in DOMAIN to_clear[h] : p \in Chain(pages, to_clear[h][i])) => p \in ToBeCleared(h)
      BY <2>7 DEF ToBeCleared
    <2>9. p \in PagesFrom(engine[h]) \cup ToBeCleared(h) \/ p \in PagesFrom(saved[a])
      BY <2>6, <2>7, <2>8
    <2> QED
      BY <2>9 DEF Reached
  <1> QED
    BY <1>1, PagesAlways, PTL
=============================================================================
