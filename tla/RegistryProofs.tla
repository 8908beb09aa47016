--------------------------- MODULE RegistryProofs ---------------------------
(***************************************************************************)
(* Proofs about Registry, for any set of actors and of names.  The forest  *)
(* and its tree numbers depend on each other: an addWorker() is refused if *)
(* the worker carries a number, which is how a worker never gets a second  *)
(* supervisor; and a renumbering reaches exactly the actors it should      *)
(* because every worker has one supervisor.  So LinksAgree and TreeNumbers *)
(* are proved together.                                                    *)
(***************************************************************************)
EXTENDS Registry, TLAPS

(* A supervisor has drawn a tree number.                                   *)
SupervisorsNumbered == \A s \in supervision : sup_tree[s] # -1

Forest ==
    /\ RegistryTypeOK
    /\ LinksAgree
    /\ TreeNumbers
    /\ SupervisorsNumbered

-----------------------------------------------------------------------------
(* The walks of the supervision trees.                                     *)

(* A walk from a visits its workers, and the workers of all it visits.     *)
LEMMA BelowClosed ==
    ASSUME workers \in [Actor -> SUBSET Actor], NEW a \in Actor
    PROVE  /\ Below(a) \subseteq Actor
           /\ workers[a] \subseteq Below(a)
           /\ Closed(Below(a))
  BY DEF Below, Closed

(* It visits nobody else: who is visited is a worker of a or of one that   *)
(* is visited.                                                             *)
LEMMA BelowLeast ==
    ASSUME workers \in [Actor -> SUBSET Actor],
           NEW a \in Actor, NEW d \in Below(a)
    PROVE  \E x \in Subtree(a) : d \in workers[x]
  <1> DEFINE S == workers[a] \cup UNION {workers[x] : x \in Below(a)}
  <1>1. S \subseteq Below(a)
    BY BelowClosed DEF Closed
  <1>2. S \in SUBSET Actor
    BY <1>1, BelowClosed
  <1>3. Closed(S)
    BY <1>1 DEF Closed
  <1>4. d \in S
    BY <1>2, <1>3 DEF Below
  <1> QED
    BY <1>4 DEF Subtree

LEMMA SubtreeClosed ==
    ASSUME workers \in [Actor -> SUBSET Actor], NEW a \in Actor
    PROVE  /\ Subtree(a) \subseteq Actor
           /\ a \in Subtree(a)
           /\ \A x \in Subtree(a) : workers[x] \subseteq Subtree(a)
  BY BelowClosed DEF Subtree, Closed

-----------------------------------------------------------------------------
(* Linking a worker that has no supervisor yet.                            *)
LEMMA AttachTypes ==
    ASSUME RegistryTypeOK, NEW s \in Actor, NEW w \in Actor, Attach(s, w)
    PROVE  /\ supervisor' \in [Actor -> Actor \cup {NoActor}]
           /\ supervision' = supervision
           /\ workers' \in [Actor -> SUBSET Actor]
           /\ global_tree_number' = global_tree_number
           /\ tree_number' \in [Actor -> TreeNumber]
           /\ sup_tree' \in [Actor -> TreeNumber]
  BY DEF RegistryTypeOK, Attach, TreeNumber

LEMMA AttachKeepsForest ==
    ASSUME Forest, NEW s \in supervision, NEW w \in Actor,
           supervisor[w] = NoActor, Attach(s, w),
           by_ref \subseteq by_ref', {s, w} \subseteq by_ref'
    PROVE  (LinksAgree /\ TreeNumbers /\ SupervisorsNumbered)'
  <1> DEFINE n == sup_tree[s]
  <1>1. s \in Actor /\ n # -1
    BY DEF Forest, RegistryTypeOK, SupervisorsNumbered
  <1>2. \A x \in Actor : w \notin workers[x]
    BY ActorAssumption DEF Forest, LinksAgree
  <1>3. /\ workers' = [workers EXCEPT ![s] = @ \cup {w}]
        /\ supervisor' = [supervisor EXCEPT ![w] = s]
        /\ supervision' = supervision
    BY DEF Attach
  <1>4. /\ \A x \in Actor : tree_number'[x] = IF x \in Subtree(w) THEN n ELSE tree_number[x]
        /\ \A x \in supervision : sup_tree'[x] = IF x \in Subtree(w) THEN n ELSE sup_tree[x]
    BY DEF Attach, Renumbered, Forest, RegistryTypeOK
  <1>5. LinksAgree'
    BY <1>1, <1>2, <1>3, ActorAssumption DEF Forest, LinksAgree, RegistryTypeOK
  <1>6. TreeNumbers'
    <2> SUFFICES ASSUME NEW x \in Actor, NEW y \in Actor, y \in workers'[x]
                 PROVE  tree_number'[y] = sup_tree'[x] /\ tree_number'[y] # -1
      BY DEF TreeNumbers
    <2>1. x \in supervision
      BY <1>5, <1>3 DEF LinksAgree
    <2>2. CASE y = w
      <3>1. x = s
        BY <2>2, <1>1, <1>2, <1>3 DEF Forest, RegistryTypeOK
      <3>2. w \in Subtree(w)
        BY DEF Subtree
      <3> QED
        BY <2>2, <2>1, <3>1, <3>2, <1>1, <1>4
    <2>3. CASE y # w
      <3>1. y \in workers[x]
        BY <2>3, <1>1, <1>3 DEF Forest, RegistryTypeOK
      <3>2. x \in Subtree(w) => y \in Subtree(w)
        BY <3>1, <1>1, SubtreeClosed DEF Forest, RegistryTypeOK
      <3>3. ASSUME y \in Subtree(w) PROVE x \in Subtree(w)
        <4>1. y \in Below(w)
          BY <3>3, <2>3 DEF Subtree
        <4>2. PICK z \in Subtree(w) : y \in workers[z]
          BY <4>1, <1>1, BelowLeast DEF Forest, RegistryTypeOK
        <4>3. z \in Actor
          BY <1>1, SubtreeClosed DEF Forest, RegistryTypeOK
        <4> QED
          BY <4>2, <4>3, <3>1 DEF Forest, LinksAgree
      <3>4. tree_number[y] = sup_tree[x] /\ tree_number[y] # -1
        BY <3>1 DEF Forest, TreeNumbers
      <3> QED
        BY <2>1, <3>2, <3>3, <3>4, <1>1, <1>4
    <2> QED
      BY <2>2, <2>3
  <1>7. SupervisorsNumbered'
    BY <1>1, <1>3, <1>4 DEF Forest, SupervisorsNumbered
  <1> QED
    BY <1>5, <1>6, <1>7

-----------------------------------------------------------------------------
(* Every operation keeps the shapes.                                       *)
LEMMA TypesKept == RegistryTypeOK /\ [RegistryNext]_registryVars => RegistryTypeOK'
  <1> SUFFICES ASSUME RegistryTypeOK, [RegistryNext]_registryVars
               PROVE  RegistryTypeOK'
    OBVIOUS
  <1> USE DEF RegistryTypeOK, TreeNumber
  <1>1. ASSUME NEW a \in Actor, NEW s \in Actor \cup {NoActor}, Insert(a, s)
        PROVE  RegistryTypeOK'
    <2>1. CASE Refused(a, s)
      BY <1>1, <2>1 DEF Insert, treeVars
    <2>2. CASE ~Refused(a, s)
      <3>1. /\ created' \subseteq Actor
            /\ by_ref' \subseteq created'
            /\ by_name' \in [Name -> Actor \cup {NoActor}]
            /\ lock' \in LockState
        BY <1>1, <2>2 DEF Insert
      <3>2. CASE s = NoActor
        BY <1>1, <2>2, <3>1, <3>2 DEF Insert, treeVars
      <3>3. CASE s # NoActor
        <4>1. Attach(s, a) /\ s \in Actor
          BY <1>1, <2>2, <3>3 DEF Insert
        <4>2. created \subseteq created'
          BY <1>1 DEF Insert
        <4> QED
          BY <3>1, <4>1, <4>2, AttachTypes
      <3> QED
        BY <3>2, <3>3
    <2> QED
      BY <2>1, <2>2
  <1>2. ASSUME NEW a \in Actor, SupervisorConstruct(a)
        PROVE  RegistryTypeOK'
    BY <1>2 DEF SupervisorConstruct, DrawnTreeNumber
  <1>3. ASSUME NEW s \in Actor, NEW w \in Actor, AddWorker(s, w)
        PROVE  RegistryTypeOK'
    <2>1. CASE UNCHANGED treeVars
      BY <1>3, <2>1 DEF AddWorker, LockState, treeVars, Attach
    <2>2. CASE Attach(s, w)
      BY <1>3, <2>2, AttachTypes DEF AddWorker, LockState, treeVars
    <2> QED
      BY <1>3, <2>1, <2>2 DEF AddWorker
  <1>4. ASSUME NEW a \in Actor, Remove(a)
        PROVE  RegistryTypeOK'
    BY <1>4 DEF Remove
  <1>5. CASE DestroyTables
    BY <1>5 DEF DestroyTables
  <1>6. CASE UNCHANGED registryVars
    BY <1>6 DEF registryVars, treeVars
  <1> QED
    BY <1>1, <1>2, <1>3, <1>4, <1>5, <1>6 DEF RegistryNext

(* Every operation keeps the forest.                                       *)
LEMMA ForestKept == Forest /\ [RegistryNext]_registryVars => Forest'
  <1> SUFFICES ASSUME Forest, [RegistryNext]_registryVars
               PROVE  (LinksAgree /\ TreeNumbers /\ SupervisorsNumbered)'
    BY TypesKept DEF Forest
  <1> DEFINE Kept == LinksAgree /\ TreeNumbers /\ SupervisorsNumbered
  <1>0. RegistryTypeOK /\ Kept
    BY DEF Forest
  <1>1. ASSUME NEW a \in Actor, NEW s \in Actor \cup {NoActor}, Insert(a, s)
        PROVE  Kept'
    <2>1. CASE UNCHANGED treeVars
      <3>1. by_ref \subseteq by_ref'
        BY <1>1 DEF Insert
      <3> QED
        BY <1>0, <2>1, <3>1
        DEF treeVars, LinksAgree, TreeNumbers, SupervisorsNumbered
    <2>2. CASE Attach(s, a) /\ ~Refused(a, s) /\ s # NoActor
      <3>1. /\ s \in supervision
            /\ by_ref' = by_ref \cup {a}
            /\ s \in by_ref
        BY <1>1, <2>2 DEF Insert, Refused
      <3>2. supervisor[a] = NoActor
        BY <1>0, <1>1 DEF Insert, LinksAgree, RegistryTypeOK
      <3> QED
        BY <2>2, <3>1, <3>2, AttachKeepsForest
    <2> QED
      BY <1>1, <2>1, <2>2 DEF Insert
  <1>2. ASSUME NEW a \in Actor, SupervisorConstruct(a)
        PROVE  Kept'
    BY <1>0, <1>2 DEF SupervisorConstruct, DrawnTreeNumber, LinksAgree, TreeNumbers,
       SupervisorsNumbered, RegistryTypeOK
  <1>3. ASSUME NEW s \in Actor, NEW w \in Actor, AddWorker(s, w)
        PROVE  Kept'
    <2>1. by_ref' = by_ref
      BY <1>3 DEF AddWorker
    <2>2. CASE UNCHANGED treeVars
      BY <1>0, <2>1, <2>2 DEF treeVars, LinksAgree, TreeNumbers, SupervisorsNumbered
    <2>3. CASE s \in by_ref /\ CanAdd(s, w) /\ Attach(s, w)
      <3>1. w \in by_ref /\ s \in supervision
        BY <1>3, <2>3 DEF AddWorker, CanAdd
      <3>2. supervisor[w] = NoActor
        BY <1>0, <2>3 DEF CanAdd, LinksAgree, TreeNumbers, RegistryTypeOK
      <3> QED
        BY <2>1, <2>3, <3>1, <3>2, AttachKeepsForest
    <2> QED
      BY <1>3, <2>2, <2>3 DEF AddWorker
  <1>4. ASSUME NEW a \in Actor, Remove(a)
        PROVE  Kept'
    <2> DEFINE gone == Gone(a)
    <2>1. \A x \in gone : workers[x] \subseteq gone
      BY <1>0, SubtreeClosed DEF Gone, RegistryTypeOK
    <2>2. /\ by_ref' = by_ref \ gone
          /\ supervision' = supervision
          /\ supervisor' = [x \in Actor |-> IF x \in gone THEN NoActor ELSE supervisor[x]]
          /\ workers' = [x \in Actor |-> IF x \in gone THEN {} ELSE workers[x] \ gone]
          /\ UNCHANGED <<tree_number, sup_tree>>
      BY <1>4 DEF Remove
    <2> HIDE DEF gone
    <2>3. LinksAgree'
      BY <1>0, <2>1, <2>2, ActorAssumption DEF LinksAgree
    <2>4. TreeNumbers' /\ SupervisorsNumbered'
      BY <1>0, <2>2 DEF TreeNumbers, SupervisorsNumbered
    <2> QED
      BY <2>3, <2>4
  <1>5. CASE DestroyTables
    <2>1. LinksAgree'
      BY <1>0, <1>5, ActorAssumption DEF DestroyTables, LinksAgree
    <2>2. TreeNumbers' /\ SupervisorsNumbered'
      BY <1>0, <1>5 DEF DestroyTables, TreeNumbers, SupervisorsNumbered
    <2> QED
      BY <2>1, <2>2
  <1>6. CASE UNCHANGED registryVars
    BY <1>0, <1>6 DEF registryVars, treeVars, LinksAgree, TreeNumbers, SupervisorsNumbered
  <1> QED
    BY <1>1, <1>2, <1>3, <1>4, <1>5, <1>6 DEF RegistryNext

LEMMA ForestInit == RegistryInit => Forest
  <1> SUFFICES ASSUME RegistryInit PROVE Forest
    OBVIOUS
  <1>1. RegistryTypeOK
    BY DEF RegistryInit, RegistryTypeOK, LockState, TreeNumber
  <1>2. LinksAgree
    BY ActorAssumption DEF RegistryInit, LinksAgree
  <1>3. TreeNumbers /\ SupervisorsNumbered
    BY DEF RegistryInit, TreeNumbers, SupervisorsNumbered
  <1> QED
    BY <1>1, <1>2, <1>3 DEF Forest

LEMMA ForestAlways == RegistrySpec => []Forest
  BY ForestInit, ForestKept, PTL DEF RegistrySpec

(* Type correctness of the tables and the trees.                           *)
THEOREM RegistryTypeCorrect == RegistrySpec => []RegistryTypeOK
  <1>1. Forest => RegistryTypeOK
    BY DEF Forest
  <1> QED
    BY <1>1, ForestAlways, PTL

(* The supervisor pointers and the worker tables describe one forest of    *)
(* registered actors, for any number of actors and any order of creations, *)
(* additions, refusals and removals.                                       *)
THEOREM LinksAlwaysAgree == RegistrySpec => []LinksAgree
  <1>1. Forest => LinksAgree
    BY DEF Forest
  <1> QED
    BY <1>1, ForestAlways, PTL

(* Renumbering a subtree leaves every worker with its supervisor's number. *)
THEOREM TreeNumbersAlwaysHold == RegistrySpec => []TreeNumbers
  <1>1. Forest => TreeNumbers
    BY DEF Forest
  <1> QED
    BY <1>1, ForestAlways, PTL

-----------------------------------------------------------------------------
LEMMA NamesKept ==
    ASSUME RegistryTypeOK, NamesPointHome, [RegistryNext]_registryVars
    PROVE  NamesPointHome'
  <1> USE DEF NamesPointHome
  <1>1. ASSUME NEW a \in Actor, NEW s \in Actor \cup {NoActor}, Insert(a, s)
        PROVE  NamesPointHome'
    BY <1>1 DEF Insert, RegistryTypeOK
  <1>2. ASSUME NEW a \in Actor, SupervisorConstruct(a)
        PROVE  NamesPointHome'
    BY <1>2 DEF SupervisorConstruct
  <1>3. ASSUME NEW s \in Actor, NEW w \in Actor, AddWorker(s, w)
        PROVE  NamesPointHome'
    BY <1>3 DEF AddWorker
  <1>4. ASSUME NEW a \in Actor, Remove(a)
        PROVE  NamesPointHome'
    <2> SUFFICES ASSUME NEW n \in Name, by_name'[n] # NoActor
                 PROVE  by_name'[n] \in by_ref' /\ NameOf[by_name'[n]] = n
      OBVIOUS
    <2>1. n \notin Forgotten(a) /\ by_name'[n] = by_name[n]
      BY <1>4 DEF Remove
    <2>2. by_name[n] \in by_ref /\ NameOf[by_name[n]] = n
      BY <2>1
    <2>3. by_name[n] \notin Gone(a)
      BY <2>1, <2>2 DEF Forgotten
    <2> QED
      BY <1>4, <2>1, <2>2, <2>3 DEF Remove
  <1>5. CASE DestroyTables
    BY <1>5 DEF DestroyTables
  <1>6. CASE UNCHANGED registryVars
    BY <1>6 DEF registryVars
  <1> QED
    BY <1>1, <1>2, <1>3, <1>4, <1>5, <1>6 DEF RegistryNext

(* What send() and addWorker() find under a name is a registered actor     *)
(* that was created with this name, although a removal deletes names       *)
(* without looking at who holds them.                                      *)
THEOREM NamesAlwaysPointHome == RegistrySpec => []NamesPointHome
  <1>1. RegistryInit => NamesPointHome
    BY DEF RegistryInit, NamesPointHome
  <1>2. RegistryTypeOK /\ NamesPointHome /\ [RegistryNext]_registryVars => NamesPointHome'
    BY NamesKept
  <1> QED
    BY <1>1, <1>2, RegistryTypeCorrect, PTL DEF RegistrySpec

-----------------------------------------------------------------------------
LEMMA AttachStealsNobody ==
    ASSUME Forest, NEW s \in Actor, NEW v \in Actor, supervisor[v] = NoActor,
           Attach(s, v), NEW w \in Actor, supervisor[w] # NoActor
    PROVE  supervisor'[w] = supervisor[w]
  BY DEF Attach, Forest, RegistryTypeOK

(* No second addWorker() takes a worker from its supervisor: an actor that *)
(* loses its supervisor is out of the table.                               *)
THEOREM SupervisorAlwaysKept == RegistrySpec => SupervisorKept
  <1> DEFINE Kept == \A w \in Actor :
                        supervisor[w] # NoActor =>
                            supervisor'[w] = supervisor[w] \/ w \notin by_ref'
  <1>1. Forest /\ [RegistryNext]_registryVars => [Kept]_registryVars
    <2> SUFFICES ASSUME Forest, RegistryNext PROVE Kept
      OBVIOUS
    <2>0. RegistryTypeOK /\ LinksAgree /\ TreeNumbers
      BY DEF Forest
    <2>1. ASSUME NEW a \in Actor, NEW s \in Actor \cup {NoActor}, Insert(a, s)
          PROVE  Kept
      <3>1. supervisor[a] = NoActor
        BY <2>0, <2>1 DEF Insert, LinksAgree, RegistryTypeOK
      <3>2. CASE UNCHANGED treeVars
        BY <3>2 DEF treeVars
      <3>3. CASE Attach(s, a) /\ s # NoActor
        BY <2>1, <3>1, <3>3, AttachStealsNobody
      <3> QED
        BY <2>1, <3>2, <3>3 DEF Insert
    <2>2. ASSUME NEW a \in Actor, SupervisorConstruct(a)
          PROVE  Kept
      BY <2>2 DEF SupervisorConstruct
    <2>3. ASSUME NEW s \in Actor, NEW v \in Actor, AddWorker(s, v)
          PROVE  Kept
      <3>1. CASE UNCHANGED treeVars
        BY <3>1 DEF treeVars
      <3>2. CASE CanAdd(s, v) /\ Attach(s, v)
        <4>1. supervisor[v] = NoActor
          BY <2>0, <3>2 DEF CanAdd, LinksAgree, TreeNumbers, RegistryTypeOK
        <4> QED
          BY <3>2, <4>1, AttachStealsNobody
      <3> QED
        BY <2>3, <3>1, <3>2 DEF AddWorker
    <2>4. ASSUME NEW a \in Actor, Remove(a)
          PROVE  Kept
      BY <2>4 DEF Remove
    <2>5. CASE DestroyTables
      BY <2>5 DEF DestroyTables
    <2> QED
      BY <2>1, <2>2, <2>3, <2>4, <2>5 DEF RegistryNext
  <1> QED
    BY <1>1, ForestAlways, PTL DEF RegistrySpec, SupervisorKept

-----------------------------------------------------------------------------
(* The cycle check.  It compares tree numbers, which are left behind by    *)
(* renumberings and by trees that come apart, so what has to be shown is   *)
(* that two registered actors with a number in common, stale or not, are   *)
(* always in one tree.                                                     *)
Numbers(x) == {tree_number[x], sup_tree[x]} \ {-1}
Related(x, y) == \E r \in Actor : {x, y} \subseteq Subtree(r)
SharedWithinTrees ==
    \A x, y \in by_ref : Numbers(x) \cap Numbers(y) # {} => Related(x, y)

(* Nobody has a number before it is created, or leads a tree before it is  *)
(* made a supervisor.                                                      *)
Unnumbered ==
    /\ \A a \in Actor \ created : tree_number[a] = -1
    /\ \A a \in Actor \ supervision : sup_tree[a] = -1

LEMMA BelowContained ==
    ASSUME NEW a \in Actor, NEW S \in SUBSET Actor, workers[a] \subseteq S, Closed(S)
    PROVE  Below(a) \subseteq S
  BY DEF Below

LEMMA SubtreeTransitive ==
    ASSUME workers \in [Actor -> SUBSET Actor], NEW a \in Actor, NEW b \in Subtree(a)
    PROVE  Subtree(b) \subseteq Subtree(a)
  <1>1. CASE b = a
    BY <1>1
  <1>2. CASE b \in Below(a)
    <2>1. b \in Actor /\ workers[b] \subseteq Below(a)
      BY <1>2, BelowClosed DEF Closed
    <2>2. Below(b) \subseteq Below(a)
      BY <2>1, BelowClosed, BelowContained
    <2> QED
      BY <1>2, <2>2 DEF Subtree
  <1> QED
    BY <1>1, <1>2 DEF Subtree

(* The same of the links after a step.                                     *)
LinkTypes == workers \in [Actor -> SUBSET Actor]
WalksClosed ==
    LinkTypes => \A a \in Actor :
        /\ Below(a) \subseteq Actor
        /\ workers[a] \subseteq Below(a)
        /\ \A x \in Below(a) : workers[x] \subseteq Below(a)
        /\ \A b \in Subtree(a) : Subtree(b) \subseteq Subtree(a)

LEMMA WalksClosedNext == WalksClosed'
  <1>1. WalksClosed
    BY BelowClosed, SubtreeTransitive DEF WalksClosed, LinkTypes, Closed
  <1> QED
    BY <1>1, PTL

(* Links are added: a subtree only grows.                                  *)
LEMMA SubtreeGrows ==
    ASSUME workers \in [Actor -> SUBSET Actor], workers' \in [Actor -> SUBSET Actor],
           \A x \in Actor : workers[x] \subseteq workers'[x],
           NEW a \in Actor
    PROVE  Subtree(a) \subseteq Subtree(a)'
  <1> DEFINE S == Below(a)'
  <1>1. /\ S \subseteq Actor
        /\ workers'[a] \subseteq S
        /\ \A x \in S : workers'[x] \subseteq S
    BY WalksClosedNext DEF WalksClosed, LinkTypes
  <1> HIDE DEF S
  <1>2. workers[a] \subseteq S /\ Closed(S)
    BY <1>1 DEF Closed
  <1>3. Below(a) \subseteq S
    BY <1>1, <1>2, BelowContained
  <1> QED
    BY <1>3 DEF Subtree, S

(* A set that is closed under links is removed: the others keep theirs.    *)
LEMMA SubtreeWithout ==
    ASSUME workers \in [Actor -> SUBSET Actor], NEW gone \in SUBSET Actor, Closed(gone),
           workers' = [x \in Actor |-> IF x \in gone THEN {} ELSE workers[x] \ gone],
           NEW a \in Actor \ gone
    PROVE  Subtree(a) \ gone \subseteq Subtree(a)'
  <1> DEFINE S == Below(a)'
             T == S \cup gone
  <1>0. workers' \in [Actor -> SUBSET Actor]
    OBVIOUS
  <1>1. /\ S \subseteq Actor
        /\ workers'[a] \subseteq S
        /\ \A x \in S : workers'[x] \subseteq S
    BY <1>0, WalksClosedNext DEF WalksClosed, LinkTypes
  <1> HIDE DEF S
  <1>2. T \in SUBSET Actor /\ workers[a] \subseteq T
    BY <1>1
  <1>3. Closed(T)
    BY <1>1 DEF Closed
  <1>4. Below(a) \subseteq T
    BY <1>2, <1>3, BelowContained
  <1> QED
    BY <1>4 DEF Subtree, S

(* Whoever is below an actor and below a root has the actor below the root.*)
LEMMA BelowRoot ==
    ASSUME RegistryTypeOK, LinksAgree, NEW w \in Actor, \A x \in Actor : w \notin workers[x],
           NEW r \in Actor, NEW d \in Subtree(r), d \in Subtree(w)
    PROVE  r \in Subtree(w)
  <1> DEFINE S == {x \in Below(r) : x \in Subtree(w) => r \in Subtree(w)}
  <1>0. workers \in [Actor -> SUBSET Actor]
    BY DEF RegistryTypeOK
  <1>1. ASSUME NEW x \in Subtree(r), x \in Subtree(w) => r \in Subtree(w),
               NEW y \in workers[x], y \in Subtree(w)
        PROVE  r \in Subtree(w)
    <2>1. x \in Actor /\ y \in Actor
      BY <1>0, SubtreeClosed
    <2>2. y \in Below(w)
      BY <1>1, <2>1 DEF Subtree
    <2>3. PICK z \in Subtree(w) : y \in workers[z]
      BY <1>0, <2>2, BelowLeast
    <2>4. z = x
      BY <1>0, <2>1, <2>3, SubtreeClosed DEF LinksAgree
    <2> QED
      BY <1>1, <2>3, <2>4
  <1>2. S \in SUBSET Actor /\ workers[r] \subseteq S
    BY <1>0, <1>1, BelowClosed DEF Subtree
  <1>3. Closed(S)
    BY <1>0, <1>1, BelowClosed DEF Closed, Subtree
  <1>4. Below(r) \subseteq S
    BY <1>2, <1>3, BelowContained
  <1> QED
    BY <1>4 DEF Subtree

-----------------------------------------------------------------------------
(* Linking w below s puts the number of s on all that is below w, and all  *)
(* that has it in one tree.                                                *)
LEMMA AttachKeepsShared ==
    ASSUME Forest, SharedWithinTrees, Unnumbered,
           NEW s \in supervision \cap by_ref, NEW w \in Actor, Attach(s, w),
           by_ref' \subseteq by_ref \cup {w}
    PROVE  SharedWithinTrees'
  <1> DEFINE n == sup_tree[s]
             In(x) == x \in Subtree(w)
  <1>1. /\ workers \in [Actor -> SUBSET Actor] /\ s \in Actor
        /\ by_ref' \subseteq Actor
        /\ n \in Numbers(s)
    BY DEF Forest, RegistryTypeOK, SupervisorsNumbered, Numbers
  <1>2. /\ workers' = [workers EXCEPT ![s] = @ \cup {w}]
        /\ workers' \in [Actor -> SUBSET Actor]
        /\ \A x \in Actor : workers[x] \subseteq workers'[x]
    BY <1>1 DEF Attach
  <1>3. \A x \in Actor : Numbers(x)' \subseteq IF In(x) THEN {n} ELSE Numbers(x)
    BY DEF Attach, Renumbered, Numbers, Unnumbered
  <1>4. \A x, y \in Actor : Related(x, y) => Related(x, y)'
    BY <1>1, <1>2, SubtreeGrows DEF Related
  <1>5. w \in by_ref \/ In(w)
    BY DEF Subtree
  <1>6. ASSUME NEW x \in Actor, In(x), NEW y \in by_ref, n \in Numbers(y)
        PROVE  Related(x, y)' /\ Related(y, x)'
    <2>1. PICK r \in Actor : {s, y} \subseteq Subtree(r)
      BY <1>1, <1>6 DEF SharedWithinTrees, Related
    <2>2. {s, y} \subseteq Subtree(r)' /\ x \in Subtree(w)'
      BY <1>1, <1>2, <1>6, <2>1, SubtreeGrows
    <2>3. w \in workers'[s]
      BY <1>1, <1>2
    <2>4. w \in Subtree(r)'
      <3>1. r \in Actor /\ workers'[r] \subseteq Below(r)'
        BY <1>2, WalksClosedNext DEF WalksClosed, LinkTypes
      <3>2. s \in Below(r)' => workers'[s] \subseteq Below(r)'
        BY <1>2, WalksClosedNext DEF WalksClosed, LinkTypes
      <3> QED
        BY <2>2, <2>3, <3>1, <3>2 DEF Subtree
    <2>5. Subtree(w)' \subseteq Subtree(r)'
      BY <1>2, <2>4, WalksClosedNext DEF WalksClosed, LinkTypes
    <2> QED
      BY <2>2, <2>5 DEF Related
  <1>7. ASSUME NEW x \in Actor, NEW y \in Actor, In(x), In(y)
        PROVE  Related(x, y)'
    <2>1. {x, y} \subseteq Subtree(w)'
      BY <1>1, <1>2, <1>7, SubtreeGrows
    <2> QED
      BY <2>1 DEF Related
  <1> SUFFICES ASSUME NEW x \in by_ref', NEW y \in by_ref', Numbers(x)' \cap Numbers(y)' # {}
               PROVE  Related(x, y)'
    BY DEF SharedWithinTrees
  <1>8. x \in Actor /\ y \in Actor
    BY <1>1
  <1>9. CASE In(x) /\ In(y)
    BY <1>7, <1>8, <1>9
  <1>10. CASE In(x) /\ ~In(y)
    BY <1>3, <1>5, <1>6, <1>8, <1>10
  <1>11. CASE ~In(x) /\ In(y)
    BY <1>3, <1>5, <1>6, <1>8, <1>11
  <1>12. CASE ~In(x) /\ ~In(y)
    BY <1>3, <1>4, <1>5, <1>8, <1>12 DEF SharedWithinTrees
  <1> QED
    BY <1>9, <1>10, <1>11, <1>12

LEMMA GoneClosed ==
    ASSUME RegistryTypeOK, NEW a \in Actor
    PROVE  Gone(a) \in SUBSET Actor /\ Closed(Gone(a))
  BY SubtreeClosed DEF Gone, Closed, RegistryTypeOK

(* A removal takes whole subtrees: what is left of a tree is one tree.     *)
LEMMA RemoveKeepsShared ==
    ASSUME Forest, SharedWithinTrees, NEW a \in Actor, Remove(a)
    PROVE  SharedWithinTrees'
  <1> DEFINE gone == Gone(a)
  <1>1. /\ workers \in [Actor -> SUBSET Actor] /\ by_ref \subseteq Actor
        /\ gone \in SUBSET Actor /\ Closed(gone)
    BY GoneClosed DEF Forest, RegistryTypeOK
  <1>2. /\ by_ref' = by_ref \ gone
        /\ workers' = [x \in Actor |-> IF x \in gone THEN {} ELSE workers[x] \ gone]
        /\ UNCHANGED <<tree_number, sup_tree>>
    BY DEF Remove
  <1> HIDE DEF gone
  <1> SUFFICES ASSUME NEW x \in by_ref', NEW y \in by_ref', Numbers(x)' \cap Numbers(y)' # {}
               PROVE  Related(x, y)'
    BY DEF SharedWithinTrees
  <1>3. PICK r \in Actor : {x, y} \subseteq Subtree(r)
    BY <1>2 DEF SharedWithinTrees, Related, Numbers
  <1>4. r \notin gone
    <2>1. r \in gone => Below(r) \subseteq gone
      BY <1>1, BelowContained DEF Closed
    <2> QED
      BY <1>2, <1>3, <2>1 DEF Subtree
  <1>5. Subtree(r) \ gone \subseteq Subtree(r)'
    BY <1>1, <1>2, <1>4, SubtreeWithout
  <1> QED
    BY <1>2, <1>3, <1>5 DEF Related

(* Every operation keeps numbers within trees, a new number being unused.  *)
LEMMA SharedKept ==
    ASSUME Forest, SharedWithinTrees, Unnumbered, [RegistryNext]_registryVars
    PROVE  SharedWithinTrees' /\ Unnumbered'
  <1>0. RegistryTypeOK /\ LinksAgree
    BY DEF Forest
  <1>1. ASSUME NEW a \in Actor, NEW s \in Actor \cup {NoActor}, Insert(a, s)
        PROVE  SharedWithinTrees' /\ Unnumbered'
    <2>1. CASE UNCHANGED treeVars
      <3>1. /\ Numbers(a) = {} /\ by_ref' \subseteq by_ref \cup {a}
            /\ created' = created \cup {a}
        BY <1>0, <1>1 DEF Insert, Numbers, Unnumbered, RegistryTypeOK
      <3>2. UNCHANGED <<workers, tree_number, sup_tree, supervision>>
        BY <2>1 DEF treeVars
      <3>3. \A x \in Actor : Numbers(x)' = Numbers(x) /\ Subtree(x)' = Subtree(x)
        BY <3>2 DEF Numbers, Subtree, Below, Closed
      <3>4. by_ref \subseteq Actor
        BY <1>0 DEF RegistryTypeOK
      <3> QED
        BY <3>1, <3>2, <3>3, <3>4 DEF SharedWithinTrees, Related, Unnumbered
    <2>2. CASE Attach(s, a) /\ ~Refused(a, s) /\ s # NoActor
      <3>1. /\ s \in supervision \cap by_ref
            /\ by_ref' = by_ref \cup {a}
            /\ created' = created \cup {a}
        BY <1>1, <2>2 DEF Insert, Refused
      <3>2. Below(a) = {}
        <4>1. workers[a] = {} /\ a \notin created
          BY <1>0, <1>1 DEF Insert, LinksAgree, RegistryTypeOK
        <4>2. Closed({})
          BY DEF Closed
        <4> QED
          BY <4>1, <4>2, BelowContained
      <3>3. Unnumbered'
        BY <2>2, <3>1, <3>2 DEF Attach, Renumbered, Subtree, Unnumbered
      <3> QED
        BY <2>2, <3>1, <3>3, AttachKeepsShared
    <2> QED
      BY <1>1, <2>1, <2>2 DEF Insert
  <1>2. ASSUME NEW a \in Actor, SupervisorConstruct(a)
        PROVE  SharedWithinTrees' /\ Unnumbered'
    <2> DEFINE n == global_tree_number
    <2>1. /\ a \in by_ref /\ by_ref' = by_ref /\ created' = created
          /\ supervision' = supervision \cup {a}
          /\ UNCHANGED <<workers, tree_number>>
          /\ sup_tree' = [sup_tree EXCEPT ![a] = n]
          /\ by_ref \subseteq Actor /\ n \in Nat
      BY <1>0, <1>2 DEF SupervisorConstruct, DrawnTreeNumber, RegistryTypeOK
    <2>2. \A x \in Actor : n \notin Numbers(x)
      BY <1>0 DEF RegistryTypeOK, TreeNumber, Numbers
    <2>3. \A x \in Actor : Numbers(x)' \subseteq Numbers(x) \cup (IF x = a THEN {n} ELSE {})
      BY <1>0, <2>1 DEF Numbers, RegistryTypeOK
    <2>4. \A x \in Actor : Subtree(x)' = Subtree(x) /\ x \in Subtree(x)
      BY <2>1 DEF Subtree, Below, Closed
    <2>5. SharedWithinTrees'
      <3> SUFFICES ASSUME NEW x \in by_ref, NEW y \in by_ref,
                          Numbers(x)' \cap Numbers(y)' # {}
                   PROVE  Related(x, y)'
        BY <2>1 DEF SharedWithinTrees
      <3>1. CASE x = y
        BY <2>1, <2>4, <3>1 DEF Related
      <3>2. CASE x # y
        BY <2>1, <2>2, <2>3, <2>4, <3>2 DEF SharedWithinTrees, Related
      <3> QED
        BY <3>1, <3>2
    <2>6. Unnumbered'
      BY <2>1 DEF Unnumbered
    <2> QED
      BY <2>5, <2>6
  <1>3. ASSUME NEW s \in Actor, NEW w \in Actor, AddWorker(s, w)
        PROVE  SharedWithinTrees' /\ Unnumbered'
    <2>1. UNCHANGED <<created, by_ref>>
      BY <1>3 DEF AddWorker
    <2>2. CASE UNCHANGED treeVars
      BY <2>1, <2>2 DEF treeVars, SharedWithinTrees, Unnumbered, Related, Numbers, Subtree,
         Below, Closed
    <2>3. CASE s \in by_ref /\ CanAdd(s, w) /\ Attach(s, w)
      <3>1. s \in supervision \cap by_ref /\ w \in by_ref
        BY <1>3, <2>3 DEF AddWorker, CanAdd
      <3>2. Subtree(w) \subseteq created
        <4> SUFFICES ASSUME NEW d \in Below(w) PROVE d \in created
          BY <1>0, <3>1 DEF Subtree, RegistryTypeOK
        <4>1. PICK z \in Subtree(w) : d \in workers[z]
          BY <1>0, BelowLeast DEF RegistryTypeOK
        <4> QED
          BY <1>0, <4>1, SubtreeClosed DEF LinksAgree, RegistryTypeOK
      <3>3. Unnumbered'
        BY <2>1, <2>3, <3>2 DEF Attach, Renumbered, Unnumbered
      <3> QED
        BY <2>1, <2>3, <3>1, <3>3, AttachKeepsShared
    <2> QED
      BY <1>3, <2>2, <2>3 DEF AddWorker
  <1>4. ASSUME NEW a \in Actor, Remove(a)
        PROVE  SharedWithinTrees' /\ Unnumbered'
    <2>1. Unnumbered'
      BY <1>4 DEF Remove, Unnumbered
    <2> QED
      BY <1>4, <2>1, RemoveKeepsShared
  <1>5. CASE DestroyTables
    BY <1>5 DEF DestroyTables, SharedWithinTrees, Unnumbered
  <1>6. CASE UNCHANGED registryVars
    BY <1>6 DEF registryVars, treeVars, SharedWithinTrees, Unnumbered, Related, Numbers,
       Subtree, Below, Closed
  <1> QED
    BY <1>1, <1>2, <1>3, <1>4, <1>5, <1>6 DEF RegistryNext

LEMMA SharedRaisesNoAlarm ==
    ASSUME Forest, SharedWithinTrees
    PROVE  NoFalseAlarm
  <1>0. RegistryTypeOK /\ LinksAgree /\ TreeNumbers /\ SupervisorsNumbered
    BY DEF Forest
  <1> SUFFICES ASSUME NEW s \in by_ref \cap supervision, NEW w \in by_ref,
                      tree_number[w] = -1, CycleDetected(s, w)
               PROVE  s \in Subtree(w)
    BY DEF NoFalseAlarm
  <1>1. s \in Actor /\ w \in Actor /\ workers \in [Actor -> SUBSET Actor]
    BY <1>0 DEF RegistryTypeOK
  <1>2. \A x \in Actor : w \notin workers[x]
    BY <1>0, <1>1 DEF TreeNumbers
  <1>3. PICK d \in Below(w) : tree_number[d] = sup_tree[s]
    BY DEF CycleDetected
  <1>4. d \in Subtree(w) /\ d \in by_ref
    <2>1. PICK z \in Subtree(w) : d \in workers[z]
      BY <1>1, BelowLeast
    <2> QED
      BY <1>0, <1>1, <2>1, SubtreeClosed DEF LinksAgree, Subtree
  <1>5. sup_tree[s] \in Numbers(s) \cap Numbers(d)
    BY <1>0, <1>3 DEF Numbers, SupervisorsNumbered
  <1>6. PICK r \in Actor : {s, d} \subseteq Subtree(r)
    BY <1>4, <1>5 DEF SharedWithinTrees, Related
  <1>7. r \in Subtree(w)
    BY <1>0, <1>1, <1>2, <1>4, <1>6, BelowRoot
  <1> QED
    BY <1>1, <1>6, <1>7, SubtreeTransitive

(* addWorker() never reports a cycle that is not there, for any number of  *)
(* trees and any history of links, renumberings and removals.              *)
THEOREM NeverAFalseAlarm == RegistrySpec => []NoFalseAlarm
  <1>1. RegistryInit => SharedWithinTrees /\ Unnumbered
    BY DEF RegistryInit, SharedWithinTrees, Unnumbered
  <1>2. Forest /\ SharedWithinTrees /\ Unnumbered /\ [RegistryNext]_registryVars
        => (SharedWithinTrees /\ Unnumbered)'
    BY SharedKept
  <1>3. RegistrySpec => [](SharedWithinTrees /\ Unnumbered)
    BY <1>1, <1>2, ForestAlways, PTL DEF RegistrySpec
  <1>4. Forest /\ SharedWithinTrees => NoFalseAlarm
    BY SharedRaisesNoAlarm
  <1> QED
    BY <1>3, <1>4, ForestAlways, PTL
=============================================================================
