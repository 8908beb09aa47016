------------------------------ MODULE Startup ------------------------------
(***************************************************************************)
(* ActorSystem::__construct: the main thread creates the workers and spins *)
(* until each has copied the main thread's files, functions, classes,      *)
(* constants and settings.  The tables are read without a lock: only the   *)
(* spinning keeps PHP code from changing them meanwhile.                   *)
(***************************************************************************)
EXTENDS Copying, FiniteSets

CONSTANTS
    ThreadCount,
    Symbol,         \* what the tables besides the class table contain
    Early,          \* what they contain when the system is created
    Orders,         \* the class tables there may be then: the same classes in any order
    NoThread

Worker == 0 .. ThreadCount - 1

(* The settings in question are those the script has changed.              *)
Table == {"included_files", "function_table", "zend_constants", "ini_directives"}

ASSUME ThreadAssumption == ThreadCount \in Nat \ {0} /\ NoThread \notin Nat
ASSUME OrderAssumption ==
    \A o, p \in Orders :
        /\ o \in Seq(Class)
        /\ {o[i] : i \in 1 .. Len(o)} = {p[i] : i \in 1 .. Len(p)}
ASSUME SymbolAssumption == Early \in [Table -> SUBSET Symbol]

VARIABLES
    main,           \* what the main thread does
    created,        \* how many workers it has created
    classes,        \* its class table, in order
    symbols,        \* its other tables
    at,             \* what each worker does next
    entry,          \* the next entry of classes in the loop of copy_ces
    stack,          \* the classes it is making, the outermost first
    copies, table,  \* the classes it has made, in order, and its class table
    own,            \* its other tables
    lock,           \* who holds actor_system->lock
    seen,           \* what ++ has read of
    prepared        \* actor_system->prepared_thread_count

NotThere == 0      \* in a class table

mainVars == <<main, created, classes, symbols>>
workerVars == <<entry, stack, copies, table, own>>
countVars == <<lock, seen, prepared>>
vars == <<mainVars, at, workerVars, countVars>>

(* The steps of worker_function up to its loop, and of                     *)
(* copy_executor_globals in it.                                            *)
PreparedFirst ==
    <<"lock", "read", "write", "included_files", "function_table", "class_table",
      "zend_constants", "ini_directives", "loop">>
Steps ==
    <<"included_files", "function_table", "class_table", "zend_constants", "ini_directives",
      "lock", "read", "write", "loop">>
GoesOn(w) ==
    at' = [at EXCEPT ![w] = Steps[1 + CHOOSE i \in DOMAIN Steps : Steps[i] = at[w]]]

Init ==
    /\ main = "spawn" /\ created = 0
    /\ classes \in Orders
    /\ symbols = Early
    /\ at = [w \in Worker |-> "none"]
    /\ entry = [w \in Worker |-> 1]
    /\ stack = [w \in Worker |-> <<>>]
    /\ copies = [w \in Worker |-> <<>>]
    /\ table = [w \in Worker |-> [c \in Class |-> NotThere]]
    /\ own = [w \in Worker |-> [t \in Table |-> {}]]
    /\ lock = NoThread
    /\ seen = [w \in Worker |-> 0]
    /\ prepared = 0

-----------------------------------------------------------------------------
(* The main thread: initialise_actor_system, and then the script, which    *)
(* includes files and declares what it likes.                              *)
Spawn ==
    /\ main = "spawn"
    /\ at' = [at EXCEPT ![created] = Steps[1]]
    /\ created' = created + 1
    /\ main' = IF created' = ThreadCount THEN "spin" ELSE "spawn"
    /\ UNCHANGED <<classes, symbols, workerVars, countVars>>

OnePrepared == prepared > 0
AllPrepared == prepared = ThreadCount

StopSpinning ==
    /\ main = "spin"
    /\ AllPrepared
    /\ main' = "script"
    /\ UNCHANGED <<created, classes, symbols, at, workerVars, countVars>>

Declared == {classes[i] : i \in 1 .. Len(classes)}

DeclareClass(c) ==
    /\ main = "script"
    /\ c \notin Declared
    /\ classes' = Append(classes, c)
    /\ UNCHANGED <<main, created, symbols, at, workerVars, countVars>>

DeclareSymbol(t, s) ==
    /\ main = "script"
    /\ s \notin symbols[t]
    /\ symbols' = [symbols EXCEPT ![t] = @ \cup {s}]
    /\ UNCHANGED <<main, created, classes, at, workerVars, countVars>>

-----------------------------------------------------------------------------
(* A worker.                                                               *)
CopyTable(w) ==
    /\ at[w] \in Table
    /\ own' = [own EXCEPT ![w][at[w]] = @ \cup symbols[at[w]]]
    /\ GoesOn(w)
    /\ UNCHANGED <<mainVars, entry, stack, copies, table, countVars>>

(* copy_ce: the class that stands for c in a thread whose class table is   *)
(* t, which gives the place of a class among the copies.  It has to be     *)
(* made if there is none; an anonymous class is never.                     *)
Keeps(c) == FALSE
Skipped(c) == c \in Anonymous
NotFound(t, c) == NotThere
Found(t, c) == t[c]

Absent(t, c) == c \in Class /\ ~Skipped(c) /\ Found(t, c) = NotThere
CopyOf(t, c) ==
    IF c \notin Class THEN c ELSE IF Skipped(c) THEN NoClass ELSE Found(t, c)

(* It is called by copy_ces for the next class of the table, and by        *)
(* create_new_ce for the next link of the class that is being made.  What  *)
(* it returns is entered into the class table or becomes that link.        *)
Making(w) == stack[w][Len(stack[w])]
Looks(w) ==
    /\ at[w] = "class_table"
    /\ IF stack[w] = <<>> THEN entry[w] <= Len(classes)
       ELSE Len(Making(w).links) < Len(Links[Making(w).class])
LookedFor(w) ==
    IF stack[w] = <<>> THEN classes[entry[w]]
    ELSE Links[Making(w).class][Len(Making(w).links) + 1]

Returns(w, callers, ce) ==
    IF callers = <<>>
    THEN /\ entry' = [entry EXCEPT ![w] = @ + 1]
         /\ stack' = [stack EXCEPT ![w] = <<>>]
         /\ table' = IF ce = NoClass THEN table ELSE [table EXCEPT ![w][classes[entry[w]]] = ce]
    ELSE /\ stack' = [stack EXCEPT ![w] = [callers EXCEPT ![Len(callers)].links = Append(@, ce)]]
         /\ UNCHANGED <<entry, table>>

FindClass(w) ==
    /\ Looks(w)
    /\ ~Absent(table[w], LookedFor(w))
    /\ Returns(w, stack[w], CopyOf(table[w], LookedFor(w)))
    /\ UNCHANGED <<mainVars, at, copies, own, countVars>>

(* create_new_ce.  A class made for another one is not entered into the    *)
(* class table.                                                            *)
MakeClass(w) ==
    /\ Looks(w)
    /\ Absent(table[w], LookedFor(w))
    /\ stack' = [stack EXCEPT ![w] = Append(@, [class |-> LookedFor(w), links |-> <<>>])]
    /\ UNCHANGED <<mainVars, at, entry, copies, table, own, countVars>>

FinishClass(w) ==
    LET new == Making(w)
        callers == SubSeq(stack[w], 1, Len(stack[w]) - 1)
    IN
    /\ at[w] = "class_table" /\ stack[w] # <<>>
    /\ Len(new.links) = Len(Links[new.class])
    /\ copies' = [copies EXCEPT ![w] =
            Append(@, [class |-> new.class, links |-> new.links, data |-> ClassData(new.class)])]
    /\ Returns(w, callers, Len(copies[w]) + 1)
    /\ UNCHANGED <<mainVars, at, own, countVars>>

ClassesCopied(w) ==
    /\ at[w] = "class_table"
    /\ stack[w] = <<>> /\ entry[w] > Len(classes)
    /\ GoesOn(w)
    /\ UNCHANGED <<mainVars, workerVars, countVars>>

(* ++prepared_thread_count reads and writes.                               *)
Unguarded == TRUE
LockFree == lock = NoThread

LockCount(w) ==
    /\ at[w] = "lock"
    /\ LockFree
    /\ lock' = w
    /\ GoesOn(w)
    /\ UNCHANGED <<mainVars, workerVars, seen, prepared>>

ReadCount(w) ==
    /\ at[w] = "read"
    /\ seen' = [seen EXCEPT ![w] = prepared]
    /\ GoesOn(w)
    /\ UNCHANGED <<mainVars, workerVars, lock, prepared>>

WriteCount(w) ==
    /\ at[w] = "write"
    /\ prepared' = seen[w] + 1
    /\ lock' = NoThread
    /\ GoesOn(w)
    /\ UNCHANGED <<mainVars, workerVars, seen>>

WorkerStep(w) ==
    \/ CopyTable(w)
    \/ FindClass(w) \/ MakeClass(w) \/ FinishClass(w) \/ ClassesCopied(w)
    \/ LockCount(w) \/ ReadCount(w) \/ WriteCount(w)

Starts == Spawn \/ StopSpinning

Next ==
    \/ Starts
    \/ \E c \in Class : DeclareClass(c)
    \/ \E t \in Table, s \in Symbol : DeclareSymbol(t, s)
    \/ \E w \in Worker : WorkerStep(w)

(* A thread that can go on does: the operating system schedules them all.  *)
Fairness == WF_vars(Starts) /\ \A w \in Worker : WF_vars(WorkerStep(w))

Spec == Init /\ [][Next]_vars /\ Fairness

-----------------------------------------------------------------------------
(* Types.  A worker has no anonymous class, and a class links to classes   *)
(* made before it or to internal ones.                                     *)
Link(n) == Internal \cup {NoClass} \cup 1 .. n
Linked(r, n) == r.class \in Class \ Anonymous /\ r.links \in Seq(Link(n))
TypeOK ==
    /\ main \in {"spawn", "spin", "script"}
    /\ created \in 0 .. ThreadCount
    /\ classes \in Seq(Class)
    /\ symbols \in [Table -> SUBSET Symbol]
    /\ at \in [Worker -> {"none"} \cup {Steps[i] : i \in DOMAIN Steps}]
    /\ \A w \in Worker :
        /\ entry[w] \in 1 .. Len(classes) + 1
        /\ \A i \in 1 .. Len(stack[w]) : Linked(stack[w][i], Len(copies[w]))
        /\ \A i \in 1 .. Len(copies[w]) : Linked(copies[w][i], i - 1)
        /\ table[w] \in [Class -> 0 .. Len(copies[w])]
        /\ own[w] \in [Table -> SUBSET Symbol]
        /\ seen[w] \in 0 .. ThreadCount
    /\ lock \in Worker \cup {NoThread}
    /\ prepared \in 0 .. ThreadCount

(* While a worker copies, the main thread changes none of its tables: the  *)
(* script goes on only when no thread reads them any more.                 *)
Copying(w) == at[w] \in Table \cup {"class_table"}
SourceStable ==
    [][(\E w \in Worker : Copying(w)) => UNCHANGED <<classes, symbols>>]_vars

(* Once ActorSystem::__construct has returned, an actor may be started on  *)
(* any worker: it knows each named class and each function, constant, file *)
(* and setting that there was before.                                      *)
AllKnown ==
    main = "script" =>
        \A w \in Worker :
            /\ \A o \in Orders, c \in Class \ Anonymous :
                (\E i \in 1 .. Len(o) : o[i] = c) => table[w][c] # NotThere
            /\ \A t \in Table : Early[t] \subseteq own[w][t]

(* Every link leads to a copy of the class that the original links to.  If *)
(* classes come after those they mention, it is the copy in the worker's   *)
(* class table, and there is no other: instanceof compares addresses.      *)
NameOf(w, ce) == IF ce \in Internal \cup {NoClass} THEN ce ELSE copies[w][ce].class
Entered(w, c) == IF c \notin Class THEN c ELSE table[w][c]
InOrder ==
    \A i \in 1 .. Len(classes) : \A k \in 1 .. Len(Links[classes[i]]) :
        LET c == Links[classes[i]][k]
        IN  c \in Class => \E j \in 1 .. i - 1 : classes[j] = c

LinkedAlike ==
    \A w \in Worker : \A i \in 1 .. Len(copies[w]) :
        LET r == copies[w][i]
        IN  [k \in 1 .. Len(r.links) |-> NameOf(w, r.links[k])] = Links[r.class]
OneCopyEach ==
    InOrder =>
        \A w \in Worker : \A i \in 1 .. Len(copies[w]) :
            LET r == copies[w][i] IN
            /\ table[w][r.class] = i
            /\ \A k \in 1 .. Len(r.links) : r.links[k] = Entered(w, Links[r.class][k])
LinksKept == LinkedAlike /\ OneCopyEach

(* No string, constant, array or constant expression is reached by two     *)
(* threads; an object, a reference or a resource inside an array or a      *)
(* constant is.                                                            *)
NoneShared ==
    \A w \in Worker : \A i \in 1 .. Len(copies[w]) :
        \A v \in copies[w][i].data :
            SharedWithMain(v) \subseteq {"OBJECT", "REFERENCE", "RESOURCE"}

(* The main thread does not spin for ever.                                 *)
Started == <>(main = "script")
=============================================================================
