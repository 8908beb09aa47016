------------------------------- MODULE Queue -------------------------------
(***************************************************************************)
(* ph_queue: a singly linked list with a pointer to its last cell and a    *)
(* count.  Task queues, mailboxes and the walks of the supervision trees   *)
(* are such queues.  Every caller holds the lock that protects the queue,  *)
(* so an operation is one step.                                            *)
(***************************************************************************)
EXTENDS Integers, Sequences

CONSTANTS
    Cell,           \* the linked_list_t blocks malloc may return
    NoCell,
    Element,
    NoElement       \* a NULL element

ASSUME CellAssumption == NoCell \notin Cell
ASSUME ElementAssumption == NoElement \notin Element

VARIABLES
    elements, last, size,   \* the fields of ph_queue_t
    next, element,          \* the fields of every linked_list_t
    allocated,              \* the cells malloc has returned and free has not
    result,                 \* what the last pop returned
    destroying,             \* in the loop of ph_queue_destroy
    chain                   \* not in the program: the cells in push order

vars == <<elements, last, size, next, element, allocated, result, destroying, chain>>

Init ==
    /\ elements = NoCell /\ last = NoCell /\ size = 0
    /\ next = [c \in Cell |-> NoCell]
    /\ element \in [Cell -> Element]
    /\ allocated = {}
    /\ result = NoElement
    /\ destroying = FALSE
    /\ chain = <<>>

(* Where push links a new cell: behind the last one, if there is one.      *)
Unlinked(c) == [next EXCEPT ![c] = NoCell]
Linked(c) == IF elements # NoCell THEN [next EXCEPT ![c] = NoCell, ![last] = c]
             ELSE [next EXCEPT ![c] = NoCell]

Push(e) ==
    \E c \in Cell \ allocated :
        /\ ~destroying
        /\ allocated' = allocated \cup {c}
        /\ element' = [element EXCEPT ![c] = e]
        /\ next' = Linked(c)
        /\ elements' = IF elements # NoCell THEN elements ELSE c
        /\ last' = c
        /\ size' = size + 1
        /\ chain' = Append(chain, c)
        /\ UNCHANGED <<result, destroying>>

(* The last pop leaves no pointer to the cell it frees.                    *)
LastKept == last
LastAfterPop == IF next[elements] = NoCell THEN NoCell ELSE last

DecrementAlways == size - 1
SizeAfterPop == IF elements # NoCell THEN size - 1 ELSE size

Pop ==
    /\ destroying => size > 0
    /\ size' = SizeAfterPop
    /\ UNCHANGED <<next, element, destroying>>
    /\ IF elements # NoCell
       THEN /\ result' = element[elements]
            /\ elements' = next[elements]
            /\ last' = LastAfterPop
            /\ allocated' = allocated \ {elements}
            /\ chain' = Tail(chain)
       ELSE /\ result' = NoElement
            /\ UNCHANGED <<elements, last, allocated, chain>>

(* ph_queue_destroy pops, and destroys what it gets, until size is zero.   *)
Destroy ==
    /\ ~destroying
    /\ destroying' = TRUE
    /\ UNCHANGED <<elements, last, size, next, element, allocated, result, chain>>

Next == (\E e \in Element : Push(e)) \/ Pop \/ Destroy

Spec == Init /\ [][Next]_vars

-----------------------------------------------------------------------------
TypeOK ==
    /\ elements \in Cell \cup {NoCell} /\ last \in Cell \cup {NoCell}
    /\ size \in Nat
    /\ next \in [Cell -> Cell \cup {NoCell}]
    /\ element \in [Cell -> Element]
    /\ allocated \subseteq Cell
    /\ result \in Element \cup {NoElement}
    /\ destroying \in BOOLEAN
    /\ chain \in Seq(Cell)

(* The pointers: the list runs through distinct allocated cells in the     *)
(* order they were pushed, from elements to last, and ends there; size     *)
(* counts them, and a cell that is not in the list is not allocated.       *)
LinkedList ==
    /\ elements = IF chain = <<>> THEN NoCell ELSE chain[1]
    /\ last = IF chain = <<>> THEN NoCell ELSE chain[Len(chain)]
    /\ size = Len(chain)
    /\ \A i \in 1 .. Len(chain) - 1 : next[chain[i]] = chain[i + 1]
    /\ chain # <<>> => next[chain[Len(chain)]] = NoCell
    /\ \A i, j \in 1 .. Len(chain) : chain[i] = chain[j] => i = j
    /\ allocated = {chain[i] : i \in 1 .. Len(chain)}

(* Every pop returns the oldest element that was pushed and not popped     *)
(* yet, and NULL only when there is none.                                  *)
List == INSTANCE Fifo WITH content <- [i \in 1 .. Len(chain) |-> element[chain[i]]]
ImplementsFifo == List!Spec
=============================================================================
