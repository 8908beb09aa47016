---------------------------- MODULE QueueProofs ----------------------------
(***************************************************************************)
(* The linked list implements a FIFO queue, for any set of cells and of    *)
(* elements.  LinkedList is inductive once the types are known: what push  *)
(* and pop read through the pointers is what the ends of chain say.        *)
(***************************************************************************)
EXTENDS Queue, TLAPS

IInv == TypeOK /\ LinkedList

LEMMA InitIInv == Init => IInv
  <1> SUFFICES ASSUME Init PROVE IInv
    OBVIOUS
  <1>0. size \in Nat /\ chain \in Seq(Cell)
    BY DEF Init
  <1>1. TypeOK
    BY <1>0 DEF Init, TypeOK
  <1>2. chain = <<>> /\ Len(chain) = 0 /\ 1 .. Len(chain) = {}
    BY DEF Init
  <1>3. LinkedList
    BY <1>2 DEF Init, LinkedList
  <1> QED
    BY <1>1, <1>3 DEF IInv

LEMMA StepTypeOK ==
    ASSUME IInv, Next
    PROVE  TypeOK'
  <1> USE DEF IInv, TypeOK
  <1>1. ASSUME NEW e \in Element, Push(e)
        PROVE  TypeOK'
    <2>1. PICK c \in Cell \ allocated :
            /\ allocated' = allocated \cup {c}
            /\ element' = [element EXCEPT ![c] = e]
            /\ next' = Linked(c)
            /\ elements' \in {elements, c} /\ last' = c
            /\ size' = size + 1
            /\ chain' = Append(chain, c)
            /\ UNCHANGED <<result, destroying>>
      BY <1>1 DEF Push
    <2>2. next' \in [Cell -> Cell \cup {NoCell}]
      BY <2>1 DEF Linked
    <2>3. chain' \in Seq(Cell) /\ size' \in Nat
      BY <2>1
    <2> QED
      BY <2>1, <2>2, <2>3
  <1>2. CASE Pop
    <2>1. CASE elements = NoCell
      BY <1>2, <2>1 DEF Pop, SizeAfterPop
    <2>2. CASE elements # NoCell
      <3>1. chain # <<>> /\ size = Len(chain)
        BY <2>2 DEF LinkedList
      <3> QED
        BY <1>2, <2>2, <3>1 DEF Pop, SizeAfterPop, LastAfterPop
    <2> QED
      BY <2>1, <2>2
  <1>3. CASE Destroy
    BY <1>3 DEF Destroy
  <1> QED
    BY <1>1, <1>2, <1>3 DEF Next

LEMMA PushLinks ==
    ASSUME IInv, NEW e \in Element, Push(e)
    PROVE  LinkedList'
  <1>1. PICK c \in Cell \ allocated :
          /\ allocated' = allocated \cup {c}
          /\ next' = Linked(c)
          /\ elements' = IF elements # NoCell THEN elements ELSE c
          /\ last' = c
          /\ size' = size + 1
          /\ chain' = Append(chain, c)
    BY DEF Push
  <1> DEFINE n == Len(chain)
  <1>2. /\ chain \in Seq(Cell) /\ n \in Nat
        /\ next \in [Cell -> Cell \cup {NoCell}]
    BY DEF IInv, TypeOK
  <1>3. /\ Len(chain') = n + 1
        /\ \A i \in 1 .. n : chain'[i] = chain[i] /\ chain[i] \in Cell
        /\ chain'[n + 1] = c
        /\ chain' # <<>>
    BY <1>1, <1>2
  <1>4. \A i \in 1 .. n : chain[i] # c
    BY DEF IInv, LinkedList
  <1>5. elements' = chain'[1] /\ last' = chain'[Len(chain')] /\ size' = Len(chain')
    BY <1>1, <1>2, <1>3, CellAssumption DEF IInv, LinkedList
  <1>6. next'[c] = NoCell
    BY <1>1, <1>2, <1>3, <1>4 DEF Linked, IInv, LinkedList
  <1>7. \A i \in 1 .. n : next'[chain[i]] = IF i = n THEN c ELSE next[chain[i]]
    BY <1>1, <1>2, <1>3, <1>4, CellAssumption DEF Linked, IInv, LinkedList
  <1>8. \A i \in 1 .. Len(chain') - 1 : next'[chain'[i]] = chain'[i + 1]
    <2> SUFFICES ASSUME NEW i \in 1 .. n PROVE next'[chain'[i]] = chain'[i + 1]
      BY <1>2, <1>3
    <2>1. CASE i = n
      BY <1>3, <1>7, <2>1
    <2>2. CASE i # n
      <3>1. i \in 1 .. n - 1 /\ i + 1 \in 1 .. n
        BY <1>2, <2>2
      <3>2. next[chain[i]] = chain[i + 1]
        BY <3>1 DEF IInv, LinkedList
      <3> QED
        BY <1>3, <1>7, <2>2, <3>1, <3>2
    <2> QED
      BY <2>1, <2>2
  <1>9. \A i, j \in 1 .. Len(chain') : chain'[i] = chain'[j] => i = j
    BY <1>2, <1>3, <1>4 DEF IInv, LinkedList
  <1>10. allocated' = {chain'[i] : i \in 1 .. Len(chain')}
    <2>1. allocated = {chain[i] : i \in 1 .. n}
      BY DEF IInv, LinkedList
    <2>2. 1 .. n + 1 = (1 .. n) \cup {n + 1}
      BY <1>2
    <2>3. {chain'[i] : i \in (1 .. n) \cup {n + 1}} = {chain[i] : i \in 1 .. n} \cup {c}
      BY <1>3
    <2> QED
      BY <1>1, <1>3, <2>1, <2>2, <2>3
  <1> QED
    BY <1>3, <1>5, <1>6, <1>8, <1>9, <1>10 DEF LinkedList

LEMMA PopLinks ==
    ASSUME IInv, Pop
    PROVE  LinkedList'
  <1>1. CASE elements = NoCell
    BY <1>1, CellAssumption DEF Pop, SizeAfterPop, IInv, LinkedList, TypeOK
  <1>2. CASE elements # NoCell
    <2> DEFINE n == Len(chain)
    <2>1. /\ chain \in Seq(Cell) /\ n \in Nat /\ n > 0
          /\ elements = chain[1]
      BY <1>2 DEF IInv, TypeOK, LinkedList
    <2>2. /\ chain' = Tail(chain)
          /\ elements' = next[elements]
          /\ last' = LastAfterPop
          /\ size' = size - 1
          /\ next' = next
          /\ allocated' = allocated \ {elements}
      BY <1>2 DEF Pop, SizeAfterPop
    <2>3. /\ Len(chain') = n - 1
          /\ \A i \in 1 .. n - 1 : chain'[i] = chain[i + 1]
          /\ chain' \in Seq(Cell)
      BY <2>1, <2>2
    <2>4. CASE n = 1
      <3>1. chain' = <<>> /\ elements' = NoCell
        BY <2>1, <2>2, <2>3, <2>4 DEF IInv, LinkedList
      <3>2. last' = NoCell
        BY <2>2, <3>1 DEF LastAfterPop
      <3>3. allocated' = {}
        BY <2>1, <2>2, <2>4 DEF IInv, LinkedList
      <3>4. Len(chain') = 0 /\ size' = 0 /\ 1 .. Len(chain') = {}
        BY <2>2, <2>3, <2>4 DEF IInv, LinkedList
      <3> QED
        BY <3>1, <3>2, <3>3, <3>4 DEF LinkedList
    <2>5. CASE n > 1
      <3>1. elements' = chain[2] /\ chain[2] # NoCell
        BY <2>1, <2>2, <2>5, CellAssumption DEF IInv, LinkedList
      <3>2. elements' = chain'[1] /\ chain' # <<>>
        BY <2>1, <2>3, <2>5, <3>1
      <3>3. last' = chain'[Len(chain')]
        BY <2>1, <2>2, <2>3, <2>5, <3>1 DEF LastAfterPop, IInv, LinkedList
      <3>4. \A i \in 1 .. Len(chain') - 1 : next'[chain'[i]] = chain'[i + 1]
        BY <2>1, <2>2, <2>3 DEF IInv, LinkedList
      <3>5. next'[chain'[Len(chain')]] = NoCell
        BY <2>1, <2>2, <2>3, <2>5 DEF IInv, LinkedList
      <3>6. \A i, j \in 1 .. Len(chain') : chain'[i] = chain'[j] => i = j
        BY <2>1, <2>3 DEF IInv, LinkedList
      <3>7. allocated' = {chain'[i] : i \in 1 .. Len(chain')}
        <4>1. allocated = {chain[i] : i \in 1 .. n}
          BY DEF IInv, LinkedList
        <4>2. \A i \in 1 .. n : chain[i] = chain[1] => i = 1
          BY <2>1 DEF IInv, LinkedList
        <4>3. \A i \in 2 .. n : i - 1 \in 1 .. n - 1 /\ chain[i] = chain'[i - 1]
          BY <2>1, <2>3
        <4> QED
          BY <2>1, <2>2, <2>3, <4>1, <4>2, <4>3
      <3>8. size' = Len(chain')
        BY <2>2, <2>3 DEF IInv, LinkedList
      <3> QED
        BY <3>2, <3>3, <3>4, <3>5, <3>6, <3>7, <3>8 DEF LinkedList
    <2>6. \A k \in Nat : k > 0 => k = 1 \/ k > 1
      OBVIOUS
    <2> QED
      BY <2>1, <2>4, <2>5, <2>6
  <1> QED
    BY <1>1, <1>2

LEMMA StepIInv == IInv /\ [Next]_vars => IInv'
  <1> SUFFICES ASSUME IInv, [Next]_vars PROVE IInv'
    OBVIOUS
  <1>1. CASE Next
    <2>1. CASE Destroy
      BY <1>1, <2>1, StepTypeOK DEF Destroy, IInv, LinkedList
    <2> QED
      BY <1>1, <2>1, StepTypeOK, PushLinks, PopLinks DEF Next, IInv
  <1>2. CASE UNCHANGED vars
    BY <1>2 DEF vars, IInv, TypeOK, LinkedList
  <1> QED
    BY <1>1, <1>2

LEMMA Invariance == Spec => []IInv
  BY InitIInv, StepIInv, PTL DEF Spec

(* The pointers and the count always describe one list without a loop,     *)
(* and a cell is freed exactly when it leaves the list.                    *)
THEOREM AlwaysLinked == Spec => []LinkedList
  <1>1. IInv => LinkedList
    BY DEF IInv
  <1> QED
    BY <1>1, Invariance, PTL

-----------------------------------------------------------------------------
(* The refinement.  Content is what the list holds, first to last.         *)
Content == [i \in 1 .. Len(chain) |-> element[chain[i]]]

LEMMA ContentSeq ==
    ASSUME IInv
    PROVE  Content \in Seq(Element) /\ Len(Content) = Len(chain)
  <1>1. /\ chain \in Seq(Cell) /\ Len(chain) \in Nat
        /\ element \in [Cell -> Element]
    BY DEF IInv, TypeOK
  <1>2. \A i \in 1 .. Len(chain) : element[chain[i]] \in Element
    BY <1>1
  <1> QED
    BY <1>1, <1>2 DEF Content

LEMMA PushRefines ==
    ASSUME IInv, IInv', NEW e \in Element, Push(e)
    PROVE  Content' = Append(Content, e) /\ result' = result
  <1>1. PICK c \in Cell \ allocated :
          /\ element' = [element EXCEPT ![c] = e]
          /\ chain' = Append(chain, c)
          /\ result' = result
    BY DEF Push
  <1> DEFINE n == Len(chain)
  <1>2. /\ chain \in Seq(Cell) /\ n \in Nat /\ element \in [Cell -> Element]
        /\ \A i \in 1 .. n : chain[i] # c
    BY DEF IInv, TypeOK, LinkedList
  <1>3. Content' = [i \in 1 .. Len(chain') |-> element'[chain'[i]]]
    BY DEF Content
  <1>4. /\ Len(chain') = n + 1 /\ chain'[n + 1] = c
        /\ \A i \in 1 .. n : chain'[i] = chain[i] /\ chain[i] \in Cell
    BY <1>1, <1>2
  <1>5. Content' = [i \in 1 .. n + 1 |-> IF i = n + 1 THEN e ELSE element[chain[i]]]
    BY <1>1, <1>2, <1>3, <1>4
  <1>6. Append(Content, e) = [i \in 1 .. n + 1 |-> IF i = n + 1 THEN e ELSE element[chain[i]]]
    BY <1>2, ContentSeq DEF Content
  <1> QED
    BY <1>1, <1>5, <1>6

LEMMA PopRefines ==
    ASSUME IInv, IInv', Pop
    PROVE  \/ /\ Content # <<>> /\ result' = Head(Content) /\ Content' = Tail(Content)
           \/ Content = <<>> /\ result' = NoElement /\ Content' = Content
  <1> DEFINE n == Len(chain)
  <1>1. /\ chain \in Seq(Cell) /\ n \in Nat
        /\ Content \in Seq(Element) /\ Len(Content) = n
        /\ element' = element
    BY ContentSeq DEF IInv, TypeOK, Pop
  <1>2. CASE elements = NoCell
    <2>1. n = 0 /\ chain' = chain /\ result' = NoElement
      BY <1>2, CellAssumption DEF Pop, IInv, TypeOK, LinkedList
    <2>2. Content = <<>>
      BY <1>1, <2>1
    <2> QED
      BY <1>1, <2>1, <2>2 DEF Content
  <1>3. CASE elements # NoCell
    <2>1. n > 0 /\ chain' = Tail(chain) /\ result' = element[chain[1]]
      BY <1>1, <1>3 DEF Pop, IInv, LinkedList
    <2>2. Content # <<>> /\ result' = Head(Content)
      BY <1>1, <2>1 DEF Content
    <2>3. /\ Len(chain') = n - 1
          /\ \A i \in 1 .. n - 1 : chain'[i] = chain[i + 1]
      BY <1>1, <2>1
    <2>4. Content' = [i \in 1 .. n - 1 |-> element[chain[i + 1]]]
      BY <1>1, <2>3 DEF Content
    <2>5. Tail(Content) = [i \in 1 .. n - 1 |-> element[chain[i + 1]]]
      BY <1>1, <2>1 DEF Content
    <2> QED
      BY <2>2, <2>4, <2>5
  <1> QED
    BY <1>2, <1>3

(* Whatever is pushed is popped once, in the order it was pushed.          *)
THEOREM QueueIsFifo == Spec => ImplementsFifo
  <1>1. Init => List!Init
    BY DEF Init, List!Init
  <1>2. IInv /\ IInv' /\ [Next]_vars => [List!Next]_(List!vars)
    <2> SUFFICES ASSUME IInv, IInv', [Next]_vars
                 PROVE  List!Next \/ UNCHANGED List!vars
      BY DEF List!vars
    <2>1. CASE \E e \in Element : Push(e)
      BY <2>1, PushRefines DEF List!Next, List!Push, Content
    <2>2. CASE Pop
      BY <2>2, PopRefines DEF List!Next, List!Pop, List!PopNothing, Content
    <2>3. CASE Destroy \/ UNCHANGED vars
      BY <2>3 DEF Destroy, vars, List!vars
    <2> QED
      BY <2>1, <2>2, <2>3 DEF Next
  <1> QED
    BY <1>1, <1>2, Invariance, PTL DEF Spec, ImplementsFifo, List!Spec
=============================================================================
