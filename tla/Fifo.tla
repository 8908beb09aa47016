-------------------------------- MODULE Fifo --------------------------------
(* What a task queue and a mailbox are to those who use them.              *)
EXTENDS Sequences

CONSTANTS Element, NoElement

VARIABLES
    content,
    result      \* what the last pop returned

vars == <<content, result>>

Init == content = <<>> /\ result = NoElement

Push(e) == content' = Append(content, e) /\ UNCHANGED result

Pop ==
    /\ content # <<>>
    /\ result' = Head(content)
    /\ content' = Tail(content)

PopNothing ==
    /\ content = <<>>
    /\ result' = NoElement
    /\ UNCHANGED content

Next == (\E e \in Element : Push(e)) \/ Pop \/ PopNothing

Spec == Init /\ [][Next]_vars
=============================================================================
