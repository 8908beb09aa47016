------------------------------- MODULE MCMail -------------------------------
(* Two messages, and an actor that is restarted once.  The values differ   *)
(* in what they allocate and in what is freed or lost of them; of two      *)
(* constructor arguments, the second may fail after the first is stored.   *)
EXTENDS Mail

CONSTANTS c1, c2, c3

MCCell == {c1, c2, c3}
MCElement == {"NEW_ACTOR", "RESUME_ACTOR", "FREE_VM_STACK", "RESUME_OTHER"} \X (1 .. 2)
Cells == Permutations(MCCell)

Value(t, d) == [type |-> t, data |-> d]
Object == Value("OBJECT", 1)
String == Value("STRING", 1)
Resource == Value("RESOURCE", 1)
MCValues == {Value("LONG", -4), Object, Value("CLOSURE", 1), Resource}
MCArgLists == {<<Object, String>>, <<Object, Resource>>}
=============================================================================
