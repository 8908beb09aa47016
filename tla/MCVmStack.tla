----------------------------- MODULE MCVmStack -----------------------------
(* The scenarios of MCActorSystem with the VM stacks.  In Supervision a1    *)
(* restarts a2, and with it a3, which may wait deep in its calls.          *)
EXTENDS VmStack, MCActorSystem

Only1 == {a1}
Only3 == {a3}
=============================================================================
