----------------------------- MODULE Mailboxes -----------------------------
(***************************************************************************)
(* What send() and receiveBlock() promise, without threads, task queues or *)
(* restarts.  Every actor that exists has one inbox.  A message to a       *)
(* reference joins its recipient's inbox when send() returns; one to a     *)
(* name floats until the name is looked up.  An actor takes its messages   *)
(* in the order of the send() calls, and never one while an earlier        *)
(* message may still reach it; a message is lost only with its recipient,  *)
(* or when its name leads to nobody.                                       *)
(*                                                                         *)
(* A message is the number of its send() call.                             *)
(***************************************************************************)
EXTENDS Naturals

CONSTANT Actor

VARIABLES
    open,       \* the actors that exist
    inbox,      \* the messages each has still to receive
    floating,   \* the messages sent to a name that has not been looked up
    posted      \* the number of send() calls so far

vars == <<open, inbox, floating, posted>>

Init ==
    /\ open = {}
    /\ inbox = [a \in Actor |-> {}]
    /\ floating = {}
    /\ posted = 0

Open(a) ==
    /\ a \notin open
    /\ open' = open \cup {a}
    /\ UNCHANGED <<inbox, floating, posted>>

(* A message to an actor that does not exist disappears.                   *)
Post(a) ==
    /\ posted' = posted + 1
    /\ inbox' = IF a \in open THEN [inbox EXCEPT ![a] = @ \cup {posted + 1}] ELSE inbox
    /\ UNCHANGED <<open, floating>>

PostByName ==
    /\ posted' = posted + 1
    /\ floating' = floating \cup {posted + 1}
    /\ UNCHANGED <<open, inbox>>

Earliest(m, S) == m \in S /\ \A x \in S : m <= x

(* The earliest floating message finds an actor, or nobody.                *)
Arrive(m) ==
    /\ Earliest(m, floating)
    /\ floating' = floating \ {m}
    /\ \/ \E a \in open : inbox' = [inbox EXCEPT ![a] = @ \cup {m}]
       \/ UNCHANGED inbox
    /\ UNCHANGED <<open, posted>>

Take(a, m) ==
    /\ a \in open
    /\ m \in inbox[a] /\ Earliest(m, inbox[a] \cup floating)
    /\ inbox' = [inbox EXCEPT ![a] = @ \ {m}]
    /\ UNCHANGED <<open, floating, posted>>

Close(S) ==
    /\ open' = open \ S
    /\ inbox' = [a \in Actor |-> IF a \in S THEN {} ELSE inbox[a]]
    /\ UNCHANGED <<floating, posted>>

Next ==
    \/ \E a \in Actor : Open(a) \/ Post(a) \/ \E m \in inbox[a] : Take(a, m)
    \/ PostByName
    \/ \E m \in floating : Arrive(m)
    \/ \E S \in SUBSET open : Close(S)

Spec == Init /\ [][Next]_vars
=============================================================================
