--------------------------- MODULE MCActorSystem ---------------------------
(* Instances of ActorSystem.  A scenario says which calls the PHP code of  *)
(* the script (Main) and of each actor may make; the order in which it     *)
(* makes them, and whether it does, is open.                               *)
EXTENDS ActorSystem, TLC

CONSTANTS a1, a2, a3, a4, w1, w2, n1

Nothing == {}
OnlyMain == {Main}
Only2 == {a2}
TwoWorkers == {w1, w2}
Pair == {a1, a2}
Trio == {a1, a2, a3}
Quartet == {a1, a2, a3, a4}
OneName == {n1}
Unnamed == [a \in Actor |-> NoName]

(* Restart: a1 supervises a2, which it made; the two write to each other.  *)
Promote1 == {<<a1, a1>>}
Supervised == {<<Main, a1, NoActor>>, <<a1, a2, a1>>}
BothSends == {<<a1, a2>>, <<a2, a1>>}
DownSends == {<<a1, a2>>}

(* RestartLimit, Supervision: a1 supervises a2, for which the script makes  *)
(* a worker a3.                                                            *)
Chain == {<<Main, a1, NoActor>>, <<a1, a2, a1>>, <<Main, a3, a2>>}
Promote12 == {<<a1, a1>>, <<a2, a2>>}
ChainSends == {<<a1, a3>>}

(* Shutdown: a1 makes a named actor a2, which it takes on as its worker.   *)
Name2 == [a \in Actor |-> IF a = a2 THEN n1 ELSE NoName]
LateCreates == {<<Main, a1, NoActor>>, <<a1, a2, NoActor>>}
SelfAdds2 == {<<a1, a1, a2>>}
NameSends == {<<a1, n1>>, <<a1, a2>>}
MainAnd1 == {Main, a1}

(* Names: a2 is a worker of a1; a3 and a4 are later given its name.        *)
Name234 == [a \in Actor |-> IF a = a1 THEN NoName ELSE n1]
NameCreates == {<<Main, a1, NoActor>>, <<a1, a2, a1>>, <<Main, a3, NoActor>>,
                <<Main, a4, NoActor>>}
=============================================================================
