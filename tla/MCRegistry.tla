----------------------------- MODULE MCRegistry -----------------------------
(* Small instances of Registry: four actors, two of which want one name.   *)
EXTENDS Registry, TLC

CONSTANTS a1, a2, a3, a4, n1

MCActor == {a1, a2, a3, a4}
MCName == {n1}
MCNameOf == (a1 :> n1) @@ (a2 :> n1) @@ (a3 :> NoName) @@ (a4 :> NoName)

(* Actors with the same name, and actors without one, are interchangeable. *)
MCSymmetry == {p @@ q : p \in Permutations({a1, a2}), q \in Permutations({a3, a4})}
=============================================================================
