----------------------------- MODULE MCStartup -----------------------------
(* B extends the actor class A and implements I; an anonymous class X      *)
(* extends A.  The class table has them in any order; L is declared late.  *)
EXTENDS Startup, TLC

CONSTANTS A, B, I, X, L, PhActor, PhpIterator, f, g

MCClass == {A, B, I, X, L}
MCAnonymous == {X}
MCInternal == {PhActor, PhpIterator}
MCLinks ==
    (A :> <<PhActor>>) @@ (B :> <<A, I, NoClass>>) @@ (I :> <<NoClass, PhpIterator>>)
    @@ (X :> <<A>>) @@ (L :> <<B, I>>)
MCSymbol == {f, g}
MCEarly == [t \in Table |-> {f}]
MCOrders == {o \in [1 .. 4 -> MCClass \ {L}] : \A i, j \in 1 .. 4 : o[i] = o[j] => i = j}

(* A value of type t that contains the values vs.                          *)
Value(t, vs) ==
    [p \in {<<>>} \cup {<<i>> \o q : <<i, q>> \in UNION {{i} \X DOMAIN vs[i] : i \in DOMAIN vs}} |->
        IF p # <<>> THEN vs[Head(p)][Tail(p)]
        ELSE [type |-> t, owner |-> IF t \in Counted THEN "main" ELSE "none"]]
Leaves == {Value(t, <<>>) : t \in {"SCALAR", "INTERNED", "STRING", "OBJECT"}}
Arrays == {Value("ARRAY", <<v, Value("ARRAY", <<v>>)>>) : v \in Leaves}
Immutable == Value("IMMUTABLE_ARRAY", <<Value("INTERNED", <<>>), Value("SCALAR", <<>>)>>)
Expression ==
    Value("CONSTANT_AST", <<Value("CONSTANT", <<>>), Value("CONSTANT_AST", <<Value("STRING", <<>>)>>)>>)
OnlyB(S) == [c \in MCClass |-> IF c = B THEN S ELSE {}]

MCProps == OnlyB(Leaves \cup Arrays \cup {Immutable})
MCStatics ==
    OnlyB({Value("REFERENCE", <<v>>) : v \in Leaves \cup Arrays}
          \cup {Expression, Value("CONSTANT", <<>>)})
MCLiterals == OnlyB({Value("INTERNED", <<>>), Immutable, Expression})
MCConstants == OnlyB({Value("RESOURCE", <<>>), Value("STRING", <<>>), Immutable})
=============================================================================
