------------------------------ MODULE Copying ------------------------------
(***************************************************************************)
(* ph_copy.c and ph_zend.c: how a thread makes its own copies of the       *)
(* values in the classes of the main thread.  PHP counts the references to *)
(* a value without locks, so a counted value that two threads reach is a   *)
(* data race.                                                              *)
(***************************************************************************)
EXTENDS Integers, Sequences

CONSTANTS
    Class,          \* user classes
    Anonymous,      \* those without a name
    Internal,       \* classes of PHP and of phactor, which every thread has
    NoClass,        \* a NULL zend_class_entry
    Links,          \* for each class its parent, its interfaces and traits and
                    \* the classes in its trait rules, in the order of their copies
    Props,          \* the default values of its properties,
    Statics,        \* the static variables of its methods,
    Literals,       \* the literals in their code,
    Constants       \* and its constants

ASSUME ClassAssumption ==
    /\ Anonymous \subseteq Class
    /\ Class \cap Internal = {}
    /\ NoClass \notin Class \cup Internal
    /\ (Internal \cup {NoClass}) \cap Int = {}
    /\ Links \in [Class -> Seq((Class \ Anonymous) \cup Internal \cup {NoClass})]

-----------------------------------------------------------------------------
(* A value is a tree: each path from its root, a sequence of positions,    *)
(* leads to a type and to the thread that counts it, if it is counted.     *)
(* Arrays have no holes here.                                              *)
Counted == {"STRING", "CONSTANT", "CONSTANT_AST", "ARRAY", "OBJECT", "REFERENCE", "RESOURCE"}
Uncounted == {"NULL", "SCALAR", "INTERNED", "IMMUTABLE_ARRAY"}
Container == {"ARRAY", "IMMUTABLE_ARRAY", "CONSTANT_AST", "OBJECT", "REFERENCE"}
Null == [p \in {<<>>} |-> [type |-> "NULL", owner |-> "none"]]

(* Those that p is inside, and the part of v at p.                         *)
Above(p) == {SubSeq(p, 1, n) : n \in 0 .. Len(p) - 1}
Part(v, p) ==
    LET inside == {q \in DOMAIN v : Len(p) <= Len(q) /\ SubSeq(q, 1, Len(p)) = p}
    IN  [r \in {SubSeq(q, Len(p) + 1, Len(q)) : q \in inside} |-> v[p \o r]]

(* The values of the main thread.  What is inside an immutable array is    *)
(* not counted.                                                            *)
OfMain(v) ==
    /\ DOMAIN v \subseteq Seq(Nat) /\ <<>> \in DOMAIN v
    /\ \A p \in DOMAIN v :
        /\ v[p] \in [type : Counted \cup Uncounted, owner : {"main", "none"}]
        /\ v[p].owner = IF v[p].type \in Counted THEN "main" ELSE "none"
        /\ Above(p) \subseteq DOMAIN v
        /\ \A q \in Above(p) :
            /\ v[q].type \in Container
            /\ v[q].type = "IMMUTABLE_ARRAY" => v[p].type \notin Counted

(* PH_ZVAL_DUP: strings, constants, arrays and constant expressions become *)
(* the thread's; what else is counted gets one more reference.  What is    *)
(* inside an array or an expression is duplicated in its turn, unless the  *)
(* array is immutable: its elements are copied as they are.                *)
Duplicated == {"STRING", "CONSTANT", "CONSTANT_AST", "ARRAY", "IMMUTABLE_ARRAY"}
ZendArrayDup(type) == FALSE
ArrayDup(type) == type = "ARRAY"
AstCopy(type) == type = "CONSTANT_AST"
Reached(v, p) == \A q \in Above(p) : ArrayDup(v[q].type) \/ AstCopy(v[q].type)
Own(node) == [node EXCEPT !.owner = "thread"]

ZvalDup(v) ==
    [p \in DOMAIN v |-> IF v[p].type \in Duplicated /\ Reached(v, p) THEN Own(v[p]) ELSE v[p]]

(* In a table of properties an object is dropped, and anything else that   *)
(* is counted but a string or an array fails an assertion.                 *)
CopyProp(v) ==
    IF v[<<>>].type \notin Counted THEN v
    ELSE IF v[<<>>].type = "OBJECT" THEN Null
    ELSE ZvalDup(v)

(* A static variable loses its references besides, and a constant becomes  *)
(* a plain string, its name; only a resource fails an assertion.           *)
Referred(v) ==
    {p \in DOMAIN v : v[p].type # "REFERENCE" /\ \A q \in Above(p) : v[q].type = "REFERENCE"}
Deref(v) == Part(v, CHOOSE p \in Referred(v) : TRUE)
NamedConstant(v) == v[<<>>].type = "CONSTANT"
AsString(v) == [v EXCEPT ![<<>>].type = "STRING"]
CopyStatic(v) ==
    LET value == Deref(v)
    IN  CopyProp(IF NamedConstant(value) THEN AsString(value) ELSE value)

(* Among literals only arrays and constant expressions need a copy.        *)
CopyLiteral(v) ==
    IF v[<<>>].type \in {"ARRAY", "IMMUTABLE_ARRAY", "CONSTANT_AST"} THEN ZvalDup(v) ELSE v

ASSUME ValueAssumption ==
    \A c \in Class :
        /\ \A v \in Props[c] \cup Statics[c] \cup Literals[c] \cup Constants[c] : OfMain(v)
        /\ \A v \in Props[c] :
            v[<<>>].type \notin {"CONSTANT", "CONSTANT_AST", "REFERENCE", "RESOURCE"}
        /\ \A v \in Statics[c] :
            Referred(v) # {} /\ \A p \in Referred(v) : v[p].type # "RESOURCE"
        /\ \A v \in Literals[c] : v[<<>>].type \notin Counted \ {"ARRAY", "CONSTANT_AST"}

(* copy_zend_op_array of its methods, copy_class_constants, create_new_ce. *)
MethodData(c) == {CopyStatic(v) : v \in Statics[c]} \cup {CopyLiteral(v) : v \in Literals[c]}
ConstantData(c) == {ZvalDup(v) : v \in Constants[c]}
ClassData(c) == {CopyProp(v) : v \in Props[c]} \cup MethodData(c) \cup ConstantData(c)

(* The types of the counted values of the main thread that a copy reaches. *)
Foreign(node) == node.type \in Counted /\ node.owner # "thread"
SharedWithMain(v) ==
    {v[p].type : p \in {p \in DOMAIN v : Foreign(v[p]) /\ \A q \in Above(p) : ~Foreign(v[q])}}
=============================================================================
