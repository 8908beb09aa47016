--------------------------- MODULE StartupProofs ---------------------------
(***************************************************************************)
(* Proofs about Copying and Startup, for any number of workers, any        *)
(* classes and links between them, in any order, and any values.           *)
(***************************************************************************)
EXTENDS Startup, FiniteSetTheorems, SequenceTheorems, TLAPS

-----------------------------------------------------------------------------
(* Values.                                                                 *)
Shareable == {"OBJECT", "REFERENCE", "RESOURCE"}

(* The part of a value is a value: what is inside it was inside the whole. *)
LEMMA PartOfMain ==
    ASSUME NEW v, OfMain(v), NEW p \in DOMAIN v
    PROVE  OfMain(Part(v, p)) /\ Part(v, p)[<<>>] = v[p]
PROOF
<1> DEFINE whole(r) == p \o r
<1>0. p \in Seq(Nat) /\ DOMAIN v \subseteq Seq(Nat) /\ Len(p) \in Nat
    BY DEF OfMain
<1>1. ASSUME NEW r \in DOMAIN Part(v, p)
      PROVE  r \in Seq(Nat) /\ p \o r \in DOMAIN v /\ Part(v, p)[r] = v[p \o r]
    <2>1. PICK q \in DOMAIN v :
            /\ Len(p) <= Len(q) /\ SubSeq(q, 1, Len(p)) = p
            /\ r = SubSeq(q, Len(p) + 1, Len(q))
        BY <1>1 DEF Part
    <2>2. q \in Seq(Nat) /\ Len(q) \in Nat
        BY <1>0
    <2>3. SubSeq(q, 1, Len(p)) \o SubSeq(q, Len(p) + 1, Len(q)) = SubSeq(q, 1, Len(q))
        <3>1. 1 \in 1 .. Len(q) + 1 /\ Len(p) \in 1 - 1 .. Len(q) /\ Len(q) \in Len(p) .. Len(q)
            BY <1>0, <2>1, <2>2
        <3>2. QED
            BY <2>2, <3>1, ConcatAdjacentSubSeq
    <2>4. p \o r = q
        BY <2>1, <2>2, <2>3, SubSeqFull
    <2>5. r \in Seq(Nat)
        <3>1. \A i \in Len(p) + 1 .. Len(q) : q[i] \in Nat
            BY <1>0, <2>2, ElementOfSeq
        <3>2. Len(p) + 1 \in Int /\ Len(q) \in Int
            BY <1>0, <2>2
        <3>3. QED
            BY <2>1, <3>1, <3>2, SubSeqProperties
    <2>6. Part(v, p)[r] = v[p \o r]
        BY <1>1 DEF Part
    <2>7. QED
        BY <2>4, <2>5, <2>6
<1>2. ASSUME NEW r \in Seq(Nat), p \o r \in DOMAIN v
      PROVE  r \in DOMAIN Part(v, p)
    <2> DEFINE q == p \o r
    <2>1. /\ q \in Seq(Nat) /\ Len(q) = Len(p) + Len(r)
          /\ \A i \in 1 .. Len(p) + Len(r) : q[i] = IF i <= Len(p) THEN p[i] ELSE r[i - Len(p)]
        BY <1>0, ConcatProperties
    <2>2. Len(p) \in Nat /\ Len(r) \in Nat /\ Len(q) \in Nat
        BY <1>0, <2>1
    <2>3. SubSeq(q, 1, Len(p)) = p
        <3>1. \A i \in 1 .. Len(p) : q[i] \in Nat
            BY <1>0, <2>1, <2>2, ElementOfSeq
        <3>2. /\ SubSeq(q, 1, Len(p)) \in Seq(Nat)
              /\ Len(SubSeq(q, 1, Len(p))) = IF 1 <= Len(p) THEN Len(p) - 1 + 1 ELSE 0
              /\ \A i \in 1 .. Len(p) - 1 + 1 : SubSeq(q, 1, Len(p))[i] = q[1 + i - 1]
            BY <2>2, <3>1, SubSeqProperties
        <3>3. Len(SubSeq(q, 1, Len(p))) = Len(p)
            BY <2>2, <3>2
        <3>4. \A i \in 1 .. Len(p) : SubSeq(q, 1, Len(p))[i] = p[i]
            BY <2>1, <2>2, <3>2
        <3>5. QED
            BY <1>0, <3>2, <3>3, <3>4, SeqEqual
    <2>4. SubSeq(q, Len(p) + 1, Len(q)) = r
        <3>1. \A i \in Len(p) + 1 .. Len(q) : q[i] \in Nat
            BY <2>1, <2>2, ElementOfSeq
        <3>2. Len(p) + 1 \in Int /\ Len(q) \in Int
            BY <2>2
        <3> DEFINE t == SubSeq(q, Len(p) + 1, Len(q))
        <3>3. /\ t \in Seq(Nat)
              /\ Len(t) = IF Len(p) + 1 <= Len(q) THEN Len(q) - (Len(p) + 1) + 1 ELSE 0
              /\ \A i \in 1 .. Len(q) - (Len(p) + 1) + 1 : t[i] = q[Len(p) + 1 + i - 1]
            BY <3>1, <3>2, SubSeqProperties
        <3> HIDE DEF t
        <3>4. Len(t) = Len(r)
            BY <2>1, <2>2, <3>3
        <3>5. ASSUME NEW i \in 1 .. Len(t) PROVE t[i] = r[i]
            <4>1. i \in 1 .. Len(q) - (Len(p) + 1) + 1 /\ Len(p) + 1 + i - 1 = Len(p) + i
                BY <2>1, <2>2, <3>4
            <4>2. t[i] = q[Len(p) + i]
                BY <3>3, <4>1
            <4>3. Len(p) + i \in 1 .. Len(p) + Len(r) /\ ~(Len(p) + i <= Len(p))
                  /\ Len(p) + i - Len(p) = i
                BY <2>2, <3>4
            <4>4. QED
                BY <2>1, <4>2, <4>3
        <3>6. t = r
            BY <3>3, <3>4, <3>5, SeqEqual
        <3>7. QED
            BY <3>6 DEF t
    <2>5. Len(p) <= Len(q)
        BY <2>1, <2>2
    <2>6. QED
        BY <1>2, <2>3, <2>4, <2>5 DEF Part
<1>3. ASSUME NEW r \in Seq(Nat), NEW s \in Above(r)
      PROVE  s \in Seq(Nat) /\ p \o s \in Above(p \o r)
    <2>1. PICK n \in 0 .. Len(r) - 1 : s = SubSeq(r, 1, n)
        BY <1>3 DEF Above
    <2>2. Len(r) \in Nat /\ n \in Nat /\ n < Len(r)
        <3>1. Len(r) \in Nat
            OBVIOUS
        <3>2. QED
            BY <2>1, <3>1
    <2>3. \A i \in 1 .. n : r[i] \in Nat
        BY <2>2, ElementOfSeq
    <2>4. /\ s \in Seq(Nat) /\ Len(s) = IF 1 <= n THEN n - 1 + 1 ELSE 0
          /\ \A i \in 1 .. n - 1 + 1 : s[i] = r[1 + i - 1]
        BY <2>1, <2>2, <2>3, SubSeqProperties
    <2>5. Len(s) = n /\ \A i \in 1 .. n : s[i] = r[i]
        BY <2>2, <2>4
    <2> DEFINE q == p \o r
    <2>6. /\ q \in Seq(Nat) /\ Len(q) = Len(p) + Len(r)
          /\ \A i \in 1 .. Len(p) + Len(r) : q[i] = IF i <= Len(p) THEN p[i] ELSE r[i - Len(p)]
        BY <1>0, ConcatProperties
    <2> DEFINE t == p \o s
    <2>7. /\ t \in Seq(Nat) /\ Len(t) = Len(p) + Len(s)
          /\ \A i \in 1 .. Len(p) + Len(s) : t[i] = IF i <= Len(p) THEN p[i] ELSE s[i - Len(p)]
        BY <1>0, <2>4, ConcatProperties
    <2> DEFINE m == Len(p) + n
    <2>8. m \in Nat /\ m \in 0 .. Len(q) - 1
        BY <1>0, <2>2, <2>6
    <2> DEFINE u == SubSeq(q, 1, m)
    <2> HIDE DEF q, t
    <2>9. \A i \in 1 .. m : q[i] \in Nat
        <3>1. \A i \in 1 .. m : i \in 1 .. Len(q)
            BY <1>0, <2>2, <2>6
        <3>2. QED
            BY <2>6, <3>1, ElementOfSeq
    <2>10. /\ u \in Seq(Nat) /\ Len(u) = IF 1 <= m THEN m - 1 + 1 ELSE 0
           /\ \A i \in 1 .. m - 1 + 1 : u[i] = q[1 + i - 1]
        <3> HIDE DEF m
        <3>1. 1 \in Int /\ m \in Int
            BY <2>8
        <3>2. QED
            BY <2>9, <3>1, SubSeqProperties
    <2> HIDE DEF u
    <2>11. Len(u) = Len(t)
        BY <1>0, <2>2, <2>5, <2>7, <2>8, <2>10
    <2>12. ASSUME NEW i \in 1 .. Len(u) PROVE u[i] = t[i]
        <3>1. i \in 1 .. Len(p) + n /\ i \in Nat
            BY <1>0, <2>2, <2>5, <2>7, <2>11
        <3>2. u[i] = q[i]
            <4>1. i \in 1 .. m - 1 + 1 /\ 1 + i - 1 = i
                BY <1>0, <2>2, <3>1
            <4>2. QED
                BY <2>10, <4>1
        <3>3. i \in 1 .. Len(p) + Len(r) /\ i \in 1 .. Len(p) + Len(s)
            BY <1>0, <2>2, <2>5, <3>1
        <3>4. CASE i <= Len(p)
            BY <2>6, <2>7, <3>2, <3>3, <3>4
        <3>5. CASE ~(i <= Len(p))
            <4>1. q[i] = r[i - Len(p)] /\ t[i] = s[i - Len(p)]
                BY <2>6, <2>7, <3>3, <3>5
            <4>2. i - Len(p) \in 1 .. n
                BY <1>0, <2>2, <3>1, <3>5
            <4>3. QED
                BY <2>5, <3>2, <4>1, <4>2
        <3>6. QED
            BY <3>4, <3>5
    <2>13. u = t
        BY <2>7, <2>10, <2>11, <2>12, SeqEqual
    <2>14. t \in Above(q)
        BY <2>8, <2>13 DEF Above, u
    <2>15. QED
        BY <2>4, <2>14 DEF q, t
<1>4. p \o <<>> = p /\ <<>> \in Seq(Nat)
    BY <1>0, ConcatEmptySeq
<1>5. <<>> \in DOMAIN Part(v, p)
    BY <1>2, <1>4
<1>6. ASSUME NEW r \in DOMAIN Part(v, p)
      PROVE  /\ Part(v, p)[r] \in [type : Counted \cup Uncounted, owner : {"main", "none"}]
             /\ Part(v, p)[r].owner = IF Part(v, p)[r].type \in Counted THEN "main" ELSE "none"
             /\ Above(r) \subseteq DOMAIN Part(v, p)
             /\ \A s \in Above(r) :
                /\ Part(v, p)[s].type \in Container
                /\ Part(v, p)[s].type = "IMMUTABLE_ARRAY" => Part(v, p)[r].type \notin Counted
    <2>1. p \o r \in DOMAIN v /\ Part(v, p)[r] = v[p \o r] /\ r \in Seq(Nat)
        BY <1>1
    <2>2. /\ Part(v, p)[r] \in [type : Counted \cup Uncounted, owner : {"main", "none"}]
          /\ Part(v, p)[r].owner = IF Part(v, p)[r].type \in Counted THEN "main" ELSE "none"
        BY <2>1 DEF OfMain
    <2>3. ASSUME NEW s \in Above(r)
          PROVE  /\ s \in DOMAIN Part(v, p)
                 /\ Part(v, p)[s].type \in Container
                 /\ Part(v, p)[s].type = "IMMUTABLE_ARRAY" => Part(v, p)[r].type \notin Counted
        <3>1. s \in Seq(Nat) /\ p \o s \in Above(p \o r)
            BY <1>3, <2>1
        <3>2. /\ p \o s \in DOMAIN v
              /\ v[p \o s].type \in Container
              /\ v[p \o s].type = "IMMUTABLE_ARRAY" => v[p \o r].type \notin Counted
            BY <2>1, <3>1 DEF OfMain
        <3>3. s \in DOMAIN Part(v, p)
            BY <1>2, <3>1, <3>2
        <3>4. Part(v, p)[s] = v[p \o s]
            BY <1>1, <3>3
        <3>5. QED
            BY <2>1, <3>2, <3>3, <3>4
    <2>4. QED
        BY <2>2, <2>3
<1>7. DOMAIN Part(v, p) \subseteq Seq(Nat)
    BY <1>1
<1>8. OfMain(Part(v, p))
    BY <1>5, <1>6, <1>7 DEF OfMain
<1>9. Part(v, p)[<<>>] = v[p]
    BY <1>1, <1>4, <1>5
<1>10. QED
    BY <1>8, <1>9

(* PH_ZVAL_DUP shares no more than objects, references and resources: a    *)
(* value it does not duplicate is one of these, or it is inside one, which *)
(* is shared itself, or inside an immutable array, where nothing counts.   *)
LEMMA DupShares ==
    ASSUME NEW v, OfMain(v)
    PROVE  SharedWithMain(ZvalDup(v)) \subseteq Shareable
PROOF
<1> DEFINE d == ZvalDup(v)
<1>1. DOMAIN d = DOMAIN v
    BY DEF ZvalDup
<1>2. \A p \in DOMAIN v :
        d[p] = IF v[p].type \in Duplicated /\ Reached(v, p)
               THEN [v[p] EXCEPT !.owner = "thread"] ELSE v[p]
    BY DEF ZvalDup, Own
<1> HIDE DEF d
<1>3. SUFFICES ASSUME NEW p \in DOMAIN v, Foreign(d[p]), \A q \in Above(p) : ~Foreign(d[q])
               PROVE  d[p].type \in Shareable
    BY <1>1 DEF SharedWithMain, d
<1>4. Above(p) \subseteq DOMAIN v
    BY DEF OfMain
<1>5. ASSUME v[p].type \in Duplicated, ~Reached(v, p), d[p] = v[p] PROVE FALSE
    <2>1. PICK q \in Above(p) : ~(ArrayDup(v[q].type) \/ AstCopy(v[q].type))
        BY <1>5 DEF Reached
    <2>2. v[q].type \in {"IMMUTABLE_ARRAY", "OBJECT", "REFERENCE"}
        BY <2>1 DEF OfMain, Container, ArrayDup, AstCopy
    <2>3. v[q].type # "IMMUTABLE_ARRAY"
        BY <1>3, <1>5 DEF OfMain, Foreign
    <2>4. v[q].type \in Counted /\ v[q].type \notin Duplicated
        BY <2>2, <2>3 DEF Counted, Duplicated
    <2>5. d[q] = v[q] /\ v[q].owner = "main"
        BY <1>2, <1>4, <2>4 DEF OfMain
    <2>6. QED
        BY <1>3, <2>4, <2>5 DEF Foreign
<1>6. CASE v[p].type \in Duplicated /\ Reached(v, p)
    <2>1. d[p] = [v[p] EXCEPT !.owner = "thread"]
        BY <1>2, <1>6
    <2>2. d[p].owner = "thread"
        BY <2>1 DEF OfMain
    <2>3. QED
        BY <1>3, <2>2 DEF Foreign
<1>7. CASE v[p].type \notin Duplicated
    BY <1>2, <1>3, <1>7 DEF Foreign, Counted, Duplicated, Shareable
<1>8. QED
    BY <1>2, <1>5, <1>6, <1>7

(* A value that is not counted, or null, shares nothing.                   *)
LEMMA UncountedShares ==
    ASSUME NEW v, OfMain(v), v[<<>>].type \notin Counted
    PROVE  SharedWithMain(v) = {}
PROOF
<1>1. SUFFICES ASSUME NEW p \in DOMAIN v, Foreign(v[p]) PROVE FALSE
    BY DEF SharedWithMain
<1>2. p \in Seq(Nat) /\ Len(p) \in Nat
    BY DEF OfMain
<1>3. p # <<>>
    BY <1>1 DEF Foreign
<1>4. Len(p) > 0
    BY <1>2, <1>3, EmptySeq
<1>5. <<>> \in Above(p)
    <2>1. SubSeq(p, 1, 0) = <<>>
        BY SubSeqEmpty
    <2>2. 0 \in 0 .. Len(p) - 1
        BY <1>2, <1>4
    <2>3. QED
        BY <2>1, <2>2 DEF Above
<1>6. v[<<>>].type \in Container /\ (v[<<>>].type = "IMMUTABLE_ARRAY" => v[p].type \notin Counted)
    BY <1>5 DEF OfMain
<1>7. QED
    BY <1>1, <1>6 DEF Container, Counted, Foreign

LEMMA PropShares ==
    ASSUME NEW v, OfMain(v)
    PROVE  SharedWithMain(CopyProp(v)) \subseteq Shareable
PROOF
<1>1. SharedWithMain(Null) = {}
    BY DEF SharedWithMain, Null, Foreign, Counted
<1>2. QED
    BY <1>1, DupShares, UncountedShares DEF CopyProp

(* A constant has no parts, so its name is a value of the main thread too. *)
LEMMA NameOfMain ==
    ASSUME NEW v, OfMain(v), NamedConstant(v)
    PROVE  OfMain(AsString(v))
PROOF
<1> DEFINE s == AsString(v)
<1>1. DOMAIN s = DOMAIN v /\ <<>> \in DOMAIN v
    BY DEF AsString, OfMain
<1>2. \A p \in DOMAIN v : p # <<>> => s[p] = v[p]
    BY DEF AsString
<1>3. s[<<>>] = [v[<<>>] EXCEPT !.type = "STRING"]
    BY <1>1 DEF AsString
<1>4. v[<<>>].type = "CONSTANT" /\ v[<<>>].owner = "main"
    BY <1>1 DEF NamedConstant, OfMain, Counted
<1>5. v[<<>>] \in [type : Counted \cup Uncounted, owner : {"main", "none"}]
    BY <1>1 DEF OfMain
<1>6. s[<<>>] = [type |-> "STRING", owner |-> "main"]
    BY <1>3, <1>4, <1>5
<1>7. \A p \in DOMAIN v : \A q \in Above(p) : q # <<>> /\ q \in DOMAIN v
    BY <1>4 DEF OfMain, Container
<1> HIDE DEF s
<1>8. ASSUME NEW p \in DOMAIN v
      PROVE  /\ s[p] \in [type : Counted \cup Uncounted, owner : {"main", "none"}]
             /\ s[p].owner = IF s[p].type \in Counted THEN "main" ELSE "none"
    <2>1. CASE p = <<>>
        BY <1>6, <2>1 DEF Counted
    <2>2. CASE p # <<>>
        BY <1>2, <2>2 DEF OfMain
    <2>3. QED
        BY <2>1, <2>2
<1>9. ASSUME NEW p \in DOMAIN v, NEW q \in Above(p)
      PROVE  s[q].type \in Container /\ (s[q].type = "IMMUTABLE_ARRAY" => s[p].type \notin Counted)
    <2>1. s[q] = v[q]
        BY <1>2, <1>7
    <2>2. v[q].type \in Container /\ (v[q].type = "IMMUTABLE_ARRAY" => v[p].type \notin Counted)
        BY DEF OfMain
    <2>3. p # <<>>
        BY <1>4, <1>7, <2>2 DEF Above
    <2>4. QED
        BY <1>2, <2>1, <2>2, <2>3
<1>10. DOMAIN s \subseteq Seq(Nat) /\ <<>> \in DOMAIN s
    BY <1>1 DEF OfMain
<1>11. \A p \in DOMAIN v : Above(p) \subseteq DOMAIN v
    BY DEF OfMain
<1>12. OfMain(s)
    BY <1>1, <1>8, <1>9, <1>10, <1>11 DEF OfMain
<1>13. QED
    BY <1>12 DEF s

LEMMA DataShares ==
    ASSUME NEW c \in Class, NEW v \in ClassData(c)
    PROVE  SharedWithMain(v) \subseteq Shareable
PROOF
<1>1. \A u \in Props[c] \cup Statics[c] \cup Literals[c] \cup Constants[c] : OfMain(u)
    BY ValueAssumption
<1>2. ASSUME NEW u \in Props[c], v = CopyProp(u) PROVE SharedWithMain(v) \subseteq Shareable
    BY <1>1, <1>2, PropShares
<1>3. ASSUME NEW u \in Statics[c], v = CopyStatic(u) PROVE SharedWithMain(v) \subseteq Shareable
    <2>1. Referred(u) # {}
        BY ValueAssumption
    <2>2. (CHOOSE p \in Referred(u) : TRUE) \in DOMAIN u
        BY <2>1 DEF Referred
    <2>3. OfMain(Deref(u))
        BY <1>1, <2>2, PartOfMain DEF Deref
    <2>4. CASE NamedConstant(Deref(u))
        BY <1>3, <2>3, <2>4, NameOfMain, PropShares DEF CopyStatic
    <2>5. CASE ~NamedConstant(Deref(u))
        BY <1>3, <2>3, <2>5, PropShares DEF CopyStatic
    <2>6. QED
        BY <2>4, <2>5
<1>4. ASSUME NEW u \in Literals[c], v = CopyLiteral(u) PROVE SharedWithMain(v) \subseteq Shareable
    <2>1. u[<<>>].type \notin Counted \ {"ARRAY", "CONSTANT_AST"}
        BY ValueAssumption
    <2>2. CASE u[<<>>].type \in {"ARRAY", "IMMUTABLE_ARRAY", "CONSTANT_AST"}
        BY <1>1, <1>4, <2>2, DupShares DEF CopyLiteral
    <2>3. CASE u[<<>>].type \notin {"ARRAY", "IMMUTABLE_ARRAY", "CONSTANT_AST"}
        BY <1>1, <1>4, <2>1, <2>3, UncountedShares DEF CopyLiteral
    <2>4. QED
        BY <2>2, <2>3
<1>5. ASSUME NEW u \in Constants[c], v = ZvalDup(u) PROVE SharedWithMain(v) \subseteq Shareable
    BY <1>1, <1>5, DupShares
<1>6. QED
    BY <1>2, <1>3, <1>4, <1>5 DEF ClassData, MethodData, ConstantData

-----------------------------------------------------------------------------
(* One worker.  What holds of its class table t and of the classes it has  *)
(* made, ms, and is making, st, when it is at entry e of the class table   *)
(* cs of the main thread.                                                  *)
AnyLink == Internal \cup {NoClass} \cup Nat
Frame == [class : Class \ Anonymous, links : Seq(AnyLink)]
Copy == [class : Class \ Anonymous, links : Seq(AnyLink), data : {ClassData(c) : c \in Class}]

LocalTypes(cs, e, st, ms, t) ==
    /\ cs \in Seq(Class) /\ e \in 1 .. Len(cs) + 1
    /\ st \in Seq(Frame) /\ ms \in Seq(Copy) /\ t \in [Class -> 0 .. Len(ms)]
    /\ \A d \in 1 .. Len(st) : \A k \in 1 .. Len(st[d].links) : st[d].links[k] \in Link(Len(ms))
    /\ \A i \in 1 .. Len(ms) : \A k \in 1 .. Len(ms[i].links) : ms[i].links[k] \in Link(i - 1)

(* The name of what a link leads to.                                       *)
Name(ms, ce) == IF ce \in Internal \cup {NoClass} THEN ce ELSE ms[ce].class
(* The links that r has so far are those of its class.                     *)
Alike(ms, r) ==
    /\ Len(r.links) <= Len(Links[r.class])
    /\ \A k \in 1 .. Len(r.links) : Name(ms, r.links[k]) = Links[r.class][k]

Made(ms, t) ==
    /\ \A i \in 1 .. Len(ms) :
        /\ Alike(ms, ms[i]) /\ Len(ms[i].links) = Len(Links[ms[i].class])
        /\ ms[i].data = ClassData(ms[i].class)
    /\ \A c \in Class : t[c] # NotThere => ms[t[c]].class = c

(* Each class that is being made is the next link of the one before it,    *)
(* the first of them is the one of the entry.  None is in the table.       *)
Nested(cs, e, st, ms, t) ==
    /\ st # <<>> => e <= Len(cs) /\ st[1].class = cs[e]
    /\ \A d \in 1 .. Len(st) : Alike(ms, st[d]) /\ t[st[d].class] = NotThere
    /\ \A d \in 1 .. Len(st) - 1 :
        /\ Len(st[d].links) < Len(Links[st[d].class])
        /\ Links[st[d].class][Len(st[d].links) + 1] = st[d + 1].class

EntriesCopied(cs, e, t) == \A i \in 1 .. e - 1 : cs[i] \notin Anonymous => t[cs[i]] # NotThere

Sorted(cs) ==
    \A i \in 1 .. Len(cs) : \A k \in 1 .. Len(Links[cs[i]]) :
        Links[cs[i]][k] \in Class => \E j \in 1 .. i - 1 : cs[j] = Links[cs[i]][k]
InTable(t, c) == IF c \notin Class THEN c ELSE t[c]
(* The links that r has so far lead to the classes in the table.           *)
Settled(t, r) == \A k \in 1 .. Len(r.links) : r.links[k] = InTable(t, Links[r.class][k])
(* If classes come after those they mention, a class is only ever made for *)
(* the table.                                                              *)
Single(cs, st, ms, t) ==
    Sorted(cs) =>
        /\ Len(st) <= 1
        /\ \A d \in 1 .. Len(st) : Settled(t, st[d])
        /\ \A i \in 1 .. Len(ms) : t[ms[i].class] = i /\ Settled(t, ms[i])

Local(cs, e, st, ms, t) ==
    /\ LocalTypes(cs, e, st, ms, t)
    /\ Made(ms, t)
    /\ Nested(cs, e, st, ms, t)
    /\ EntriesCopied(cs, e, t)
    /\ Single(cs, st, ms, t)

(* What copy_ce is called with, and when it is.                            *)
Looking(cs, e, st) ==
    IF st = <<>> THEN e <= Len(cs) ELSE Len(st[Len(st)].links) < Len(Links[st[Len(st)].class])
Wanted(cs, e, st) ==
    IF st = <<>> THEN cs[e] ELSE Links[st[Len(st)].class][Len(st[Len(st)].links) + 1]

Steps9 == 1 .. 9    \* the domain of Steps

(* The invariant.                                                          *)
StateTypes ==
    /\ main \in {"spawn", "spin", "script"}
    /\ created \in 0 .. ThreadCount /\ (main = "spawn" => created < ThreadCount)
    /\ classes \in Seq(Class) /\ symbols \in [Table -> SUBSET Symbol]
    /\ at \in [Worker -> {"none"} \cup {Steps[i] : i \in Steps9}]
    /\ entry \in [Worker -> Nat] /\ stack \in [Worker -> Seq(Frame)]
    /\ copies \in [Worker -> Seq(Copy)] /\ table \in [Worker -> [Class -> Nat]]
    /\ own \in [Worker -> [Table -> SUBSET Symbol]]
    /\ seen \in [Worker -> 0 .. ThreadCount]
    /\ lock \in Worker \cup {NoThread}
    /\ prepared \in 0 .. ThreadCount

(* The lock excludes, so the count is that of the workers in their loops.  *)
Looping == {w \in Worker : at[w] = "loop"}
Counting ==
    /\ \A w \in Worker : at[w] \in {"read", "write"} <=> lock = w
    /\ \A w \in Worker : at[w] = "write" => seen[w] = prepared
    /\ prepared = Cardinality(Looping)

(* The world stands still until all are in their loops.                    *)
Waits ==
    /\ main # "script" => classes \in Orders /\ symbols = Early
    /\ main = "script" => \A w \in Worker : at[w] = "loop"
    /\ \A w \in Worker : w >= created => at[w] = "none"

AllEarlyIn(t) == \A o \in Orders : \A i \in 1 .. Len(o) : o[i] \notin Anonymous => t[o[i]] # NotThere
(* A worker at a has copied what it has behind it.                         *)
Behind(a, ow, t) ==
    \A i \in Steps9 : a = Steps[i] =>
        \A j \in 1 .. i - 1 :
            /\ Steps[j] \in Table => Early[Steps[j]] \subseteq ow[Steps[j]]
            /\ Steps[j] = "class_table" => AllEarlyIn(t)
Progress(a, cs, e, st, ms, t, ow) ==
    /\ Local(cs, e, st, ms, t)
    /\ a # "class_table" => st = <<>>
    /\ Behind(a, ow, t)
Copied ==
    \A w \in Worker : Progress(at[w], classes, entry[w], stack[w], copies[w], table[w], own[w])

Inv == StateTypes /\ Counting /\ Waits /\ Copied

-----------------------------------------------------------------------------
(* What copy_ce looks for is a class or what every thread has, and the     *)
(* anonymous classes are only found as entries.                            *)
LEMMA LinkTypes ==
    ASSUME NEW r \in Class, NEW k \in 1 .. Len(Links[r])
    PROVE  Links[r][k] \in (Class \ Anonymous) \cup Internal \cup {NoClass}
PROOF
<1>1. Links[r] \in Seq((Class \ Anonymous) \cup Internal \cup {NoClass})
    BY ClassAssumption
<1>2. QED
    BY <1>1, ElementOfSeq

(* A class, unlike all else a link may lead to, is not its own copy.       *)
LEMMA Disjoint == (Internal \cup {NoClass}) \cap Int = {} /\ (Internal \cup {NoClass}) \cap Class = {}
PROOF BY ClassAssumption

LEMMA CopyFields ==
    ASSUME NEW ms \in Seq(Copy), NEW i \in 1 .. Len(ms)
    PROVE  /\ ms[i] \in Copy
           /\ ms[i].class \in Class \ Anonymous /\ ms[i].links \in Seq(AnyLink)
           /\ Len(ms[i].links) \in Nat
PROOF
<1>1. ms[i] \in Copy
    BY ElementOfSeq
<1>2. ms[i].class \in Class \ Anonymous /\ ms[i].links \in Seq(AnyLink)
    BY <1>1 DEF Copy
<1>3. QED
    BY <1>1, <1>2

LEMMA FrameFields ==
    ASSUME NEW st \in Seq(Frame), NEW d \in 1 .. Len(st)
    PROVE  /\ st[d] \in Frame
           /\ st[d].class \in Class \ Anonymous /\ st[d].links \in Seq(AnyLink)
           /\ Len(st[d].links) \in Nat
PROOF
<1>1. st[d] \in Frame
    BY ElementOfSeq
<1>2. st[d].class \in Class \ Anonymous /\ st[d].links \in Seq(AnyLink)
    BY <1>1 DEF Frame
<1>3. QED
    BY <1>1, <1>2

LEMMA LenLinks ==
    ASSUME NEW c \in Class
    PROVE  Len(Links[c]) \in Nat
PROOF
<1>1. Links[c] \in Seq((Class \ Anonymous) \cup Internal \cup {NoClass})
    BY ClassAssumption
<1>2. QED
    BY <1>1

(* copy_ce has returned ce for the next link of the class being made.      *)
LEMMA Delivered ==
    ASSUME NEW cs, NEW e, NEW st, NEW ms, NEW t, Local(cs, e, st, ms, t),
           st # <<>>, Looking(cs, e, st),
           NEW ce \in Link(Len(ms)), Name(ms, ce) = Wanted(cs, e, st),
           Sorted(cs) => ce = InTable(t, Wanted(cs, e, st))
    PROVE  Local(cs, e, [st EXCEPT ![Len(st)] = [st[Len(st)] EXCEPT !.links = Append(@, ce)]], ms, t)
PROOF
<1> DEFINE n == Len(st)
           f == st[n]
           g == [f EXCEPT !.links = Append(@, ce)]
           st2 == [st EXCEPT ![n] = g]
<1>0. LocalTypes(cs, e, st, ms, t) /\ Made(ms, t) /\ Nested(cs, e, st, ms, t)
      /\ EntriesCopied(cs, e, t) /\ Single(cs, st, ms, t)
    BY DEF Local
<1>1. st \in Seq(Frame) /\ ms \in Seq(Copy) /\ Len(ms) \in Nat
    BY <1>0 DEF LocalTypes
<1>2. n \in Nat /\ n > 0
    BY <1>1, EmptySeq
<1>3. n \in 1 .. n
    BY <1>2
<1>4. f \in Frame /\ f.class \in Class \ Anonymous /\ f.links \in Seq(AnyLink) /\ Len(f.links) \in Nat
    BY <1>1, <1>3, FrameFields
<1>5. ce \in AnyLink
    BY <1>1 DEF Link, AnyLink
<1>6. /\ Append(f.links, ce) \in Seq(AnyLink)
      /\ Len(Append(f.links, ce)) = Len(f.links) + 1
      /\ \A k \in 1 .. Len(f.links) : Append(f.links, ce)[k] = f.links[k]
      /\ Append(f.links, ce)[Len(f.links) + 1] = ce
    BY <1>4, <1>5, AppendProperties
<1>7. g \in Frame /\ g.class = f.class /\ g.links = Append(f.links, ce)
    BY <1>4, <1>6 DEF Frame
<1> HIDE DEF g
<1>8. /\ st2 \in Seq(Frame) /\ Len(st2) = n
      /\ \A d \in 1 .. n : st2[d] = IF d = n THEN g ELSE st[d]
    BY <1>1, <1>3, <1>7, ExceptSeq
<1> HIDE DEF st2, n, f
<1>9. Len(f.links) < Len(Links[f.class])
    BY DEF Looking, n, f
<1>10. Wanted(cs, e, st) = Links[f.class][Len(f.links) + 1]
    BY DEF Wanted, n, f
<1>11. \A k \in 1 .. Len(g.links) : (k \in 1 .. Len(f.links) /\ g.links[k] = f.links[k])
                                    \/ (k = Len(f.links) + 1 /\ g.links[k] = ce)
    BY <1>4, <1>6, <1>7
<1>12. \A k \in 1 .. Len(f.links) : f.links[k] \in Link(Len(ms))
    BY <1>0, <1>3 DEF LocalTypes, n, f
<1>13. LocalTypes(cs, e, st2, ms, t)
    <2>1. \A d \in 1 .. Len(st2) : \A k \in 1 .. Len(st2[d].links) : st2[d].links[k] \in Link(Len(ms))
        <3>1. ASSUME NEW d \in 1 .. n PROVE \A k \in 1 .. Len(st2[d].links) : st2[d].links[k] \in Link(Len(ms))
            <4>1. CASE d = n
                BY <1>8, <1>11, <1>12, <4>1
            <4>2. CASE d # n
                BY <1>0, <1>8, <4>2 DEF LocalTypes, n
            <4>3. QED
                BY <4>1, <4>2
        <3>2. QED
            BY <1>8, <3>1
    <2>2. QED
        BY <1>0, <1>8, <2>1 DEF LocalTypes
<1>14. Alike(ms, f) /\ t[f.class] = NotThere
    BY <1>0, <1>3 DEF Nested, n, f
<1>15. Alike(ms, g)
    <2>1. Len(Links[f.class]) \in Nat
        BY <1>4, LenLinks
    <2>2. Len(g.links) <= Len(Links[g.class])
        BY <1>4, <1>6, <1>7, <1>9, <2>1
    <2>3. ASSUME NEW k \in 1 .. Len(g.links) PROVE Name(ms, g.links[k]) = Links[g.class][k]
        BY <1>7, <1>10, <1>11, <1>14 DEF Alike
    <2>4. QED
        BY <2>2, <2>3 DEF Alike
<1>16. Nested(cs, e, st2, ms, t)
    <2>1. \A d \in 1 .. n : st2[d].class = st[d].class
        BY <1>7, <1>8 DEF f
    <2>2. st2 # <<>> => e <= Len(cs) /\ st2[1].class = cs[e]
        <3>1. 1 \in 1 .. n
            BY <1>2
        <3>2. QED
            BY <1>0, <2>1, <3>1 DEF Nested
    <2>3. ASSUME NEW d \in 1 .. n PROVE Alike(ms, st2[d]) /\ t[st2[d].class] = NotThere
        <3>1. CASE d = n
            BY <1>7, <1>8, <1>14, <1>15, <3>1
        <3>2. CASE d # n
            BY <1>0, <1>8, <3>2 DEF Nested, n
        <3>3. QED
            BY <3>1, <3>2
    <2>4. ASSUME NEW d \in 1 .. n - 1
          PROVE  /\ Len(st2[d].links) < Len(Links[st2[d].class])
                 /\ Links[st2[d].class][Len(st2[d].links) + 1] = st2[d + 1].class
        <3>1. d \in 1 .. n /\ d # n /\ d + 1 \in 1 .. n
            BY <1>2
        <3>2. st2[d] = st[d] /\ st2[d + 1].class = st[d + 1].class
            BY <1>8, <2>1, <3>1
        <3>3. QED
            BY <1>0, <3>2 DEF Nested, n
    <2>5. QED
        BY <1>8, <2>2, <2>3, <2>4 DEF Nested
<1>17. Single(cs, st2, ms, t)
    <2>1. SUFFICES ASSUME Sorted(cs)
                   PROVE  /\ Len(st2) <= 1
                          /\ \A d \in 1 .. Len(st2) : Settled(t, st2[d])
                          /\ \A i \in 1 .. Len(ms) : t[ms[i].class] = i /\ Settled(t, ms[i])
        BY DEF Single
    <2>2. /\ n <= 1
          /\ \A d \in 1 .. n : Settled(t, st[d])
          /\ \A i \in 1 .. Len(ms) : t[ms[i].class] = i /\ Settled(t, ms[i])
        BY <1>0, <2>1 DEF Single, n
    <2>3. Settled(t, f)
        BY <1>3, <2>2 DEF f
    <2>4. Settled(t, g)
        BY <1>7, <1>10, <1>11, <2>1, <2>3 DEF Settled
    <2>5. \A d \in 1 .. n : Settled(t, st2[d])
        BY <1>8, <2>2, <2>4
    <2>6. QED
        BY <1>8, <2>2, <2>5
<1>18. Local(cs, e, st2, ms, t)
    BY <1>0, <1>13, <1>16, <1>17 DEF Local
<1>19. QED
    BY <1>18 DEF st2, g, f, n

(* Where copy_ce does not make a class, it returns what the link is to be. *)
LEMMA FoundLink ==
    ASSUME NEW cs, NEW e, NEW st, NEW ms, NEW t, Local(cs, e, st, ms, t),
           st # <<>>, Looking(cs, e, st), ~Absent(t, Wanted(cs, e, st))
    PROVE  /\ CopyOf(t, Wanted(cs, e, st)) \in Link(Len(ms))
           /\ Name(ms, CopyOf(t, Wanted(cs, e, st))) = Wanted(cs, e, st)
           /\ CopyOf(t, Wanted(cs, e, st)) = InTable(t, Wanted(cs, e, st))
PROOF
<1> DEFINE W == Wanted(cs, e, st)
<1>0. LocalTypes(cs, e, st, ms, t) /\ Made(ms, t)
    BY DEF Local
<1>1. st \in Seq(Frame) /\ ms \in Seq(Copy) /\ Len(ms) \in Nat /\ t \in [Class -> 0 .. Len(ms)]
    BY <1>0 DEF LocalTypes
<1>2. W \in (Class \ Anonymous) \cup Internal \cup {NoClass}
    <2>1. Len(st) \in 1 .. Len(st)
        BY <1>1, EmptySeq
    <2> DEFINE f == st[Len(st)]
    <2>2. f.class \in Class /\ Len(f.links) \in Nat
        BY <1>1, <2>1, FrameFields
    <2>3. Len(Links[f.class]) \in Nat
        BY <2>2, LenLinks
    <2>4. W = Links[f.class][Len(f.links) + 1] /\ Len(f.links) < Len(Links[f.class])
        BY DEF Wanted, Looking
    <2> HIDE DEF f, W
    <2>5. Len(f.links) + 1 \in 1 .. Len(Links[f.class])
        BY <2>2, <2>3, <2>4
    <2>6. QED
        BY <2>2, <2>4, <2>5, LinkTypes
<1> HIDE DEF W
<1>3. CASE W \in Class
    <2>1. ~Skipped(W) /\ t[W] # NotThere
        BY <1>2, <1>3, Disjoint DEF Absent, Skipped, Found, W
    <2>2. CopyOf(t, W) = t[W] /\ InTable(t, W) = t[W]
        BY <1>3, <2>1 DEF CopyOf, InTable, Found
    <2>3. t[W] \in 1 .. Len(ms)
        BY <1>1, <1>3, <2>1 DEF NotThere
    <2>4. ms[t[W]].class = W
        BY <1>0, <1>3, <2>1 DEF Made
    <2>5. t[W] \notin Internal \cup {NoClass}
        BY <2>3, Disjoint
    <2>6. QED
        BY <2>2, <2>3, <2>4, <2>5 DEF Link, Name, W
<1>4. CASE W \notin Class
    BY <1>2, <1>4 DEF CopyOf, InTable, Link, Name, W
<1>5. QED
    BY <1>3, <1>4

(* An entry for which copy_ce makes no class: it is in the table already,  *)
(* or it is anonymous.                                                     *)
LEMMA FoundEntry ==
    ASSUME NEW cs, NEW e, NEW ms, NEW t, Local(cs, e, <<>>, ms, t),
           e <= Len(cs), ~Absent(t, cs[e])
    PROVE  /\ CopyOf(t, cs[e]) # NoClass => [t EXCEPT ![cs[e]] = CopyOf(t, cs[e])] = t
           /\ Local(cs, e + 1, <<>>, ms, t)
PROOF
<1>0. LocalTypes(cs, e, <<>>, ms, t) /\ Made(ms, t) /\ EntriesCopied(cs, e, t) /\ Single(cs, <<>>, ms, t)
    BY DEF Local
<1>1. cs \in Seq(Class) /\ Len(cs) \in Nat /\ e \in 1 .. Len(cs) + 1 /\ t \in [Class -> 0 .. Len(ms)]
    BY <1>0 DEF LocalTypes
<1>2. e \in 1 .. Len(cs) /\ e + 1 \in 1 .. Len(cs) + 1
    BY <1>1
<1>3. cs[e] \in Class
    BY <1>1, <1>2, ElementOfSeq
<1>4. CopyOf(t, cs[e]) # NoClass => CopyOf(t, cs[e]) = t[cs[e]]
    BY <1>3 DEF CopyOf, Found
<1>5. cs[e] \notin Anonymous => t[cs[e]] # NotThere
    BY <1>3 DEF Absent, Skipped, Found
<1>6. EntriesCopied(cs, e + 1, t)
    <2>1. SUFFICES ASSUME NEW i \in 1 .. e + 1 - 1, cs[i] \notin Anonymous
                   PROVE  t[cs[i]] # NotThere
        BY <1>2 DEF EntriesCopied
    <2>2. i \in 1 .. e - 1 \/ i = e
        BY <1>2
    <2>3. QED
        BY <1>0, <1>5, <2>1, <2>2 DEF EntriesCopied
<1>7. LocalTypes(cs, e + 1, <<>>, ms, t)
    BY <1>0, <1>2 DEF LocalTypes
<1>8. Nested(cs, e + 1, <<>>, ms, t)
    BY EmptySeq DEF Nested
<1>9. QED
    BY <1>0, <1>1, <1>3, <1>4, <1>6, <1>7, <1>8 DEF Local

(* A class has to be made.  If classes come after those they mention, it   *)
(* is the one of the entry.                                                *)
LEMMA Pushed ==
    ASSUME NEW cs, NEW e, NEW st, NEW ms, NEW t, Local(cs, e, st, ms, t),
           Looking(cs, e, st), Absent(t, Wanted(cs, e, st))
    PROVE  Local(cs, e, Append(st, [class |-> Wanted(cs, e, st), links |-> <<>>]), ms, t)
PROOF
<1> DEFINE W == Wanted(cs, e, st)
           n == Len(st)
           g == [class |-> W, links |-> <<>>]
           st2 == Append(st, g)
<1>0. LocalTypes(cs, e, st, ms, t) /\ Made(ms, t) /\ Nested(cs, e, st, ms, t)
      /\ EntriesCopied(cs, e, t) /\ Single(cs, st, ms, t)
    BY DEF Local
<1>1. /\ st \in Seq(Frame) /\ n \in Nat /\ ms \in Seq(Copy)
      /\ cs \in Seq(Class) /\ Len(cs) \in Nat /\ e \in 1 .. Len(cs) + 1
    BY <1>0 DEF LocalTypes
<1>2. W \in Class \ Anonymous /\ t[W] = NotThere
    BY DEF Absent, Skipped, Found
<1>3. g \in Frame /\ g.class = W /\ g.links = <<>> /\ Len(g.links) = 0
    BY <1>2, EmptySeq DEF Frame
<1> HIDE DEF g, W
<1>4. /\ st2 \in Seq(Frame) /\ Len(st2) = n + 1
      /\ \A d \in 1 .. n : st2[d] = st[d]
      /\ st2[n + 1] = g
    BY <1>1, <1>3, AppendProperties
<1> HIDE DEF st2
<1>5. \A d \in 1 .. Len(st2) : (d \in 1 .. n /\ st2[d] = st[d]) \/ (d = n + 1 /\ st2[d] = g)
    BY <1>1, <1>4
<1>6. LocalTypes(cs, e, st2, ms, t)
    <2>1. \A k \in 1 .. Len(g.links) : g.links[k] \in Link(Len(ms))
        BY <1>3
    <2>2. \A d \in 1 .. Len(st2) : \A k \in 1 .. Len(st2[d].links) : st2[d].links[k] \in Link(Len(ms))
        BY <1>0, <1>5, <2>1 DEF LocalTypes
    <2>3. QED
        BY <1>0, <1>4, <2>2 DEF LocalTypes
<1>7. Alike(ms, g) /\ t[g.class] = NotThere
    <2>1. Len(Links[W]) \in Nat
        BY <1>2, LenLinks
    <2>2. QED
        BY <1>2, <1>3, <2>1 DEF Alike
<1>8. e <= Len(cs) /\ st2[1].class = cs[e]
    <2>1. CASE st = <<>>
        <3>1. n = 0
            BY <2>1, EmptySeq
        <3>2. st2[1] = g
            BY <1>4, <3>1
        <3>3. QED
            BY <1>3, <2>1, <3>2 DEF Looking, Wanted, W
    <2>2. CASE st # <<>>
        <3>1. 1 \in 1 .. n
            BY <1>1, <2>2, EmptySeq
        <3>2. QED
            BY <1>0, <1>4, <2>2, <3>1 DEF Nested
    <2>3. QED
        BY <2>1, <2>2
<1>9. Nested(cs, e, st2, ms, t)
    <2>1. \A d \in 1 .. Len(st2) : Alike(ms, st2[d]) /\ t[st2[d].class] = NotThere
        BY <1>0, <1>5, <1>7 DEF Nested
    <2>2. ASSUME NEW d \in 1 .. Len(st2) - 1
          PROVE  /\ Len(st2[d].links) < Len(Links[st2[d].class])
                 /\ Links[st2[d].class][Len(st2[d].links) + 1] = st2[d + 1].class
        <3>1. d \in 1 .. n
            BY <1>1, <1>4
        <3>2. CASE d = n
            <4>1. st # <<>>
                BY <3>1, EmptySeq
            <4>2. st2[d] = st[n] /\ st2[d + 1] = g
                BY <1>1, <1>4, <3>1, <3>2
            <4>3. QED
                BY <1>3, <4>1, <4>2 DEF Looking, Wanted, W, n
        <3>3. CASE d # n
            <4>1. d \in 1 .. n - 1 /\ d + 1 \in 1 .. n
                BY <1>1, <3>1, <3>3
            <4>2. st2[d] = st[d] /\ st2[d + 1] = st[d + 1]
                BY <1>4, <3>1, <4>1
            <4>3. QED
                BY <1>0, <4>1, <4>2 DEF Nested
        <3>4. QED
            BY <3>2, <3>3
    <2>3. QED
        BY <1>8, <2>1, <2>2 DEF Nested
<1>10. Single(cs, st2, ms, t)
    <2>1. SUFFICES ASSUME Sorted(cs)
                   PROVE  /\ Len(st2) <= 1
                          /\ \A d \in 1 .. Len(st2) : Settled(t, st2[d])
                          /\ \A i \in 1 .. Len(ms) : t[ms[i].class] = i /\ Settled(t, ms[i])
        BY DEF Single
    <2>2. /\ n <= 1
          /\ \A i \in 1 .. Len(ms) : t[ms[i].class] = i /\ Settled(t, ms[i])
        BY <1>0, <2>1 DEF Single
    <2>3. ASSUME st # <<>> PROVE FALSE
        <3>0. n # 0
            BY <1>1, <2>3, EmptySeq
        <3> HIDE DEF n
        <3>1. n = 1 /\ 1 \in 1 .. n
            <4>1. n \in Nat /\ n <= 1
                BY <1>1, <2>2
            <4>2. QED
                BY <3>0, <4>1
        <3>2. e <= Len(cs) /\ st[1].class = cs[e]
            BY <1>0, <2>3 DEF Nested
        <3>3. st[1].class \in Class /\ Len(st[1].links) \in Nat
            BY <1>1, <3>1, FrameFields DEF n
        <3>4. W = Links[cs[e]][Len(st[1].links) + 1] /\ Len(st[1].links) < Len(Links[cs[e]])
            BY <2>3, <3>1, <3>2 DEF Looking, Wanted, W, n
        <3>5. Len(Links[cs[e]]) \in Nat
            BY <3>2, <3>3, LenLinks
        <3>6. Len(st[1].links) + 1 \in 1 .. Len(Links[cs[e]])
            BY <3>3, <3>4, <3>5
        <3>7. e \in 1 .. Len(cs)
            BY <1>1, <3>2
        <3>8. PICK j \in 1 .. e - 1 : cs[j] = W
            BY <1>2, <2>1, <3>4, <3>6, <3>7 DEF Sorted
        <3>9. QED
            BY <1>0, <1>2, <3>8 DEF EntriesCopied
    <2>4. n = 0
        BY <2>3, EmptySeq
    <2>5. Len(st2) <= 1
        BY <1>4, <2>4
    <2>6. \A d \in 1 .. Len(st2) : Settled(t, st2[d])
        BY <1>3, <1>5, <2>4 DEF Settled
    <2>7. QED
        BY <2>2, <2>5, <2>6
<1>11. Local(cs, e, st2, ms, t)
    BY <1>0, <1>6, <1>9, <1>10 DEF Local
<1>12. QED
    BY <1>11 DEF st2, g, W

-----------------------------------------------------------------------------
(* A class is finished: it becomes the last of ms.                         *)
Finished(f) == [class |-> f.class, links |-> f.links, data |-> ClassData(f.class)]

(* What is known of ms outlives the addition of one more.                  *)
AddedTo(ms, t, f, ms2) ==
    /\ ms2 \in Seq(Copy) /\ Len(ms2) = Len(ms) + 1
    /\ \A i \in 1 .. Len(ms) : ms2[i] = ms[i]
    /\ ms2[Len(ms) + 1] = Finished(f)
    /\ \A i \in 1 .. Len(ms2) : \A k \in 1 .. Len(ms2[i].links) : ms2[i].links[k] \in Link(i - 1)
    /\ \A ce \in Link(Len(ms)) : Name(ms2, ce) = Name(ms, ce)
    /\ Made(ms2, t)
    /\ \A i \in 1 .. Len(ms2) :
         /\ Alike(ms2, ms2[i]) /\ Len(ms2[i].links) = Len(Links[ms2[i].class])
         /\ ms2[i].data = ClassData(ms2[i].class)
    /\ \A r : Alike(ms, r) /\ (\A k \in 1 .. Len(r.links) : r.links[k] \in Link(Len(ms)))
                 => Alike(ms2, r)

LEMMA Added ==
    ASSUME NEW cs, NEW e, NEW st, NEW ms, NEW t, Local(cs, e, st, ms, t),
           NEW f \in Frame, Alike(ms, f), Len(f.links) = Len(Links[f.class]),
           \A k \in 1 .. Len(f.links) : f.links[k] \in Link(Len(ms))
    PROVE  AddedTo(ms, t, f, Append(ms, Finished(f)))
PROOF
<1> DEFINE ms2 == Append(ms, Finished(f))
<1>0. LocalTypes(cs, e, st, ms, t) /\ Made(ms, t)
    BY DEF Local
<1>1. ms \in Seq(Copy) /\ Len(ms) \in Nat /\ t \in [Class -> 0 .. Len(ms)]
    BY <1>0 DEF LocalTypes
<1>2. /\ Finished(f) \in Copy /\ Finished(f).class = f.class /\ Finished(f).links = f.links
      /\ Finished(f).data = ClassData(f.class)
    BY DEF Frame, Copy, Finished
<1>3. /\ ms2 \in Seq(Copy) /\ Len(ms2) = Len(ms) + 1
      /\ \A i \in 1 .. Len(ms) : ms2[i] = ms[i]
      /\ ms2[Len(ms) + 1] = Finished(f)
    BY <1>1, <1>2, AppendProperties
<1> HIDE DEF ms2
<1>4. \A i \in 1 .. Len(ms2) : (i \in 1 .. Len(ms) /\ ms2[i] = ms[i])
                               \/ (i = Len(ms) + 1 /\ i - 1 = Len(ms) /\ ms2[i] = Finished(f))
    BY <1>1, <1>3
<1>5. \A i \in 1 .. Len(ms2) : \A k \in 1 .. Len(ms2[i].links) : ms2[i].links[k] \in Link(i - 1)
    <2>1. SUFFICES ASSUME NEW i \in 1 .. Len(ms2)
                   PROVE  \A k \in 1 .. Len(ms2[i].links) : ms2[i].links[k] \in Link(i - 1)
        OBVIOUS
    <2>2. CASE i \in 1 .. Len(ms) /\ ms2[i] = ms[i]
        BY <1>0, <2>2 DEF LocalTypes
    <2>3. CASE i - 1 = Len(ms) /\ ms2[i] = Finished(f)
        BY <1>2, <2>3
    <2>4. QED
        BY <1>4, <2>2, <2>3
<1>6. \A ce \in Link(Len(ms)) : Name(ms2, ce) = Name(ms, ce)
    BY <1>3 DEF Link, Name
<1>7. \A r : Alike(ms, r) /\ (\A k \in 1 .. Len(r.links) : r.links[k] \in Link(Len(ms)))
                => Alike(ms2, r)
    BY <1>6 DEF Alike
<1>8. ASSUME NEW i \in 1 .. Len(ms2)
      PROVE  /\ Alike(ms2, ms2[i]) /\ Len(ms2[i].links) = Len(Links[ms2[i].class])
             /\ ms2[i].data = ClassData(ms2[i].class)
    <2>1. CASE i \in 1 .. Len(ms) /\ ms2[i] = ms[i]
        <3>1. /\ Alike(ms, ms[i]) /\ Len(ms[i].links) = Len(Links[ms[i].class])
              /\ ms[i].data = ClassData(ms[i].class)
            BY <1>0, <2>1 DEF Made
        <3>2. \A k \in 1 .. Len(ms[i].links) : ms[i].links[k] \in Link(Len(ms))
            <4>1. \A k \in 1 .. Len(ms[i].links) : ms[i].links[k] \in Link(i - 1)
                BY <1>0, <2>1 DEF LocalTypes
            <4>2. Link(i - 1) \subseteq Link(Len(ms))
                <5>1. 1 .. i - 1 \subseteq 1 .. Len(ms)
                    BY <1>1, <2>1
                <5>2. QED
                    BY <5>1 DEF Link
            <4>3. QED
                BY <4>1, <4>2
        <3>3. QED
            BY <1>7, <2>1, <3>1, <3>2
    <2>2. CASE ms2[i] = Finished(f)
        <3>1. Alike(ms2, f)
            BY <1>7
        <3>2. QED
            BY <1>2, <2>2, <3>1 DEF Alike
    <2>3. QED
        BY <1>4, <2>1, <2>2
<1>9. Made(ms2, t)
    <2>1. ASSUME NEW c \in Class, t[c] # NotThere PROVE ms2[t[c]].class = c
        <3>1. t[c] \in 1 .. Len(ms)
            BY <1>1, <2>1 DEF NotThere
        <3>2. QED
            BY <1>0, <1>3, <2>1, <3>1 DEF Made
    <2>2. QED
        BY <1>8, <2>1 DEF Made
<1>10. QED
    BY <1>3, <1>5, <1>6, <1>7, <1>8, <1>9 DEF AddedTo, ms2

(* A class that was made for another one: it is its next link.             *)
LEMMA Popped ==
    ASSUME NEW cs, NEW e, NEW st, NEW ms, NEW t, Local(cs, e, st, ms, t),
           Len(st) > 1, Len(st[Len(st)].links) = Len(Links[st[Len(st)].class])
    PROVE  LET callers == SubSeq(st, 1, Len(st) - 1)
               ms2 == Append(ms, Finished(st[Len(st)]))
           IN  /\ callers # <<>> /\ Local(cs, e, callers, ms2, t)
               /\ Looking(cs, e, callers)
               /\ Len(ms) + 1 \in Link(Len(ms2))
               /\ Name(ms2, Len(ms) + 1) = Wanted(cs, e, callers)
               /\ ~Sorted(cs)
PROOF
<1> DEFINE n == Len(st)
           f == st[n]
           callers == SubSeq(st, 1, n - 1)
           ms2 == Append(ms, Finished(f))
<1>0. LocalTypes(cs, e, st, ms, t) /\ Made(ms, t) /\ Nested(cs, e, st, ms, t)
      /\ EntriesCopied(cs, e, t) /\ Single(cs, st, ms, t)
    BY DEF Local
<1>1. st \in Seq(Frame) /\ n \in Nat /\ ms \in Seq(Copy) /\ Len(ms) \in Nat
      /\ t \in [Class -> 0 .. Len(ms)]
    BY <1>0 DEF LocalTypes
<1>2. n \in 1 .. n /\ n - 1 \in 1 .. n /\ n - 1 + 1 = n /\ n - 1 \in 1 .. n - 1 /\ n - 1 \in Nat /\ n - 1 # 0
    BY <1>1
<1>3. f \in Frame
    BY <1>1, <1>2, FrameFields
<1>4. /\ callers \in Seq(Frame) /\ Len(callers) = n - 1
      /\ \A d \in 1 .. n - 1 : callers[d] = st[d]
    <2>1. \A d \in 1 .. n - 1 : st[d] \in Frame
        BY <1>1, ElementOfSeq
    <2>2. /\ callers \in Seq(Frame)
          /\ Len(callers) = IF 1 <= n - 1 THEN n - 1 - 1 + 1 ELSE 0
          /\ \A d \in 1 .. n - 1 - 1 + 1 : callers[d] = st[1 + d - 1]
        <3>1. 1 \in Int /\ n - 1 \in Int
            BY <1>1
        <3>2. QED
            BY <2>1, <3>1, SubSeqProperties
    <2> HIDE DEF callers
    <2>3. Len(callers) = n - 1
        BY <1>1, <1>2, <2>2
    <2>4. \A d \in 1 .. n - 1 : d \in 1 .. n - 1 - 1 + 1 /\ 1 + d - 1 = d
        BY <1>1
    <2>5. QED
        BY <2>2, <2>3, <2>4
<1>5. callers # <<>>
    BY <1>2, <1>4, EmptySeq
<1>6. /\ Alike(ms, f) /\ Len(f.links) = Len(Links[f.class])
      /\ \A k \in 1 .. Len(f.links) : f.links[k] \in Link(Len(ms))
    BY <1>0, <1>2 DEF Nested, LocalTypes
<1> HIDE DEF f
<1>7. /\ ms2 \in Seq(Copy) /\ Len(ms2) = Len(ms) + 1
      /\ ms2[Len(ms) + 1] = Finished(f)
      /\ \A i \in 1 .. Len(ms2) : \A k \in 1 .. Len(ms2[i].links) : ms2[i].links[k] \in Link(i - 1)
      /\ Made(ms2, t)
      /\ \A r : Alike(ms, r) /\ (\A k \in 1 .. Len(r.links) : r.links[k] \in Link(Len(ms)))
                        => Alike(ms2, r)
    <2>1. AddedTo(ms, t, f, ms2)
        BY <1>3, <1>6, Added
    <2> HIDE DEF ms2
    <2>2. QED
        BY <2>1 DEF AddedTo
<1> HIDE DEF callers, ms2
<1>8. Link(Len(ms)) \subseteq Link(Len(ms2))
    <2>1. 1 .. Len(ms) \subseteq 1 .. Len(ms2)
        BY <1>1, <1>7
    <2>2. QED
        BY <2>1 DEF Link
<1>9. LocalTypes(cs, e, callers, ms2, t)
    <2>1. t \in [Class -> 0 .. Len(ms2)]
        <3>1. 0 .. Len(ms) \subseteq 0 .. Len(ms2)
            BY <1>1, <1>7
        <3>2. QED
            BY <1>1, <3>1
    <2>2. \A d \in 1 .. Len(callers) : \A k \in 1 .. Len(callers[d].links) : callers[d].links[k] \in Link(Len(ms2))
        <3>1. ASSUME NEW d \in 1 .. n - 1, NEW k \in 1 .. Len(st[d].links)
              PROVE  st[d].links[k] \in Link(Len(ms2))
            <4>1. d \in 1 .. n
                BY <1>1
            <4>2. QED
                BY <1>0, <1>8, <4>1 DEF LocalTypes
        <3>2. QED
            BY <1>4, <3>1
    <2>3. QED
        BY <1>0, <1>4, <1>7, <2>1, <2>2 DEF LocalTypes
<1>10. Nested(cs, e, callers, ms2, t)
    <2>1. e <= Len(cs) /\ callers[1].class = cs[e]
        <3>1. st # <<>> /\ 1 \in 1 .. n - 1
            BY <1>1, <1>2, EmptySeq
        <3>2. QED
            BY <1>0, <1>4, <3>1 DEF Nested
    <2>2. ASSUME NEW d \in 1 .. n - 1 PROVE Alike(ms2, callers[d]) /\ t[callers[d].class] = NotThere
        <3>1. d \in 1 .. n
            BY <1>1
        <3>2. /\ Alike(ms, st[d]) /\ t[st[d].class] = NotThere
              /\ \A k \in 1 .. Len(st[d].links) : st[d].links[k] \in Link(Len(ms))
            BY <1>0, <3>1 DEF Nested, LocalTypes
        <3>3. QED
            BY <1>4, <1>7, <3>2
    <2>3. ASSUME NEW d \in 1 .. n - 1 - 1
          PROVE  /\ Len(callers[d].links) < Len(Links[callers[d].class])
                 /\ Links[callers[d].class][Len(callers[d].links) + 1] = callers[d + 1].class
        <3>1. d \in 1 .. n - 1 /\ d + 1 \in 1 .. n - 1
            BY <1>1
        <3>2. QED
            BY <1>0, <1>4, <3>1 DEF Nested
    <2>4. QED
        BY <1>4, <2>1, <2>2, <2>3 DEF Nested
<1>11. ~Sorted(cs)
    <2>1. Sorted(cs) => n <= 1
        BY <1>0 DEF Single
    <2>2. QED
        BY <1>1, <2>1
<1>12. Local(cs, e, callers, ms2, t)
    BY <1>0, <1>7, <1>9, <1>10, <1>11 DEF Local, Single
<1>13. /\ Len(st[n - 1].links) < Len(Links[st[n - 1].class])
       /\ Links[st[n - 1].class][Len(st[n - 1].links) + 1] = f.class
    BY <1>0, <1>2 DEF Nested, f
<1>14. callers[Len(callers)] = st[n - 1]
    BY <1>2, <1>4
<1>15. Looking(cs, e, callers) /\ Wanted(cs, e, callers) = f.class
    BY <1>5, <1>13, <1>14 DEF Looking, Wanted
<1>16. Len(ms) + 1 \in Link(Len(ms2))
    <2>1. Len(ms) + 1 \in 1 .. Len(ms2)
        BY <1>1, <1>7
    <2>2. QED
        BY <2>1 DEF Link
<1>17. Name(ms2, Len(ms) + 1) = f.class
    <2>1. Len(ms) + 1 \notin Internal \cup {NoClass}
        <3>1. Len(ms) + 1 \in Int
            BY <1>1
        <3>2. QED
            BY <3>1, Disjoint
    <2>2. QED
        BY <1>7, <2>1 DEF Name, Finished
<1>18. QED
    BY <1>5, <1>11, <1>12, <1>15, <1>16, <1>17 DEF callers, ms2, f

(* A class that was made for an entry.  If classes come after those they   *)
(* mention it is the only copy, since it was not in the table, and it is   *)
(* not linked to, since a link leads to what is in the table.              *)
LEMMA Entered1 ==
    ASSUME NEW cs, NEW e, NEW st, NEW ms, NEW t, Local(cs, e, st, ms, t),
           Len(st) = 1, Len(st[1].links) = Len(Links[st[1].class])
    PROVE  LET ms2 == Append(ms, Finished(st[1]))
               t2 == [t EXCEPT ![cs[e]] = Len(ms) + 1]
           IN  Local(cs, e + 1, <<>>, ms2, t2)
PROOF
<1> DEFINE f == st[1]
           ms2 == Append(ms, Finished(f))
           t2 == [t EXCEPT ![cs[e]] = Len(ms) + 1]
<1>0. LocalTypes(cs, e, st, ms, t) /\ Made(ms, t) /\ Nested(cs, e, st, ms, t)
      /\ EntriesCopied(cs, e, t) /\ Single(cs, st, ms, t)
    BY DEF Local
<1>1. /\ st \in Seq(Frame) /\ ms \in Seq(Copy) /\ Len(ms) \in Nat
      /\ t \in [Class -> 0 .. Len(ms)]
      /\ cs \in Seq(Class) /\ Len(cs) \in Nat /\ e \in 1 .. Len(cs) + 1
    BY <1>0 DEF LocalTypes
<1>2. 1 \in 1 .. Len(st) /\ st # <<>>
    <2>1. Len(st) # 0
        OBVIOUS
    <2>2. st # <<>>
        BY <1>1, <2>1, EmptySeq
    <2>3. QED
        BY <2>2
<1>3. f \in Frame /\ f.class \in Class \ Anonymous
    BY <1>1, <1>2, FrameFields
<1>4. e <= Len(cs) /\ cs[e] = f.class
    BY <1>0, <1>2 DEF Nested
<1>5. /\ Alike(ms, f) /\ t[f.class] = NotThere /\ Len(f.links) = Len(Links[f.class])
      /\ \A k \in 1 .. Len(f.links) : f.links[k] \in Link(Len(ms))
    BY <1>0, <1>2 DEF Nested, LocalTypes
<1> HIDE DEF f
<1>6. /\ ms2 \in Seq(Copy) /\ Len(ms2) = Len(ms) + 1
      /\ \A i \in 1 .. Len(ms) : ms2[i] = ms[i]
      /\ ms2[Len(ms) + 1] = Finished(f)
      /\ \A i \in 1 .. Len(ms2) : \A k \in 1 .. Len(ms2[i].links) : ms2[i].links[k] \in Link(i - 1)
      /\ Made(ms2, t)
      /\ \A i \in 1 .. Len(ms2) :
            /\ Alike(ms2, ms2[i]) /\ Len(ms2[i].links) = Len(Links[ms2[i].class])
            /\ ms2[i].data = ClassData(ms2[i].class)
    <2>1. AddedTo(ms, t, f, ms2)
        BY <1>3, <1>5, Added
    <2> HIDE DEF ms2
    <2>2. QED
        BY <2>1 DEF AddedTo
<1>7. \A c \in Class : t2[c] = IF c = f.class THEN Len(ms) + 1 ELSE t[c]
    BY <1>1, <1>4
<1>8. t2 \in [Class -> 0 .. Len(ms2)]
    <2>1. Len(ms) + 1 \in 0 .. Len(ms2) /\ 0 .. Len(ms) \subseteq 0 .. Len(ms2)
        BY <1>1, <1>6
    <2>2. QED
        BY <1>1, <2>1
<1> HIDE DEF ms2, t2
<1>9. e + 1 \in 1 .. Len(cs) + 1
    BY <1>1, <1>4
<1>10. LocalTypes(cs, e + 1, <<>>, ms2, t2)
    <2>1. \A i \in 1 .. Len(ms2) : \A k \in 1 .. Len(ms2[i].links) : ms2[i].links[k] \in Link(i - 1)
        BY <1>6
    <2>2. cs \in Seq(Class) /\ ms2 \in Seq(Copy)
        BY <1>1, <1>6
    <2>3. <<>> \in Seq(Frame) /\ \A d \in 1 .. Len(<<>>) : FALSE
        BY EmptySeq
    <2> HIDE DEF f
    <2>4. QED
        BY <1>8, <1>9, <2>1, <2>2, <2>3 DEF LocalTypes
<1>11. Made(ms2, t2)
    <2>1. ASSUME NEW c \in Class, t2[c] # NotThere PROVE ms2[t2[c]].class = c
        BY <1>6, <1>7, <2>1 DEF Made, Finished
    <2>2. QED
        BY <1>6, <2>1 DEF Made
<1>12. Nested(cs, e + 1, <<>>, ms2, t2)
    BY EmptySeq DEF Nested
<1>13. Len(ms) + 1 # NotThere
    BY <1>1 DEF NotThere
<1>14. EntriesCopied(cs, e + 1, t2)
    <2>1. SUFFICES ASSUME NEW i \in 1 .. e + 1 - 1, cs[i] \notin Anonymous
                   PROVE  t2[cs[i]] # NotThere
        BY <1>1 DEF EntriesCopied
    <2>2. i \in 1 .. Len(cs) /\ (i \in 1 .. e - 1 \/ i = e)
        BY <1>1, <1>4
    <2>3. cs[i] \in Class
        BY <1>1, <2>2, ElementOfSeq
    <2>4. i \in 1 .. e - 1 => t[cs[i]] # NotThere
        BY <1>0, <2>1 DEF EntriesCopied
    <2>5. QED
        BY <1>4, <1>7, <1>13, <2>2, <2>3, <2>4
<1>15. Single(cs, <<>>, ms2, t2)
    <2>1. SUFFICES ASSUME Sorted(cs)
                   PROVE  \A i \in 1 .. Len(ms2) : t2[ms2[i].class] = i /\ Settled(t2, ms2[i])
        BY EmptySeq DEF Single
    <2>2. /\ Settled(t, f)
          /\ \A i \in 1 .. Len(ms) : t[ms[i].class] = i /\ Settled(t, ms[i])
        BY <1>0, <1>2, <2>1 DEF Single, f
    \* What is settled stays so: no link is to the class that is entered.
    <2>3. ASSUME NEW r, r.class \in Class, Settled(t, r), Len(r.links) = Len(Links[r.class]),
                 \A k \in 1 .. Len(r.links) : r.links[k] \in Link(Len(ms))
          PROVE  Settled(t2, r)
        <3>1. SUFFICES ASSUME NEW k \in 1 .. Len(r.links)
                       PROVE  r.links[k] = InTable(t2, Links[r.class][k])
            BY DEF Settled
        <3>2. r.links[k] = InTable(t, Links[r.class][k]) /\ r.links[k] \in Link(Len(ms))
            BY <2>3 DEF Settled
        <3>3. r.links[k] # NotThere
            <4>1. 0 \notin Internal \cup {NoClass}
                <5>1. 0 \in Int
                    OBVIOUS
                <5>2. QED
                    BY <5>1, Disjoint, Zenon
            <4>2. 0 \notin 1 .. Len(ms)
                OBVIOUS
            <4>3. QED
                BY <3>2, <4>1, <4>2 DEF Link, NotThere
        <3>4. Links[r.class][k] \in Class => Links[r.class][k] # f.class
            BY <1>5, <3>2, <3>3 DEF InTable
        <3>5. QED
            BY <1>7, <3>2, <3>4 DEF InTable
    <2>4. ASSUME NEW i \in 1 .. Len(ms2) PROVE t2[ms2[i].class] = i /\ Settled(t2, ms2[i])
        <3>1. CASE i \in 1 .. Len(ms)
            <4>1. ms2[i] = ms[i] /\ ms[i].class \in Class
                BY <1>1, <1>6, <3>1, CopyFields
            <4>2. t[ms[i].class] = i /\ Settled(t, ms[i]) /\ i # NotThere
                BY <2>2, <3>1 DEF NotThere
            <4>3. ms[i].class # f.class
                BY <1>5, <4>2
            <4>4. t2[ms[i].class] = i
                BY <1>7, <4>1, <4>2, <4>3
            <4>5. Link(i - 1) \subseteq Link(Len(ms))
                <5>1. 1 .. i - 1 \subseteq 1 .. Len(ms)
                    BY <1>1, <3>1
                <5>2. QED
                    BY <5>1 DEF Link
            <4>6. Settled(t2, ms[i])
                BY <1>6, <2>3, <4>1, <4>2, <4>5
            <4>7. QED
                BY <4>1, <4>4, <4>6
        <3>2. CASE i = Len(ms) + 1
            <4>1. ms2[i].class = f.class /\ ms2[i].links = f.links
                BY <1>6, <3>2 DEF Finished
            <4>2. t2[ms2[i].class] = i
                BY <1>3, <1>7, <3>2, <4>1 DEF f
            <4>3. Settled(t, ms2[i])
                BY <2>2, <4>1 DEF Settled
            <4>4. Settled(t2, ms2[i])
                BY <1>3, <1>5, <1>6, <2>3, <4>1, <4>3 DEF f
            <4>5. QED
                BY <4>2, <4>4
        <3>3. QED
            BY <1>1, <1>6, <3>1, <3>2
    <2>5. QED
        BY <2>4
<1>16. Local(cs, e + 1, <<>>, ms2, t2)
    BY <1>10, <1>11, <1>12, <1>14, <1>15 DEF Local
<1>17. QED
    BY <1>16 DEF ms2, t2, f

-----------------------------------------------------------------------------
(* The steps.                                                              *)
LEMMA StepsInOrder ==
    /\ DOMAIN Steps = Steps9
    /\ Steps[1] = "included_files" /\ Steps[2] = "function_table" /\ Steps[3] = "class_table"
    /\ Steps[4] = "zend_constants" /\ Steps[5] = "ini_directives" /\ Steps[6] = "lock"
    /\ Steps[7] = "read" /\ Steps[8] = "write" /\ Steps[9] = "loop"
PROOF BY DEF Steps, Steps9

LEMMA StepsDiffer ==
    \A i, j \in Steps9 : Steps[i] = Steps[j] => i = j
PROOF
<1>1. \A i \in Steps9 : i = 1 \/ i = 2 \/ i = 3 \/ i = 4 \/ i = 5 \/ i = 6 \/ i = 7 \/ i = 8 \/ i = 9
    BY DEF Steps9
<1>2. QED
    BY <1>1, StepsInOrder

LEMMA Advances ==
    ASSUME NEW w \in Worker, NEW i \in 1 .. 8, at[w] = Steps[i], GoesOn(w),
           at \in [Worker -> {"none"} \cup {Steps[k] : k \in Steps9}]
    PROVE  /\ at' \in [Worker -> {"none"} \cup {Steps[k] : k \in Steps9}]
           /\ at'[w] = Steps[i + 1]
           /\ \A v \in Worker \ {w} : at'[v] = at[v]
PROOF
<1>1. i \in Steps9 /\ i + 1 \in Steps9
    BY DEF Steps9
<1> DEFINE k == CHOOSE k \in DOMAIN Steps : Steps[k] = at[w]
<1>2. k \in DOMAIN Steps /\ Steps[k] = at[w]
    BY <1>1, StepsInOrder
<1> HIDE DEF k
<1>3. k = i
    BY <1>1, <1>2, StepsInOrder, StepsDiffer
<1>4. at' = [at EXCEPT ![w] = Steps[1 + k]]
    BY DEF GoesOn, k
<1>5. 1 + k = i + 1
    BY <1>3
<1>6. QED
    BY <1>1, <1>4, <1>5

(* What is behind a worker after a step: what was, and that step.          *)
LEMMA BehindNext ==
    ASSUME NEW i \in 1 .. 8, NEW ow, NEW ow2, NEW t, Behind(Steps[i], ow, t),
           \A n \in Table : ow[n] \subseteq ow2[n],
           Steps[i] \in Table => Early[Steps[i]] \subseteq ow2[Steps[i]],
           Steps[i] = "class_table" => AllEarlyIn(t)
    PROVE  Behind(Steps[i + 1], ow2, t)
PROOF
<1>1. SUFFICES ASSUME NEW m \in Steps9, Steps[i + 1] = Steps[m], NEW j \in 1 .. m - 1
               PROVE  /\ Steps[j] \in Table => Early[Steps[j]] \subseteq ow2[Steps[j]]
                      /\ Steps[j] = "class_table" => AllEarlyIn(t)
    BY DEF Behind
<1>2. i \in Steps9 /\ i + 1 \in Steps9
    BY DEF Steps9
<1>3. m = i + 1
    BY <1>1, <1>2, StepsDiffer
<1>4. j \in 1 .. i - 1 \/ j = i
    BY <1>3
<1>5. CASE j = i
    BY <1>5
<1>6. CASE j \in 1 .. i - 1
    <2>1. /\ Steps[j] \in Table => Early[Steps[j]] \subseteq ow[Steps[j]]
          /\ Steps[j] = "class_table" => AllEarlyIn(t)
        BY <1>2, <1>6 DEF Behind
    <2>2. QED
        BY <2>1
<1>7. QED
    BY <1>4, <1>5, <1>6

(* The class table of a worker that copies classes may still change.       *)
LEMMA BehindClasses ==
    ASSUME NEW ow, NEW t, NEW t2, Behind("class_table", ow, t)
    PROVE  Behind("class_table", ow, t2)
PROOF
<1>1. SUFFICES ASSUME NEW m \in Steps9, "class_table" = Steps[m], NEW j \in 1 .. m - 1
               PROVE  /\ Steps[j] \in Table => Early[Steps[j]] \subseteq ow[Steps[j]]
                      /\ Steps[j] = "class_table" => AllEarlyIn(t2)
    BY DEF Behind
<1>2. m = 3 /\ 3 \in Steps9
    <2>1. 3 \in Steps9
        BY DEF Steps9
    <2>2. QED
        BY <1>1, <2>1, StepsInOrder, StepsDiffer
<1>3. j \in Steps9 /\ j # 3
    BY <1>2 DEF Steps9
<1>4. Steps[j] # "class_table"
    BY <1>2, <1>3, StepsInOrder, StepsDiffer
<1>5. QED
    BY <1>1, <1>4 DEF Behind

-----------------------------------------------------------------------------
LEMMA FiniteLooping ==
    /\ IsFiniteSet(Worker) /\ Cardinality(Worker) = ThreadCount
    /\ IsFiniteSet(Looping) /\ Cardinality(Looping) \in 0 .. ThreadCount
PROOF
<1>1. ThreadCount \in Nat \ {0}
    BY ThreadAssumption
<1>2. IsFiniteSet(Worker) /\ Cardinality(Worker) = ThreadCount
    <2>1. 0 \in Int /\ ThreadCount - 1 \in Int /\ ~(0 > ThreadCount - 1) /\ ThreadCount - 1 - 0 + 1 = ThreadCount
        BY <1>1
    <2>2. QED
        BY <2>1, FS_Interval DEF Worker
<1>3. Looping \in SUBSET Worker
    BY DEF Looping
<1>4. IsFiniteSet(Looping) /\ Cardinality(Looping) <= Cardinality(Worker)
    BY <1>2, <1>3, FS_Subset
<1>5. Cardinality(Looping) \in Nat
    BY <1>4, FS_CardinalityType
<1>6. QED
    BY <1>1, <1>2, <1>4, <1>5

LEMMA InitInv ==
    ASSUME Init PROVE Inv
PROOF
<1>0. ThreadCount \in Nat \ {0} /\ NoThread \notin Nat /\ Worker \subseteq Nat
    BY ThreadAssumption DEF Worker
<1>1. classes \in Seq(Class)
    BY OrderAssumption DEF Init
<1>2. StateTypes
    <2>1. at \in [Worker -> {"none"} \cup {Steps[i] : i \in Steps9}]
        BY DEF Init
    <2>2. own \in [Worker -> [Table -> SUBSET Symbol]]
        BY DEF Init
    <2>3. seen \in [Worker -> 0 .. ThreadCount] /\ prepared \in 0 .. ThreadCount
          /\ created \in 0 .. ThreadCount /\ created < ThreadCount
        BY <1>0 DEF Init
    <2>4. symbols \in [Table -> SUBSET Symbol]
        BY SymbolAssumption DEF Init
    <2>5. /\ entry \in [Worker -> Nat] /\ stack \in [Worker -> Seq(Frame)]
          /\ copies \in [Worker -> Seq(Copy)] /\ table \in [Worker -> [Class -> Nat]]
        BY DEF Init, NotThere
    <2>6. QED
        BY <1>1, <2>1, <2>2, <2>3, <2>4, <2>5 DEF Init, StateTypes
<1>3. Counting
    <2>1. Looping = {}
        BY DEF Init, Looping
    <2>2. Cardinality(Looping) = 0
        BY <2>1, FS_EmptySet
    <2>3. \A w \in Worker : lock # w
        BY <1>0 DEF Init
    <2>4. QED
        BY <2>2, <2>3 DEF Init, Counting
<1>4. Waits
    BY DEF Init, Waits
<1>5. ASSUME NEW w \in Worker
      PROVE  Progress(at[w], classes, entry[w], stack[w], copies[w], table[w], own[w])
    <2> DEFINE t == [c \in Class |-> NotThere]
    <2>1. /\ at[w] = "none" /\ entry[w] = 1 /\ stack[w] = <<>> /\ copies[w] = <<>>
          /\ table[w] = t
        BY DEF Init
    <2>2. LocalTypes(classes, 1, <<>>, <<>>, t)
        <3>1. <<>> \in Seq(Frame) /\ <<>> \in Seq(Copy) /\ Len(<<>>) = 0
            OBVIOUS
        <3>2. Len(classes) \in Nat
            BY <1>1
        <3>3. 1 \in 1 .. Len(classes) + 1 /\ 0 \in 0 .. 0
            BY <3>2
        <3>4. t \in [Class -> 0 .. 0]
            BY <3>3 DEF NotThere
        <3>5. QED
            BY <1>1, <3>1, <3>3, <3>4 DEF LocalTypes
    <2>3. Made(<<>>, t)
        BY DEF Made
    <2>4. Nested(classes, 1, <<>>, <<>>, t)
        BY DEF Nested
    <2>5. EntriesCopied(classes, 1, t)
        BY DEF EntriesCopied
    <2>6. Single(classes, <<>>, <<>>, t)
        BY DEF Single
    <2>7. Behind("none", own[w], t)
        <3>1. \A i \in Steps9 : i = 1 \/ i = 2 \/ i = 3 \/ i = 4 \/ i = 5 \/ i = 6 \/ i = 7 \/ i = 8 \/ i = 9
            BY DEF Steps9
        <3>2. \A i \in Steps9 : Steps[i] # "none"
            BY <3>1, StepsInOrder
        <3>3. QED
            BY <3>2 DEF Behind
    <2> HIDE DEF t
    <2>8. QED
        BY <2>1, <2>2, <2>3, <2>4, <2>5, <2>6, <2>7 DEF Progress, Local
<1>6. QED
    BY <1>2, <1>3, <1>4, <1>5 DEF Inv, Copied

-----------------------------------------------------------------------------
(* A step of one worker, seen from the others.                             *)
LEMMA OthersKept ==
    ASSUME Copied, NEW w \in Worker, UNCHANGED classes,
           \A v \in Worker \ {w} :
                /\ at'[v] = at[v] /\ entry'[v] = entry[v] /\ stack'[v] = stack[v]
                /\ copies'[v] = copies[v] /\ table'[v] = table[v] /\ own'[v] = own[v],
           Progress(at[w], classes, entry[w], stack[w], copies[w], table[w], own[w])'
    PROVE  Copied'
PROOF BY DEF Copied

(* A worker that is not in its loop yet keeps the script waiting.          *)
LEMMA StillWaiting ==
    ASSUME Inv, NEW w \in Worker, at[w] # "loop"
    PROVE  main # "script" /\ classes \in Orders /\ symbols = Early
PROOF BY DEF Inv, Waits

LEMMA WaitsKept ==
    ASSUME Inv, NEW w \in Worker, at[w] # "none", at[w] # "loop", UNCHANGED mainVars,
           \A v \in Worker \ {w} : at'[v] = at[v]
    PROVE  Waits'
PROOF
<1>1. main # "script"
    BY StillWaiting
<1>2. ~(w >= created)
    BY DEF Inv, Waits
<1>3. QED
    BY <1>1, <1>2 DEF Inv, Waits, mainVars

(* A step that has nothing to do with the counter.                         *)
LEMMA CountingKept ==
    ASSUME Inv, NEW w \in Worker, UNCHANGED countVars,
           \A v \in Worker \ {w} : at'[v] = at[v],
           at[w] \notin {"read", "write", "loop"}, at'[w] \notin {"read", "write", "loop"}
    PROVE  Counting'
PROOF
<1>1. \A v \in Worker : \A a \in {"read", "write", "loop"} : at'[v] = a <=> at[v] = a
    OBVIOUS
<1>2. Looping' = Looping
    BY <1>1 DEF Looping
<1>3. QED
    BY <1>1, <1>2 DEF Inv, Counting, countVars

LEMMA SpawnInv ==
    ASSUME Inv, Spawn PROVE Inv'
PROOF
<1>0. ThreadCount \in Nat /\ created \in 0 .. ThreadCount /\ created < ThreadCount
    BY ThreadAssumption DEF Spawn, Inv, StateTypes
<1>1. created \in Worker /\ Worker \subseteq Nat
    BY <1>0 DEF Worker
<1>2. at[created] = "none"
    BY <1>0, <1>1 DEF Inv, Waits
<1>3. at' = [at EXCEPT ![created] = "included_files"]
    BY StepsInOrder DEF Spawn
<1>4. at \in [Worker -> {"none"} \cup {Steps[i] : i \in Steps9}]
    BY DEF Inv, StateTypes
<1>5. 1 \in Steps9
    BY DEF Steps9
<1>6. at'[created] = "included_files" /\ \A v \in Worker \ {created} : at'[v] = at[v]
    BY <1>1, <1>3, <1>4
<1>7. StateTypes'
    <2>1. at' \in [Worker -> {"none"} \cup {Steps[i] : i \in Steps9}]
        BY <1>3, <1>4, <1>5, StepsInOrder
    <2>2. created' \in 0 .. ThreadCount /\ (main' = "spawn" => created' < ThreadCount)
          /\ main' \in {"spawn", "spin", "script"}
        BY <1>0 DEF Spawn
    <2>3. QED
        BY <2>1, <2>2 DEF Inv, StateTypes, Spawn, workerVars, countVars
<1>8. Counting'
    BY <1>1, <1>2, <1>6, CountingKept DEF Spawn
<1>9. Waits'
    <2>1. main # "script" /\ main' # "script"
        BY DEF Spawn
    <2>2. \A v \in Worker : v >= created' => at'[v] = "none"
        <3>1. SUFFICES ASSUME NEW v \in Worker, v >= created + 1 PROVE at'[v] = "none"
            BY DEF Spawn
        <3>2. v # created /\ v >= created
            BY <1>0, <1>1, <3>1
        <3>3. QED
            BY <1>6, <3>2 DEF Inv, Waits
    <2>3. QED
        BY <2>1, <2>2 DEF Inv, Waits, Spawn
<1>10. Copied'
    <2>1. Progress(at[created], classes, entry[created], stack[created], copies[created], table[created], own[created])
        BY <1>1 DEF Inv, Copied
    <2>2. Behind("included_files", own[created], table[created])
        <3>1. \A m \in Steps9 : "included_files" = Steps[m] => m = 1
            BY <1>5, StepsInOrder, StepsDiffer
        <3>2. QED
            BY <3>1 DEF Behind
    <2>3. Progress(at'[created], classes, entry[created], stack[created], copies[created], table[created], own[created])
        BY <1>2, <1>6, <2>1, <2>2 DEF Progress
    <2>4. Copied => \A v \in Worker :
            Progress(at[v], classes, entry[v], stack[v], copies[v], table[v], own[v])
        BY DEF Copied
    <2>5. \A v \in Worker :
            Progress(at'[v], classes, entry[v], stack[v], copies[v], table[v], own[v])
        BY <1>6, <2>3, <2>4 DEF Inv
    <2>6. QED
        BY <2>5 DEF Copied, Spawn, workerVars
<1>11. QED
    BY <1>7, <1>8, <1>9, <1>10 DEF Inv

(* The script goes on when all workers are in their loops.                 *)
LEMMA StopSpinningInv ==
    ASSUME Inv, StopSpinning PROVE Inv'
PROOF
<1>1. Looping = Worker
    <2>1. Cardinality(Looping) = ThreadCount
        BY DEF Inv, Counting, StopSpinning, AllPrepared
    <2>2. Looping \in SUBSET Worker
        BY DEF Looping
    <2>3. QED
        BY <2>1, <2>2, FiniteLooping, FS_Subset
<1>2. \A w \in Worker : at[w] = "loop"
    BY <1>1 DEF Looping
<1>3. main' = "script" /\ UNCHANGED <<created, classes, symbols, at, workerVars, countVars>>
    BY DEF StopSpinning
<1>4. StateTypes' /\ Counting' /\ Waits' /\ Copied'
    BY <1>2, <1>3 DEF Inv, StateTypes, Counting, Looping, Waits, Copied, workerVars, countVars
<1>5. QED
    BY <1>4 DEF Inv

(* What the script declares comes after what the workers have copied.      *)
LEMMA LaterClass ==
    ASSUME NEW cs, NEW e, NEW ms, NEW t, Local(cs, e, <<>>, ms, t), NEW c \in Class
    PROVE  Local(Append(cs, c), e, <<>>, ms, t)
PROOF
<1> DEFINE ds == Append(cs, c)
<1>0. LocalTypes(cs, e, <<>>, ms, t) /\ Made(ms, t)
      /\ EntriesCopied(cs, e, t) /\ Single(cs, <<>>, ms, t)
    BY DEF Local
<1>1. cs \in Seq(Class) /\ Len(cs) \in Nat /\ e \in 1 .. Len(cs) + 1
    BY <1>0 DEF LocalTypes
<1>2. ds \in Seq(Class) /\ Len(ds) = Len(cs) + 1 /\ \A i \in 1 .. Len(cs) : ds[i] = cs[i]
    BY <1>1, AppendProperties
<1> HIDE DEF ds
<1>3. e \in 1 .. Len(ds) + 1
    BY <1>1, <1>2
<1>4. LocalTypes(ds, e, <<>>, ms, t)
    BY <1>0, <1>2, <1>3 DEF LocalTypes
<1>5. Nested(ds, e, <<>>, ms, t)
    BY EmptySeq DEF Nested
<1>6. EntriesCopied(ds, e, t)
    <2>1. \A i \in 1 .. e - 1 : i \in 1 .. Len(cs)
        BY <1>1
    <2>2. QED
        BY <1>0, <1>2, <2>1 DEF EntriesCopied
<1>7. Sorted(ds) => Sorted(cs)
    <2>1. SUFFICES ASSUME Sorted(ds), NEW i \in 1 .. Len(cs), NEW k \in 1 .. Len(Links[cs[i]]),
                          Links[cs[i]][k] \in Class
                   PROVE  \E j \in 1 .. i - 1 : cs[j] = Links[cs[i]][k]
        BY DEF Sorted
    <2>2. i \in 1 .. Len(ds) /\ ds[i] = cs[i]
        BY <1>1, <1>2
    <2>3. PICK j \in 1 .. i - 1 : ds[j] = Links[cs[i]][k]
        BY <2>1, <2>2 DEF Sorted
    <2>4. j \in 1 .. Len(cs)
        BY <1>1
    <2>5. QED
        BY <1>2, <2>3, <2>4
<1>8. Single(ds, <<>>, ms, t)
    BY <1>0, <1>7 DEF Single
<1>9. Local(ds, e, <<>>, ms, t)
    BY <1>0, <1>4, <1>5, <1>6, <1>8 DEF Local
<1>10. QED
    BY <1>9 DEF ds

LEMMA DeclareInv ==
    ASSUME Inv,
           \/ \E c \in Class : DeclareClass(c)
           \/ \E n \in Table, s \in Symbol : DeclareSymbol(n, s)
    PROVE  Inv'
PROOF
<1>1. main = "script" /\ UNCHANGED <<main, created, at, workerVars, countVars>>
    BY DEF DeclareClass, DeclareSymbol
<1>2. \A w \in Worker : at[w] = "loop"
    BY <1>1 DEF Inv, Waits
<1>3. Counting'
    BY <1>1 DEF Inv, Counting, Looping, countVars
<1>4. Waits'
    BY <1>1, <1>2 DEF Inv, Waits
<1>5. CASE \E c \in Class : DeclareClass(c)
    <2>1. PICK c \in Class : classes' = Append(classes, c) /\ symbols' = symbols
        BY <1>5 DEF DeclareClass
    <2>2. classes \in Seq(Class)
        BY DEF Inv, StateTypes
    <2>3. classes' \in Seq(Class)
        BY <2>1, <2>2, AppendProperties
    <2>4. StateTypes'
        BY <1>1, <2>1, <2>3 DEF Inv, StateTypes, workerVars, countVars
    <2>5. ASSUME NEW w \in Worker
          PROVE  Progress(at[w], Append(classes, c), entry[w], stack[w], copies[w], table[w], own[w])
        <3>1. Progress(at[w], classes, entry[w], stack[w], copies[w], table[w], own[w])
            BY DEF Inv, Copied
        <3>2. stack[w] = <<>> /\ Local(classes, entry[w], <<>>, copies[w], table[w])
            BY <1>2, <3>1 DEF Progress
        <3>3. Local(Append(classes, c), entry[w], <<>>, copies[w], table[w])
            BY <3>2, LaterClass
        <3>4. QED
            BY <3>1, <3>2, <3>3 DEF Progress
    <2>6. Copied'
        BY <1>1, <2>1, <2>5 DEF Copied, workerVars
    <2>7. QED
        BY <1>3, <1>4, <2>4, <2>6 DEF Inv
<1>6. CASE \E n \in Table, s \in Symbol : DeclareSymbol(n, s)
    <2>1. PICK n \in Table, s \in Symbol : DeclareSymbol(n, s)
        BY <1>6
    <2>2. classes' = classes /\ symbols' = [symbols EXCEPT ![n] = @ \cup {s}]
        BY <2>1 DEF DeclareSymbol
    <2>3. symbols' \in [Table -> SUBSET Symbol]
        BY <2>2 DEF Inv, StateTypes
    <2>4. StateTypes'
        BY <1>1, <2>2, <2>3 DEF Inv, StateTypes, workerVars, countVars
    <2>5. Copied'
        BY <1>1, <2>2 DEF Inv, Copied, workerVars
    <2>6. QED
        BY <1>3, <1>4, <2>4, <2>5 DEF Inv
<1>7. QED
    BY <1>5, <1>6

LEMMA TypedAt ==
    ASSUME Inv
    PROVE  at \in [Worker -> {"none"} \cup {Steps[k] : k \in Steps9}]
PROOF BY DEF Inv, StateTypes

LEMMA CopyTableInv ==
    ASSUME Inv, NEW w \in Worker, CopyTable(w) PROVE Inv'
PROOF
<1>1. PICK i \in {1, 2, 4, 5} : at[w] = Steps[i]
    BY StepsInOrder DEF CopyTable, Table
<1>2. i \in 1 .. 8 /\ i \in Steps9 /\ i + 1 \in Steps9 /\ i + 1 \in {2, 3, 5, 6}
    BY DEF Steps9
<1>3. /\ at' \in [Worker -> {"none"} \cup {Steps[k] : k \in Steps9}]
      /\ at'[w] = Steps[i + 1]
      /\ \A v \in Worker \ {w} : at'[v] = at[v]
    BY <1>1, <1>2, TypedAt, Advances DEF CopyTable
<1>4. at[w] \in Table /\ at[w] \notin {"none", "read", "write", "loop", "class_table"}
    BY DEF CopyTable, Table
<1>5. at'[w] \notin {"read", "write", "loop"}
    BY <1>2, <1>3, StepsInOrder
<1>6. UNCHANGED mainVars /\ UNCHANGED countVars /\ UNCHANGED <<entry, stack, copies, table>>
      /\ own' = [own EXCEPT ![w][at[w]] = own[w][at[w]] \cup symbols[at[w]]]
    BY DEF CopyTable
<1>7. symbols = Early
    BY <1>4, StillWaiting
<1>8. own \in [Worker -> [Table -> SUBSET Symbol]] /\ symbols \in [Table -> SUBSET Symbol]
    BY DEF Inv, StateTypes
<1>9. /\ own' \in [Worker -> [Table -> SUBSET Symbol]]
      /\ \A v \in Worker \ {w} : own'[v] = own[v]
      /\ \A n \in Table : own[w][n] \subseteq own'[w][n]
      /\ Early[at[w]] \subseteq own'[w][at[w]]
    <2> DEFINE new == [own[w] EXCEPT ![at[w]] = own[w][at[w]] \cup symbols[at[w]]]
    <2>1. own' = [own EXCEPT ![w] = new]
        BY <1>6
    <2>2. new \in [Table -> SUBSET Symbol] /\ new[at[w]] = own[w][at[w]] \cup symbols[at[w]]
          /\ \A n \in Table : own[w][n] \subseteq new[n]
        BY <1>4, <1>8
    <2> HIDE DEF new
    <2>3. own'[w] = new /\ \A v \in Worker \ {w} : own'[v] = own[v]
        BY <1>8, <2>1
    <2>4. own' \in [Worker -> [Table -> SUBSET Symbol]]
        BY <1>8, <2>1, <2>2
    <2>5. QED
        BY <1>7, <2>2, <2>3, <2>4
<1>10. StateTypes'
    BY <1>3, <1>6, <1>9 DEF Inv, StateTypes, mainVars, countVars
<1>11. Counting'
    BY <1>3, <1>4, <1>5, <1>6, CountingKept
<1>12. Waits'
    BY <1>3, <1>4, <1>6, WaitsKept
<1>13. Copied'
    <2>1. Progress(Steps[i], classes, entry[w], stack[w], copies[w], table[w], own[w])
        BY <1>1 DEF Inv, Copied
    <2>2. Behind(Steps[i + 1], own'[w], table[w])
        BY <1>1, <1>2, <1>4, <1>9, <2>1, BehindNext DEF Progress
    <2>3. stack[w] = <<>>
        BY <1>1, <1>4, <2>1 DEF Progress
    <2>4. Progress(at'[w], classes, entry[w], stack[w], copies[w], table[w], own'[w])
        BY <1>3, <2>1, <2>2, <2>3 DEF Progress
    <2>5. Progress(at[w], classes, entry[w], stack[w], copies[w], table[w], own[w])'
        BY <1>6, <2>4 DEF mainVars
    <2>6. QED
        BY <1>3, <1>6, <1>9, <2>5, OthersKept DEF Inv, mainVars
<1>14. QED
    BY <1>10, <1>11, <1>12, <1>13 DEF Inv

LEMMA ClassesCopiedInv ==
    ASSUME Inv, NEW w \in Worker, ClassesCopied(w) PROVE Inv'
PROOF
<1>1. at[w] = Steps[3] /\ 3 \in 1 .. 8 /\ at[w] = "class_table"
    BY StepsInOrder DEF ClassesCopied
<1>2. /\ at' \in [Worker -> {"none"} \cup {Steps[k] : k \in Steps9}]
      /\ at'[w] = Steps[3 + 1]
      /\ \A v \in Worker \ {w} : at'[v] = at[v]
    BY <1>1, TypedAt, Advances DEF ClassesCopied
<1>3. at'[w] = "zend_constants"
    BY <1>2, StepsInOrder
<1>4. UNCHANGED mainVars /\ UNCHANGED workerVars /\ UNCHANGED countVars
      /\ stack[w] = <<>> /\ entry[w] > Len(classes)
    BY DEF ClassesCopied
<1>5. StateTypes'
    BY <1>2, <1>4 DEF Inv, StateTypes, mainVars, workerVars, countVars
<1>6. Counting'
    BY <1>1, <1>2, <1>3, <1>4, CountingKept
<1>7. Waits'
    BY <1>1, <1>2, <1>4, WaitsKept
<1>8. Progress(Steps[3], classes, entry[w], stack[w], copies[w], table[w], own[w])
    BY <1>1 DEF Inv, Copied
<1>9. AllEarlyIn(table[w])
    <2>1. SUFFICES ASSUME NEW o \in Orders, NEW i \in 1 .. Len(o), o[i] \notin Anonymous
                   PROVE  table[w][o[i]] # NotThere
        BY DEF AllEarlyIn
    <2>2. classes \in Orders
        BY <1>1, StillWaiting
    <2>3. {o[k] : k \in 1 .. Len(o)} = {classes[k] : k \in 1 .. Len(classes)}
        BY <2>2, OrderAssumption
    <2>4. PICK j \in 1 .. Len(classes) : classes[j] = o[i]
        BY <2>3
    <2>5. LocalTypes(classes, entry[w], stack[w], copies[w], table[w])
          /\ EntriesCopied(classes, entry[w], table[w])
        BY <1>8 DEF Progress, Local
    <2>6. entry[w] \in 1 .. Len(classes) + 1 /\ Len(classes) \in Nat
        BY <2>5 DEF LocalTypes
    <2>7. j \in 1 .. entry[w] - 1
        BY <1>4, <2>6
    <2>8. QED
        BY <2>1, <2>4, <2>5, <2>7 DEF EntriesCopied
<1>10. Copied'
    <2>1. Steps[3] \notin Table
        BY StepsInOrder DEF Table
    <2>2. Behind(Steps[3 + 1], own[w], table[w])
        BY <1>1, <1>8, <1>9, <2>1, BehindNext DEF Progress
    <2>3. Progress(at'[w], classes, entry[w], stack[w], copies[w], table[w], own[w])
        BY <1>2, <1>4, <1>8, <2>2 DEF Progress
    <2>4. Progress(at[w], classes, entry[w], stack[w], copies[w], table[w], own[w])'
        BY <1>4, <2>3 DEF mainVars, workerVars
    <2>5. QED
        BY <1>2, <1>4, <2>4, OthersKept DEF Inv, mainVars, workerVars
<1>11. QED
    BY <1>5, <1>6, <1>7, <1>10 DEF Inv

-----------------------------------------------------------------------------
(* The steps of copy_ces.                                                  *)
LEMMA CopyingKept ==
    ASSUME Inv, NEW w \in Worker, at[w] = "class_table",
           UNCHANGED <<mainVars, at, own, countVars>>,
           NEW e, NEW st, NEW ms, NEW t, Local(classes, e, st, ms, t),
           entry' = [entry EXCEPT ![w] = e], stack' = [stack EXCEPT ![w] = st],
           copies' = [copies EXCEPT ![w] = ms], table' = [table EXCEPT ![w] = t]
    PROVE  Inv'
PROOF
<1>1. /\ entry \in [Worker -> Nat] /\ stack \in [Worker -> Seq(Frame)]
      /\ copies \in [Worker -> Seq(Copy)] /\ table \in [Worker -> [Class -> Nat]]
    BY DEF Inv, StateTypes
<1>2. /\ entry'[w] = e /\ stack'[w] = st /\ copies'[w] = ms /\ table'[w] = t
      /\ \A v \in Worker \ {w} :
            /\ entry'[v] = entry[v] /\ stack'[v] = stack[v]
            /\ copies'[v] = copies[v] /\ table'[v] = table[v]
    BY <1>1
<1>3. StateTypes'
    <2>1. e \in Nat /\ st \in Seq(Frame) /\ ms \in Seq(Copy) /\ t \in [Class -> Nat]
        <3>1. /\ classes \in Seq(Class) /\ e \in 1 .. Len(classes) + 1 /\ st \in Seq(Frame)
              /\ ms \in Seq(Copy) /\ t \in [Class -> 0 .. Len(ms)]
            BY DEF Local, LocalTypes
        <3>2. 0 .. Len(ms) \subseteq Nat /\ 1 .. Len(classes) + 1 \subseteq Nat
            BY <3>1
        <3>3. QED
            BY <3>1, <3>2
    <2>2. /\ entry' \in [Worker -> Nat] /\ stack' \in [Worker -> Seq(Frame)]
          /\ copies' \in [Worker -> Seq(Copy)] /\ table' \in [Worker -> [Class -> Nat]]
        BY <1>1, <2>1
    <2>3. QED
        BY <2>2 DEF Inv, StateTypes, mainVars, countVars
<1>4. Counting'
    BY CountingKept
<1>5. Waits'
    BY WaitsKept
<1>6. Copied'
    <2>1. Progress("class_table", classes, entry[w], stack[w], copies[w], table[w], own[w])
        BY DEF Inv, Copied
    <2>2. Behind("class_table", own[w], t)
        BY <2>1, BehindClasses DEF Progress
    <2>3. Progress(at[w], classes, e, st, ms, t, own[w])
        BY <2>2 DEF Progress
    <2>4. Progress(at[w], classes, entry[w], stack[w], copies[w], table[w], own[w])'
        BY <1>2, <2>3 DEF mainVars
    <2>5. QED
        BY <1>2, <2>4, OthersKept DEF Inv, mainVars
<1>7. QED
    BY <1>3, <1>4, <1>5, <1>6 DEF Inv

LEMMA NothingNew ==
    ASSUME Inv, NEW w \in Worker
    PROVE  /\ entry = [entry EXCEPT ![w] = entry[w]]
           /\ stack = [stack EXCEPT ![w] = stack[w]]
           /\ copies = [copies EXCEPT ![w] = copies[w]]
           /\ table = [table EXCEPT ![w] = table[w]]
PROOF
<1>1. /\ entry \in [Worker -> Nat] /\ stack \in [Worker -> Seq(Frame)]
      /\ copies \in [Worker -> Seq(Copy)] /\ table \in [Worker -> [Class -> Nat]]
    BY DEF Inv, StateTypes
<1>2. QED
    BY <1>1

LEMMA LocalNow ==
    ASSUME Inv, NEW w \in Worker
    PROVE  Local(classes, entry[w], stack[w], copies[w], table[w])
PROOF BY DEF Inv, Copied, Progress

LEMMA LooksAt ==
    ASSUME NEW w \in Worker, Looks(w)
    PROVE  /\ at[w] = "class_table" /\ Looking(classes, entry[w], stack[w])
           /\ LookedFor(w) = Wanted(classes, entry[w], stack[w])
PROOF BY DEF Looks, Making, LookedFor, Looking, Wanted

LEMMA FindClassInv ==
    ASSUME Inv, NEW w \in Worker, FindClass(w) PROVE Inv'
PROOF
<1> DEFINE e == entry[w]
           st == stack[w]
           ms == copies[w]
           t == table[w]
           W == Wanted(classes, e, st)
           ce == CopyOf(t, W)
<1>1. Local(classes, e, st, ms, t)
    BY LocalNow
<1>2. /\ at[w] = "class_table" /\ Looking(classes, e, st) /\ LookedFor(w) = W
      /\ ~Absent(t, W) /\ Returns(w, st, ce)
      /\ UNCHANGED <<mainVars, at, own, countVars>> /\ copies' = copies
    BY LooksAt DEF FindClass
<1>3. st \in Seq(Frame) /\ t \in [Class -> Nat]
    BY DEF Inv, StateTypes
<1>4. CASE st = <<>>
    <2>1. /\ entry' = [entry EXCEPT ![w] = e + 1]
          /\ stack' = [stack EXCEPT ![w] = <<>>]
          /\ table' = IF ce = NoClass THEN table ELSE [table EXCEPT ![w] = [t EXCEPT ![classes[e]] = ce]]
        BY <1>2, <1>4 DEF Returns
    <2>2. W = classes[e] /\ e <= Len(classes)
        BY <1>2, <1>4 DEF Wanted, Looking
    <2>3. /\ ce # NoClass => [t EXCEPT ![classes[e]] = ce] = t
          /\ Local(classes, e + 1, <<>>, ms, t)
        <3>1. /\ Local(classes, e, <<>>, ms, t) /\ ~Absent(t, classes[e])
              /\ ce = CopyOf(t, classes[e])
            BY <1>1, <1>2, <1>4, <2>2
        <3> HIDE DEF e, ms, t, ce, W
        <3>2. QED
            BY <2>2, <3>1, FoundEntry
    <2>4. table' = [table EXCEPT ![w] = t] /\ copies' = [copies EXCEPT ![w] = ms]
        BY <1>2, <2>1, <2>3, NothingNew
    <2> HIDE DEF e, st, ms, t, W, ce
    <2>5. QED
        BY <1>2, <2>1, <2>3, <2>4, CopyingKept
<1>5. CASE st # <<>>
    <2> DEFINE new == [st EXCEPT ![Len(st)] = [st[Len(st)] EXCEPT !.links = Append(@, ce)]]
    <2>1. stack' = [stack EXCEPT ![w] = new] /\ entry' = entry /\ table' = table
        BY <1>2, <1>5 DEF Returns
    <2>2. Local(classes, e, new, ms, t)
        <3> HIDE DEF e, st, ms, t
        <3>1. ce \in Link(Len(ms)) /\ Name(ms, ce) = W /\ ce = InTable(t, W)
            BY <1>1, <1>2, <1>5, FoundLink
        <3> HIDE DEF ce, W
        <3>2. Name(ms, ce) = Wanted(classes, e, st) /\ ce = InTable(t, Wanted(classes, e, st))
            BY <3>1 DEF W
        <3>3. QED
            BY <1>1, <1>2, <1>5, <3>1, <3>2, Delivered
    <2>3. /\ entry' = [entry EXCEPT ![w] = e] /\ table' = [table EXCEPT ![w] = t]
          /\ copies' = [copies EXCEPT ![w] = ms]
        BY <1>2, <2>1, NothingNew
    <2> HIDE DEF e, st, ms, t, W, ce, new
    <2>4. QED
        BY <1>2, <2>1, <2>2, <2>3, CopyingKept
<1>6. QED
    BY <1>4, <1>5

LEMMA MakeClassInv ==
    ASSUME Inv, NEW w \in Worker, MakeClass(w) PROVE Inv'
PROOF
<1> DEFINE e == entry[w]
           st == stack[w]
           ms == copies[w]
           t == table[w]
           new == Append(st, [class |-> Wanted(classes, e, st), links |-> <<>>])
<1>1. Local(classes, e, st, ms, t)
    BY LocalNow
<1>2. /\ at[w] = "class_table" /\ Looking(classes, e, st) /\ Absent(t, Wanted(classes, e, st))
      /\ UNCHANGED <<mainVars, at, own, countVars>>
      /\ entry' = entry /\ copies' = copies /\ table' = table /\ stack' = [stack EXCEPT ![w] = new]
    BY LooksAt DEF MakeClass
<1>3. /\ entry' = [entry EXCEPT ![w] = e] /\ table' = [table EXCEPT ![w] = t]
      /\ copies' = [copies EXCEPT ![w] = ms]
    BY <1>2, NothingNew
<1>4. Local(classes, e, new, ms, t)
    <2> HIDE DEF e, st, ms, t
    <2>1. QED
        BY <1>1, <1>2, Pushed
<1> HIDE DEF e, st, ms, t, new
<1>5. QED
    BY <1>2, <1>3, <1>4, CopyingKept

LEMMA FinishClassInv ==
    ASSUME Inv, NEW w \in Worker, FinishClass(w) PROVE Inv'
PROOF
<1> DEFINE e == entry[w]
           st == stack[w]
           ms == copies[w]
           t == table[w]
           f == st[Len(st)]
           callers == SubSeq(st, 1, Len(st) - 1)
           ms2 == Append(ms, Finished(f))
           ce == Len(ms) + 1
<1>1. Local(classes, e, st, ms, t)
    BY LocalNow
<1>2. /\ at[w] = "class_table" /\ st # <<>> /\ Len(f.links) = Len(Links[f.class])
      /\ copies' = [copies EXCEPT ![w] = ms2] /\ Returns(w, callers, ce)
      /\ UNCHANGED <<mainVars, at, own, countVars>>
    BY DEF FinishClass, Making, Finished
<1>3. st \in Seq(Frame) /\ ms \in Seq(Copy) /\ Len(st) \in Nat /\ Len(ms) \in Nat
    BY DEF Inv, StateTypes
<1>4. Len(st) # 0
    BY <1>2, <1>3, EmptySeq
<1>5. CASE Len(st) = 1
    <2>1. callers = <<>>
        BY <1>5, SubSeqEmpty
    <2>2. ce # NoClass
        <3>1. ce \in Int
            BY <1>3
        <3> HIDE DEF ce
        <3>2. QED
            BY <3>1, Disjoint
    <2>3. /\ entry' = [entry EXCEPT ![w] = e + 1]
          /\ stack' = [stack EXCEPT ![w] = <<>>]
          /\ table' = [table EXCEPT ![w] = [t EXCEPT ![classes[e]] = ce]]
        BY <1>2, <2>1, <2>2 DEF Returns
    <2>4. Local(classes, e + 1, <<>>, ms2, [t EXCEPT ![classes[e]] = ce])
        <3> HIDE DEF e, st, ms, t
        <3>1. QED
            BY <1>1, <1>2, <1>5, Entered1
    <2> HIDE DEF e, st, ms, t, ce, ms2
    <2>5. QED
        BY <1>2, <2>3, <2>4, CopyingKept
<1>6. CASE Len(st) > 1
    <2> DEFINE new == [callers EXCEPT ![Len(callers)] = [callers[Len(callers)] EXCEPT !.links = Append(@, ce)]]
    <2>1. /\ callers # <<>> /\ Local(classes, e, callers, ms2, t)
          /\ Looking(classes, e, callers)
          /\ ce \in Link(Len(ms2))
          /\ Name(ms2, ce) = Wanted(classes, e, callers)
          /\ ~Sorted(classes)
        <3> HIDE DEF e, st, ms, t
        <3>1. QED
            BY <1>1, <1>2, <1>6, Popped
    <2>2. stack' = [stack EXCEPT ![w] = new] /\ entry' = entry /\ table' = table
        BY <1>2, <2>1 DEF Returns
    <2>3. Local(classes, e, new, ms2, t)
        <3> HIDE DEF e, st, ms, t, callers, ms2, ce
        <3>1. QED
            BY <2>1, Delivered
    <2>4. entry' = [entry EXCEPT ![w] = e] /\ table' = [table EXCEPT ![w] = t]
        BY <2>2, NothingNew
    <2> HIDE DEF e, st, ms, t, ms2, ce, callers, new
    <2>5. QED
        BY <1>2, <2>2, <2>3, <2>4, CopyingKept
<1>7. Len(st) = 1 \/ Len(st) > 1
    <2>1. \A n \in Nat : n # 0 => n = 1 \/ n > 1
        OBVIOUS
    <2>2. Len(st) \in Nat
        BY <1>3
    <2> HIDE DEF st
    <2>3. QED
        BY <1>4, <2>1, <2>2
<1>8. QED
    BY <1>5, <1>6, <1>7

-----------------------------------------------------------------------------
(* The counter.                                                            *)
LEMMA CounterKept ==
    ASSUME Inv, NEW w \in Worker, at[w] # "none", at[w] # "class_table", at[w] # "loop",
           UNCHANGED <<mainVars, workerVars>>,
           NEW i \in 6 .. 8, at[w] = Steps[i], GoesOn(w)
    PROVE  /\ at' \in [Worker -> {"none"} \cup {Steps[k] : k \in Steps9}]
           /\ at'[w] = Steps[i + 1]
           /\ \A v \in Worker \ {w} : at'[v] = at[v]
           /\ Waits' /\ Copied'
PROOF
<1>1. i \in 1 .. 8 /\ i \in Steps9
    BY DEF Steps9
<1>2. /\ at' \in [Worker -> {"none"} \cup {Steps[k] : k \in Steps9}]
      /\ at'[w] = Steps[i + 1]
      /\ \A v \in Worker \ {w} : at'[v] = at[v]
    BY <1>1, TypedAt, Advances
<1>3. Waits'
    BY <1>2, WaitsKept
<1>4. Progress(Steps[i], classes, entry[w], stack[w], copies[w], table[w], own[w])
    BY DEF Inv, Copied
<1>5. Steps[i] \notin Table /\ Steps[i] # "class_table"
    <2>1. i = 6 \/ i = 7 \/ i = 8
        OBVIOUS
    <2>2. QED
        BY <2>1, StepsInOrder DEF Table
<1>6. Behind(Steps[i + 1], own[w], table[w])
    BY <1>1, <1>4, <1>5, BehindNext DEF Progress
<1>7. Progress(at'[w], classes, entry[w], stack[w], copies[w], table[w], own[w])
    BY <1>2, <1>4, <1>5, <1>6 DEF Progress
<1>8. Progress(at[w], classes, entry[w], stack[w], copies[w], table[w], own[w])'
    BY <1>7 DEF mainVars, workerVars
<1>9. Copied'
    BY <1>2, <1>8, OthersKept DEF Inv, mainVars, workerVars
<1>10. QED
    BY <1>2, <1>3, <1>9

LEMMA LockCountInv ==
    ASSUME Inv, NEW w \in Worker, LockCount(w) PROVE Inv'
PROOF
<1>0. Worker \subseteq Nat /\ NoThread \notin Worker
    BY ThreadAssumption DEF Worker
<1>1. at[w] = Steps[6] /\ 6 \in 6 .. 8 /\ Steps[6 + 1] = "read" /\ at[w] = "lock"
    BY StepsInOrder DEF LockCount
<1>2. /\ UNCHANGED <<mainVars, workerVars>> /\ GoesOn(w)
      /\ lock = NoThread /\ lock' = w /\ seen' = seen /\ prepared' = prepared
    BY DEF LockCount, LockFree
<1>3. /\ at' \in [Worker -> {"none"} \cup {Steps[k] : k \in Steps9}]
      /\ at'[w] = "read"
      /\ \A v \in Worker \ {w} : at'[v] = at[v]
      /\ Waits' /\ Copied'
    BY <1>1, <1>2, CounterKept
<1>4. StateTypes'
    BY <1>2, <1>3 DEF Inv, StateTypes, mainVars, workerVars
<1>5. Counting'
    <2>1. \A v \in Worker : at[v] \notin {"read", "write"}
        BY <1>0, <1>2 DEF Inv, Counting
    <2>2. Looping' = Looping
        BY <1>1, <1>3 DEF Looping
    <2>3. \A v \in Worker : at'[v] \in {"read", "write"} <=> lock' = v
        BY <1>2, <1>3, <2>1
    <2>4. \A v \in Worker : at'[v] # "write"
        BY <1>3, <2>1
    <2>5. QED
        BY <1>2, <2>2, <2>3, <2>4 DEF Inv, Counting
<1>6. QED
    BY <1>3, <1>4, <1>5 DEF Inv

LEMMA ReadCountInv ==
    ASSUME Inv, NEW w \in Worker, ReadCount(w) PROVE Inv'
PROOF
<1>1. at[w] = Steps[7] /\ 7 \in 6 .. 8 /\ Steps[7 + 1] = "write" /\ at[w] = "read"
    BY StepsInOrder DEF ReadCount
<1>2. /\ UNCHANGED <<mainVars, workerVars>> /\ GoesOn(w)
      /\ lock' = lock /\ seen' = [seen EXCEPT ![w] = prepared] /\ prepared' = prepared
    BY DEF ReadCount
<1>3. /\ at' \in [Worker -> {"none"} \cup {Steps[k] : k \in Steps9}]
      /\ at'[w] = "write"
      /\ \A v \in Worker \ {w} : at'[v] = at[v]
      /\ Waits' /\ Copied'
    BY <1>1, <1>2, CounterKept
<1>4. StateTypes' /\ seen'[w] = prepared
    BY <1>2, <1>3 DEF Inv, StateTypes, mainVars, workerVars
<1>5. Counting'
    <2>1. lock = w
        BY <1>1 DEF Inv, Counting
    <2>2. Looping' = Looping
        BY <1>1, <1>3 DEF Looping
    <2>3. \A v \in Worker : at'[v] \in {"read", "write"} <=> lock' = v
        BY <1>2, <1>3, <2>1 DEF Inv, Counting
    <2>4. \A v \in Worker : at'[v] = "write" => v = w
        BY <1>2, <2>1, <2>3
    <2>5. QED
        BY <1>2, <1>4, <2>2, <2>3, <2>4 DEF Inv, Counting
<1>6. QED
    BY <1>3, <1>4, <1>5 DEF Inv

LEMMA WriteCountInv ==
    ASSUME Inv, NEW w \in Worker, WriteCount(w) PROVE Inv'
PROOF
<1>0. Worker \subseteq Nat /\ NoThread \notin Worker
    BY ThreadAssumption DEF Worker
<1>1. at[w] = Steps[8] /\ 8 \in 6 .. 8 /\ Steps[8 + 1] = "loop" /\ at[w] = "write"
    BY StepsInOrder DEF WriteCount
<1>2. /\ UNCHANGED <<mainVars, workerVars>> /\ GoesOn(w)
      /\ lock' = NoThread /\ seen' = seen /\ prepared' = seen[w] + 1
    BY DEF WriteCount
<1>3. /\ at' \in [Worker -> {"none"} \cup {Steps[k] : k \in Steps9}]
      /\ at'[w] = "loop"
      /\ \A v \in Worker \ {w} : at'[v] = at[v]
      /\ Waits' /\ Copied'
    BY <1>1, <1>2, CounterKept
<1>4. lock = w /\ seen[w] = prepared /\ prepared = Cardinality(Looping)
    BY <1>1 DEF Inv, Counting
<1>5. Looping' = Looping \cup {w} /\ w \notin Looping
    BY <1>1, <1>3 DEF Looping
<1>6. Cardinality(Looping') = Cardinality(Looping) + 1
    BY <1>5, FiniteLooping, FS_AddElement
<1>7. Cardinality(Looping') \in 0 .. ThreadCount
    <2>1. Looping' \in SUBSET Worker
        BY DEF Looping
    <2>2. IsFiniteSet(Looping') /\ Cardinality(Looping') <= Cardinality(Worker)
        BY <2>1, FiniteLooping, FS_Subset
    <2>3. Cardinality(Looping') \in Nat
        BY <2>2, FS_CardinalityType
    <2>4. QED
        BY <2>2, <2>3, FiniteLooping, ThreadAssumption
<1>8. prepared' = Cardinality(Looping')
    BY <1>2, <1>4, <1>6
<1>9. StateTypes'
    BY <1>2, <1>3, <1>7, <1>8 DEF Inv, StateTypes, mainVars, workerVars
<1>10. Counting'
    <2>1. \A v \in Worker : at'[v] \notin {"read", "write"}
        BY <1>3, <1>4 DEF Inv, Counting
    <2>2. QED
        BY <1>0, <1>2, <1>8, <2>1 DEF Counting
<1>11. QED
    BY <1>3, <1>9, <1>10 DEF Inv

-----------------------------------------------------------------------------
(* The invariant holds.                                                    *)
LEMMA StutterInv ==
    ASSUME Inv, UNCHANGED vars PROVE Inv'
PROOF
<1>1. UNCHANGED <<main, created, classes, symbols, at, entry, stack, copies, table, own, lock,
                  seen, prepared>>
    BY DEF vars, mainVars, workerVars, countVars
<1>2. StateTypes' /\ Waits'
    BY <1>1 DEF Inv, StateTypes, Waits
<1>3. Looping' = Looping
    BY <1>1 DEF Looping
<1>4. Counting'
    BY <1>1, <1>3 DEF Inv, Counting
<1>5. Copied'
    BY <1>1 DEF Inv, Copied
<1>6. QED
    BY <1>2, <1>4, <1>5 DEF Inv

LEMMA NextInv ==
    ASSUME Inv, Next PROVE Inv'
PROOF
<1>1. CASE Starts
    BY <1>1, SpawnInv, StopSpinningInv DEF Starts
<1>2. CASE \/ \E c \in Class : DeclareClass(c)
           \/ \E t \in Table, s \in Symbol : DeclareSymbol(t, s)
    BY <1>2, DeclareInv
<1>3. ASSUME NEW w \in Worker, WorkerStep(w) PROVE Inv'
    <2>1. \/ CopyTable(w)
          \/ FindClass(w) \/ MakeClass(w) \/ FinishClass(w) \/ ClassesCopied(w)
          \/ LockCount(w) \/ ReadCount(w) \/ WriteCount(w)
        BY <1>3 DEF WorkerStep
    <2>2. QED
        BY <2>1, CopyTableInv, FindClassInv, MakeClassInv, FinishClassInv, ClassesCopiedInv,
           LockCountInv, ReadCountInv, WriteCountInv
<1>4. QED
    BY <1>1, <1>2, <1>3 DEF Next

LEMMA Invariance == Spec => []Inv
PROOF
<1>1. Init => Inv
    BY InitInv
<1>2. Inv /\ [Next]_vars => Inv'
    BY StutterInv, NextInv
<1>3. QED
    BY <1>1, <1>2, PTL DEF Spec

-----------------------------------------------------------------------------
(* Whatever the classes and the tables of the main thread, each worker's   *)
(* step, counter and class table stay in range, it has no anonymous class, *)
(* and a class of its own links to classes made before it.                 *)
LEMMA LinkedNow ==
    ASSUME NEW r \in Frame, NEW n, \A k \in 1 .. Len(r.links) : r.links[k] \in Link(n)
    PROVE  Linked([class |-> r.class, links |-> r.links], n)
PROOF
<1>1. r.links \in Seq(AnyLink) /\ r.class \in Class \ Anonymous
    BY DEF Frame
<1>2. r.links \in Seq(Link(n))
    <2>1. Len(r.links) \in Nat /\ r.links \in [1 .. Len(r.links) -> AnyLink]
        BY <1>1, LenProperties
    <2>2. r.links \in [1 .. Len(r.links) -> Link(n)]
        BY <2>1
    <2>3. QED
        BY <2>1, <2>2, SeqDef
<1>3. QED
    BY <1>1, <1>2 DEF Linked

LEMMA TypesNow == ASSUME Inv PROVE TypeOK
PROOF
<1>1. ASSUME NEW w \in Worker
      PROVE  /\ entry[w] \in 1 .. Len(classes) + 1
             /\ \A i \in 1 .. Len(stack[w]) : Linked(stack[w][i], Len(copies[w]))
             /\ \A i \in 1 .. Len(copies[w]) : Linked(copies[w][i], i - 1)
             /\ table[w] \in [Class -> 0 .. Len(copies[w])]
             /\ own[w] \in [Table -> SUBSET Symbol]
             /\ seen[w] \in 0 .. ThreadCount
    <2>1. LocalTypes(classes, entry[w], stack[w], copies[w], table[w])
        BY LocalNow DEF Local
    <2>2. stack[w] \in Seq(Frame) /\ copies[w] \in Seq(Copy)
        BY <2>1 DEF LocalTypes
    <2>3. ASSUME NEW i \in 1 .. Len(stack[w]) PROVE Linked(stack[w][i], Len(copies[w]))
        <3>1. stack[w][i] \in Frame
            BY <2>2, FrameFields
        <3>2. \A k \in 1 .. Len(stack[w][i].links) : stack[w][i].links[k] \in Link(Len(copies[w]))
            BY <2>1 DEF LocalTypes
        <3>3. QED
            BY <3>1, <3>2, LinkedNow DEF Linked
    <2>4. ASSUME NEW i \in 1 .. Len(copies[w]) PROVE Linked(copies[w][i], i - 1)
        <3> DEFINE r == [class |-> copies[w][i].class, links |-> copies[w][i].links]
        <3>1. r \in Frame
            BY <2>2, CopyFields DEF Frame
        <3>2. \A k \in 1 .. Len(r.links) : r.links[k] \in Link(i - 1)
            BY <2>1 DEF LocalTypes
        <3>3. Linked(r, i - 1)
            <4>1. Linked([class |-> r.class, links |-> r.links], i - 1)
                <5> HIDE DEF r
                <5>1. QED
                    BY <3>1, <3>2, LinkedNow
            <4>2. QED
                BY <4>1
        <3>4. QED
            BY <3>3 DEF Linked
    <2>5. own[w] \in [Table -> SUBSET Symbol] /\ seen[w] \in 0 .. ThreadCount
        BY DEF Inv, StateTypes
    <2>6. QED
        BY <2>1, <2>3, <2>4, <2>5 DEF LocalTypes
<1>2. at \in [Worker -> {"none"} \cup {Steps[i] : i \in DOMAIN Steps}]
    BY StepsInOrder, TypedAt
<1>3. QED
    BY <1>1, <1>2 DEF TypeOK, Inv, StateTypes

THEOREM Typed == Spec => []TypeOK
PROOF BY Invariance, TypesNow, PTL

(* A worker that has added itself to prepared_thread_count has been        *)
(* through all the copying, so when __construct returns each knows all     *)
(* that the program had declared, whatever the order of its class table.   *)
LEMMA KnownNow == ASSUME Inv PROVE AllKnown
PROOF
<1>1. SUFFICES ASSUME main = "script", NEW w \in Worker
               PROVE  /\ \A o \in Orders, c \in Class \ Anonymous :
                            (\E i \in 1 .. Len(o) : o[i] = c) => table[w][c] # NotThere
                      /\ \A t \in Table : Early[t] \subseteq own[w][t]
    BY DEF AllKnown
<1>2. at[w] = Steps[9] /\ 9 \in Steps9
    BY <1>1, StepsInOrder DEF Inv, Waits, Steps9
<1>3. Behind(at[w], own[w], table[w])
    BY DEF Inv, Copied, Progress
<1>4. ASSUME NEW j \in 1 .. 8
      PROVE  /\ Steps[j] \in Table => Early[Steps[j]] \subseteq own[w][Steps[j]]
             /\ Steps[j] = "class_table" => AllEarlyIn(table[w])
    <2>1. j \in 1 .. 9 - 1
        OBVIOUS
    <2>2. QED
        BY <1>2, <1>3, <2>1 DEF Behind
<1>5. AllEarlyIn(table[w])
    <2>1. 3 \in 1 .. 8 /\ Steps[3] = "class_table"
        BY StepsInOrder
    <2>2. QED
        BY <1>4, <2>1
<1>6. \A t \in Table : Early[t] \subseteq own[w][t]
    <2>1. \A t \in Table : \E j \in 1 .. 8 : t = Steps[j]
        <3>1. 1 \in 1 .. 8 /\ 2 \in 1 .. 8 /\ 4 \in 1 .. 8 /\ 5 \in 1 .. 8
            OBVIOUS
        <3>2. QED
            BY <3>1, StepsInOrder DEF Table
    <2>2. QED
        BY <1>4, <2>1
<1>7. QED
    BY <1>5, <1>6 DEF AllEarlyIn

THEOREM Known == Spec => []AllKnown
PROOF BY Invariance, KnownNow, PTL

(* A copy links to copies of what its original links to; and if classes    *)
(* come after those they mention, a worker has one copy of each class.     *)
LEMMA LinkedAlikeNow == ASSUME Inv PROVE LinkedAlike
PROOF
<1>1. SUFFICES ASSUME NEW w \in Worker, NEW i \in 1 .. Len(copies[w])
               PROVE  [k \in 1 .. Len(copies[w][i].links) |-> NameOf(w, copies[w][i].links[k])]
                        = Links[copies[w][i].class]
    BY DEF LinkedAlike
<1>2. Local(classes, entry[w], stack[w], copies[w], table[w])
    BY LocalNow
<1>3. copies[w] \in Seq(Copy)
    BY <1>2 DEF Local, LocalTypes
<1>4. /\ Alike(copies[w], copies[w][i])
      /\ Len(copies[w][i].links) = Len(Links[copies[w][i].class])
    BY <1>2 DEF Local, Made
<1>5. copies[w][i].class \in Class
    BY <1>3, CopyFields
<1>6. Links[copies[w][i].class] \in Seq((Class \ Anonymous) \cup Internal \cup {NoClass})
    BY <1>5, ClassAssumption
<1>7. Links[copies[w][i].class]
        \in [1 .. Len(copies[w][i].links) -> (Class \ Anonymous) \cup Internal \cup {NoClass}]
    BY <1>4, <1>6, LenProperties
<1>8. \A k \in 1 .. Len(copies[w][i].links) :
        NameOf(w, copies[w][i].links[k]) = Links[copies[w][i].class][k]
    BY <1>4 DEF Alike, Name, NameOf
<1>9. QED
    BY <1>7, <1>8

LEMMA OneCopyNow == ASSUME Inv PROVE OneCopyEach
PROOF
<1>1. SUFFICES ASSUME InOrder, NEW w \in Worker, NEW i \in 1 .. Len(copies[w])
               PROVE  /\ table[w][copies[w][i].class] = i
                      /\ \A k \in 1 .. Len(copies[w][i].links) :
                            copies[w][i].links[k] = Entered(w, Links[copies[w][i].class][k])
    BY DEF OneCopyEach
<1>2. Sorted(classes)
    BY <1>1 DEF InOrder, Sorted
<1>3. Single(classes, stack[w], copies[w], table[w])
    BY LocalNow DEF Local
<1>4. table[w][copies[w][i].class] = i /\ Settled(table[w], copies[w][i])
    BY <1>2, <1>3 DEF Single
<1>5. QED
    BY <1>4 DEF Settled, InTable, Entered

THEOREM Linkage == Spec => []LinksKept
PROOF
<1>1. Inv => LinksKept
    BY LinkedAlikeNow, OneCopyNow DEF LinksKept
<1>2. QED
    BY <1>1, Invariance, PTL

(* No worker reaches a string, an array, a constant or a constant          *)
(* expression that the main thread counts, however its values are nested.  *)
LEMMA NoneSharedNow == ASSUME Inv PROVE NoneShared
PROOF
<1>1. SUFFICES ASSUME NEW w \in Worker, NEW i \in 1 .. Len(copies[w]),
                      NEW v \in copies[w][i].data
               PROVE  SharedWithMain(v) \subseteq Shareable
    BY DEF NoneShared, Shareable
<1>2. Local(classes, entry[w], stack[w], copies[w], table[w])
    BY LocalNow
<1>3. copies[w][i].class \in Class
    <2>1. copies[w] \in Seq(Copy)
        BY <1>2 DEF Local, LocalTypes
    <2>2. QED
        BY <2>1, CopyFields
<1>4. v \in ClassData(copies[w][i].class)
    BY <1>2 DEF Local, Made
<1>5. QED
    BY <1>3, <1>4, DataShares

THEOREM Separate == Spec => []NoneShared
PROOF BY Invariance, NoneSharedNow, PTL

(* While a worker reads the tables of the main thread without a lock, no   *)
(* step changes them.                                                      *)
LEMMA StableStep ==
    ASSUME Inv, [Next]_vars, NEW w \in Worker, Copying(w)
    PROVE  UNCHANGED <<classes, symbols>>
PROOF
<1>1. at[w] # "loop"
    BY DEF Copying, Table
<1>2. main # "script"
    BY <1>1, StillWaiting
<1>3. CASE Starts
    BY <1>3 DEF Starts, Spawn, StopSpinning
<1>4. CASE \/ \E c \in Class : DeclareClass(c)
           \/ \E t \in Table, s \in Symbol : DeclareSymbol(t, s)
    BY <1>2, <1>4 DEF DeclareClass, DeclareSymbol
<1>5. ASSUME NEW v \in Worker, WorkerStep(v) PROVE UNCHANGED <<classes, symbols>>
    <2>1. UNCHANGED mainVars
        BY <1>5 DEF WorkerStep, CopyTable, FindClass, MakeClass, FinishClass, ClassesCopied,
                    LockCount, ReadCount, WriteCount
    <2>2. QED
        BY <2>1 DEF mainVars
<1>6. CASE UNCHANGED vars
    BY <1>6 DEF vars, mainVars
<1>7. QED
    BY <1>3, <1>4, <1>5, <1>6 DEF Next

THEOREM SourceStays == Spec => SourceStable
PROOF
<1>1. Inv /\ [Next]_vars
        => [(\E w \in Worker : Copying(w)) => UNCHANGED <<classes, symbols>>]_vars
    BY StableStep
<1>2. QED
    BY <1>1, Invariance, PTL DEF Spec, SourceStable

=============================================================================
