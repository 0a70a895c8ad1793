------------------------------ MODULE ImportsOps ------------------------------
(***************************************************************************)
(* The constants of an Imports object (lib/api/src/{sys,js}/imports.rs)  *)
(* and the operators on its map that both the abstract specification      *)
(* ImportsMap and the detailed one Imports are written with.              *)
(***************************************************************************)
EXTENDS Naturals, Sequences

CONSTANTS
    Objs,        \* the Imports objects a program holds
    Namespaces,  \* the namespace strings used as the first half of a key
    Names,       \* the name strings used as the second half of a key
    Externs,     \* the externs (functions, memories, globals, tables)
    Absent,      \* marks a key the map does not hold
    None,        \* Option::None returned by a query
    Contents,    \* the sequences of (name, extern) given to register_namespace
    ModImports   \* the sequences of keys module.imports() may yield

Keys == Namespaces \X Names
Maps == [Keys -> Externs \cup {Absent}]

ASSUME ImportsAssumption ==
    /\ Absent \notin Externs
    /\ None \notin Externs \cup {Absent}
    /\ None \notin [Names -> Externs \cup {Absent}]
    /\ Contents \subseteq Seq(Names \X Externs)
    /\ ModImports \subseteq Seq(Keys)

(* A call's result, or its arguments when it returns (), tagged with the   *)
(* operation called.                                                       *)
Result(q, v) == [op |-> q, val |-> v]
NoQuery == Result("none", None)

(* HashMap::new(): an Imports holds no key.                                *)
EmptyMap == [k \in Keys |-> Absent]

Present(m, k) == m[k] # Absent

(* The position of the last pair for name n in c at or after position i:  *)
(* the insertion that register_namespace leaves in place.                 *)
LastFrom(c, i, n) ==
    CHOOSE j \in i..Len(c) : /\ c[j][1] = n
                             /\ \A l \in (j + 1)..Len(c) : c[l][1] # n

(* m after inserting the pairs of c from position i on into namespace ns, *)
(* in order: each name takes its last extern, other keys are kept.         *)
Registered(m, ns, c, i) ==
    [k \in Keys |-> IF k[1] = ns /\ \E j \in i..Len(c) : c[j][1] = k[2]
                    THEN c[LastFrom(c, i, k[2])][2]
                    ELSE m[k]]

(* m after defining every key that s holds: s's externs replace m's.       *)
Extended(m, s) == [k \in Keys |-> IF Present(s, k) THEN s[k] ELSE m[k]]

(* The externs of a namespace as an Exports, or None when it has none.     *)
NamespaceExports(m, ns) ==
    IF \A n \in Names : ~Present(m, <<ns, n>>)
    THEN None
    ELSE [n \in Names |-> m[<<ns, n>>]]

(* The position of the first import of imps that m does not hold.          *)
FirstMissing(m, imps) ==
    CHOOSE i \in 1..Len(imps) : /\ ~Present(m, imps[i])
                                /\ \A j \in 1..(i - 1) : Present(m, imps[j])

(* Ok with the externs of imps in order when m holds all of them, else    *)
(* the LinkError naming the first one it lacks.                            *)
LinkResult(m, imps) ==
    IF \A i \in 1..Len(imps) : Present(m, imps[i])
    THEN [ok |-> TRUE, ret |-> [i \in 1..Len(imps) |-> m[imps[i]]], err |-> None]
    ELSE [ok |-> FALSE, ret |-> <<>>, err |-> imps[FirstMissing(m, imps)]]
=============================================================================
