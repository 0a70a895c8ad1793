---------------------------- MODULE ImportsProofs ----------------------------
(***************************************************************************)
(* Proofs, for every set of objects, keys, externs and inputs, that the    *)
(* Imports model is well typed and that its loops implement the atomic     *)
(* map of ImportsMap under the refinement mapping AbsMap.                   *)
(***************************************************************************)
EXTENDS Imports, SequenceTheorems, TLAPS

USE ImportsAssumption

(* While imports_for_module runs, ret holds the externs of the imports    *)
(* looked up so far, and the map held every one of them.                   *)
LinkInv ==
    op.kind = "link" =>
        /\ op.ret = [j \in 1..(op.i - 1) |-> map[op.obj][op.imps[j]]]
        /\ \A j \in 1..(op.i - 1) : Present(map[op.obj], op.imps[j])

IInv == ImportsTypeOK /\ LinkInv

-----------------------------------------------------------------------------
(* The last pair for a name from position i on is the one from position    *)
(* i + 1 on, unless the pair at i is that last pair.                       *)
LEMMA LastFromShift ==
    ASSUME NEW c \in Seq(Names \X Externs), NEW i \in 1..Len(c), NEW n \in Names,
           \/ c[i][1] # n
           \/ \E l \in (i + 1)..Len(c) : c[l][1] = n
    PROVE  LastFrom(c, i, n) = LastFrom(c, i + 1, n)
<1> DEFINE P(j) == /\ c[j][1] = n
                   /\ \A l \in (j + 1)..Len(c) : c[l][1] # n
<1>1. \A j : (j \in i..Len(c) /\ P(j)) <=> (j \in (i + 1)..Len(c) /\ P(j))
    BY SMT
<1>2. QED
    BY <1>1, Zenon DEF LastFrom

(* The pair at i is the last for its name when no later pair has it.       *)
LEMMA LastFromHere ==
    ASSUME NEW c \in Seq(Names \X Externs), NEW i \in 1..Len(c),
           \A l \in (i + 1)..Len(c) : c[l][1] # c[i][1]
    PROVE  LastFrom(c, i, c[i][1]) = i
<1> DEFINE n == c[i][1]
           P(j) == /\ c[j][1] = n
                   /\ \A l \in (j + 1)..Len(c) : c[l][1] # n
<1>1. i \in i..Len(c) /\ P(i)
    OBVIOUS
<1>2. \A j \in i..Len(c) : P(j) => j = i
    BY SMT
<1>3. QED
    BY <1>1, <1>2, Zenon DEF LastFrom

(* One insert of register_namespace's loop leaves the abstract map alone: *)
(* the map after the insert, with the rest of the pairs applied, is the    *)
(* map before it with the pairs from the insert's position on applied.     *)
LEMMA RegisteredStep ==
    ASSUME NEW m \in Maps, NEW ns \in Namespaces,
           NEW c \in Seq(Names \X Externs), NEW i \in 1..Len(c)
    PROVE  Registered([m EXCEPT ![<<ns, c[i][1]>>] = c[i][2]], ns, c, i + 1)
           = Registered(m, ns, c, i)
<1> DEFINE n0 == c[i][1]
           m2 == [m EXCEPT ![<<ns, n0>>] = c[i][2]]
<1>1. SUFFICES ASSUME NEW k \in Keys
               PROVE  Registered(m2, ns, c, i + 1)[k] = Registered(m, ns, c, i)[k]
    BY DEF Registered
<1>2. CASE k = <<ns, n0>> /\ \E l \in (i + 1)..Len(c) : c[l][1] = n0
    <2>1. LastFrom(c, i, n0) = LastFrom(c, i + 1, n0)
        BY <1>2, LastFromShift
    <2>2. QED
        BY <1>2, <2>1 DEF Registered
<1>3. CASE k = <<ns, n0>> /\ ~\E l \in (i + 1)..Len(c) : c[l][1] = n0
    <2>1. LastFrom(c, i, n0) = i
        BY <1>3, LastFromHere
    <2>2. k \in DOMAIN m
        BY DEF Maps
    <2>3. QED
        BY <1>3, <2>1, <2>2 DEF Registered
<1>4. CASE k[1] = ns /\ k[2] # n0
    <2>1. LastFrom(c, i, k[2]) = LastFrom(c, i + 1, k[2])
        BY <1>4, LastFromShift DEF Keys
    <2>2. (\E j \in i..Len(c) : c[j][1] = k[2])
          <=> \E j \in (i + 1)..Len(c) : c[j][1] = k[2]
        BY <1>4, SMT
    <2>3. m2[k] = m[k]
        BY <1>4 DEF Maps, Keys
    <2>4. QED
        BY <2>1, <2>2, <2>3 DEF Registered
<1>5. CASE k[1] # ns
    <2>1. m2[k] = m[k]
        BY <1>5 DEF Maps, Keys
    <2>2. QED
        BY <1>5, <2>1 DEF Registered
<1>6. QED
    BY <1>2, <1>3, <1>4, <1>5 DEF Keys

(* Once the loop is past the last pair, nothing is left to apply.          *)
LEMMA RegisteredEnd ==
    ASSUME NEW m \in Maps, NEW ns \in Namespaces, NEW c \in Seq(Names \X Externs)
    PROVE  Registered(m, ns, c, Len(c) + 1) = m
BY DEF Registered, Maps

(* The first missing import is the one the lookup loop stops at.           *)
LEMMA FirstMissingHere ==
    ASSUME NEW m \in Maps, NEW imps \in Seq(Keys), NEW i \in 1..Len(imps),
           ~Present(m, imps[i]),
           \A j \in 1..(i - 1) : Present(m, imps[j])
    PROVE  FirstMissing(m, imps) = i
<1> DEFINE P(j) == /\ ~Present(m, imps[j])
                   /\ \A l \in 1..(j - 1) : Present(m, imps[l])
<1>1. i \in 1..Len(imps) /\ P(i)
    OBVIOUS
<1>2. \A j \in 1..Len(imps) : P(j) => j = i
    BY SMT
<1>3. QED
    BY <1>1, <1>2, Zenon DEF FirstMissing
-----------------------------------------------------------------------------
(* What the record updates of the three loops leave in a loop state.       *)
LEMMA RegisterLoopStep ==
    ASSUME NEW r \in RegisterLoops
    PROVE  /\ [r EXCEPT !.i = r.i + 1] \in RegisterLoops
           /\ [r EXCEPT !.i = r.i + 1].kind = r.kind
           /\ [r EXCEPT !.i = r.i + 1].items = r.items
           /\ [r EXCEPT !.i = r.i + 1].obj = r.obj
           /\ [r EXCEPT !.i = r.i + 1].ns = r.ns
           /\ [r EXCEPT !.i = r.i + 1].i = r.i + 1
BY DEF RegisterLoops

LEMMA ExtendLoopStep ==
    ASSUME NEW r \in ExtendLoops, NEW k
    PROVE  /\ [r EXCEPT !.pending = r.pending \ {k}] \in ExtendLoops
           /\ [r EXCEPT !.pending = r.pending \ {k}].kind = r.kind
           /\ [r EXCEPT !.pending = r.pending \ {k}].obj = r.obj
           /\ [r EXCEPT !.pending = r.pending \ {k}].snap = r.snap
           /\ [r EXCEPT !.pending = r.pending \ {k}].pending = r.pending \ {k}
BY DEF ExtendLoops

LEMMA LinkLoopStep ==
    ASSUME NEW r \in LinkLoops, NEW e \in Externs
    PROVE  /\ [r EXCEPT !.i = r.i + 1, !.ret = Append(r.ret, e)] \in LinkLoops
           /\ [r EXCEPT !.i = r.i + 1, !.ret = Append(r.ret, e)].kind = r.kind
           /\ [r EXCEPT !.i = r.i + 1, !.ret = Append(r.ret, e)].obj = r.obj
           /\ [r EXCEPT !.i = r.i + 1, !.ret = Append(r.ret, e)].imps = r.imps
           /\ [r EXCEPT !.i = r.i + 1, !.ret = Append(r.ret, e)].i = r.i + 1
           /\ [r EXCEPT !.i = r.i + 1, !.ret = Append(r.ret, e)].ret
              = Append(r.ret, e)
<1>1. Append(r.ret, e) \in Seq(Externs)
    BY AppendProperties DEF LinkLoops
<1>2. [r EXCEPT !.i = r.i + 1] \in LinkLoops
    BY DEF LinkLoops
<1>3. [r EXCEPT !.i = r.i + 1, !.ret = Append(r.ret, e)]
      = [[r EXCEPT !.i = r.i + 1] EXCEPT !.ret = Append(r.ret, e)]
    OBVIOUS
<1>4. QED
    BY <1>1, <1>2, <1>3 DEF LinkLoops

(* In a well-typed state the kind of the loop state says which loop it is. *)
LEMMA LoopKinds ==
    ASSUME ImportsTypeOK
    PROVE  /\ op.kind = "register" => op \in RegisterLoops /\ op.i <= Len(op.items) + 1
           /\ op.kind = "extend" => op \in ExtendLoops
           /\ op.kind = "link" => op \in LinkLoops /\ op.i <= Len(op.imps) + 1
           /\ op.kind \notin {"register", "extend", "link"} => op = Idle
BY DEF ImportsTypeOK, RegisterLoops, ExtendLoops, LinkLoops, Idle

(* The initial state satisfies the invariant.                              *)
LEMMA InitInv == Init => IInv
BY DEF Init, IInv, ImportsTypeOK, LinkInv, Idle, EmptyMap, Maps

(* Every step of the model keeps the invariant.                            *)
LEMMA InvStep == IInv /\ [Next]_vars => IInv'
<1> SUFFICES ASSUME IInv, [Next]_vars PROVE IInv'
    OBVIOUS
<1> USE DEF IInv, ImportsTypeOK, LinkInv, Idle
<1>1. ASSUME NEW o \in Objs, NEW ns \in Namespaces, NEW n \in Names,
             NEW e \in Externs, Define(o, ns, n, e)
      PROVE  IInv'
    BY <1>1 DEF Define, Maps, Keys
<1>2. ASSUME NEW o \in Objs, NEW ns \in Namespaces, NEW c \in Contents,
             RegisterStart(o, ns, c)
      PROVE  IInv'
    <2>1. Len(c) \in Nat
        BY ImportsAssumption
    <2>2. /\ op' \in RegisterLoops
          /\ op'.i = 1 /\ op'.kind = "register" /\ op'.items = c
        BY <1>2 DEF RegisterStart, RegisterLoops
    <2>3. QED
        BY <1>2, <2>1, <2>2 DEF RegisterStart
<1>3. ASSUME NEW o \in Objs, NEW src \in Objs, ExtendStart(o, src)
      PROVE  IInv'
    <2>1. /\ op' \in ExtendLoops /\ op'.kind = "extend"
        BY <1>3 DEF ExtendStart, ExtendLoops, Maps, Keys
    <2>2. QED
        BY <1>3, <2>1 DEF ExtendStart
<1>4. ASSUME NEW o \in Objs, NEW k \in Keys, GetExport(o, k) PROVE IInv'
    BY <1>4 DEF GetExport
<1>5. ASSUME NEW o \in Objs, NEW ns \in Namespaces, ContainsNamespace(o, ns)
      PROVE  IInv'
    BY <1>5 DEF ContainsNamespace
<1>6. ASSUME NEW o \in Objs, NEW ns \in Namespaces, GetNamespaceExports(o, ns)
      PROVE  IInv'
    BY <1>6 DEF GetNamespaceExports
<1>7. ASSUME NEW o \in Objs, NEW imps \in ModImports, LinkStart(o, imps)
      PROVE  IInv'
    <2>1. Len(imps) \in Nat /\ << >> \in Seq(Externs)
        BY ImportsAssumption
    <2>2. /\ op' \in LinkLoops
          /\ op'.i = 1 /\ op'.kind = "link" /\ op'.imps = imps /\ op'.ret = << >>
        BY <1>7, <2>1 DEF LinkStart, LinkLoops
    <2>3. QED
        BY <1>7, <2>1, <2>2 DEF LinkStart
<1>8. CASE RegisterInsert
    <2>1. op \in RegisterLoops /\ op.i <= Len(op.items)
        BY <1>8, LoopKinds DEF RegisterInsert
    <2>2. op.items[op.i] \in Names \X Externs /\ Len(op.items) \in Nat
        BY <2>1, ImportsAssumption DEF RegisterLoops
    <2>3. map' \in [Objs -> Maps]
        BY <1>8, <2>1, <2>2 DEF RegisterInsert, RegisterLoops, Maps, Keys
    <2>4. /\ op' \in RegisterLoops
          /\ op'.i = op.i + 1 /\ op'.items = op.items /\ op'.kind = "register"
        BY <1>8, <2>1, RegisterLoopStep DEF RegisterInsert
    <2>5. op'.i <= Len(op'.items) + 1
        BY <2>1, <2>2, <2>4 DEF RegisterLoops
    <2>6. QED
        BY <2>3, <2>4, <2>5, Zenon
<1>9. CASE ExtendInsert
    <2>1. op \in ExtendLoops
        BY <1>9, LoopKinds DEF ExtendInsert
    <2>2. PICK k \in op.pending :
                 /\ map' = [map EXCEPT ![op.obj][k] = op.snap[k]]
                 /\ op' = [op EXCEPT !.pending = @ \ {k}]
        BY <1>9 DEF ExtendInsert
    <2>3. map' \in [Objs -> Maps]
        BY <2>1, <2>2 DEF ExtendLoops, Maps, Keys
    <2>4. /\ [op EXCEPT !.pending = op.pending \ {k}] \in ExtendLoops
          /\ [op EXCEPT !.pending = op.pending \ {k}].kind = op.kind
        BY <2>1, ExtendLoopStep
    <2>5. op' \in ExtendLoops /\ op'.kind = "extend"
        BY <1>9, <2>2, <2>4 DEF ExtendInsert
    <2>6. QED
        BY <2>3, <2>5
<1>10. CASE LoopDone
    BY <1>10 DEF LoopDone
<1>11. CASE LinkLookup
    <2> DEFINE o == op.obj  k == op.imps[op.i]
    <2>1. /\ op \in LinkLoops
          /\ op.i <= Len(op.imps)
          /\ UNCHANGED map
        BY <1>11, LoopKinds DEF LinkLookup
    <2>2. /\ op.imps \in Seq(Keys) /\ op.ret \in Seq(Externs)
          /\ op.i \in Nat \ {0} /\ o \in Objs
          /\ k \in Keys /\ map[o][k] \in Externs \cup {Absent}
        BY <2>1, ImportsAssumption DEF LinkLoops, Maps
    <2>3. CASE Present(map[o], k)
        <3>1. map[o][k] \in Externs
            BY <2>2, <2>3 DEF Present
        <3>2. op' = [op EXCEPT !.i = @ + 1, !.ret = Append(@, map[o][k])]
            BY <1>11, <2>3 DEF LinkLookup
        <3>3. /\ op' \in LinkLoops
              /\ op'.kind = "link" /\ op'.obj = o /\ op'.imps = op.imps
              /\ op'.i = op.i + 1 /\ op'.ret = Append(op.ret, map[o][k])
            <4>1. LET r2 == [op EXCEPT !.i = op.i + 1, !.ret = Append(op.ret, map[o][k])]
                  IN  /\ r2 \in LinkLoops
                      /\ r2.kind = op.kind /\ r2.obj = op.obj /\ r2.imps = op.imps
                      /\ r2.i = op.i + 1 /\ r2.ret = Append(op.ret, map[o][k])
                BY <2>1, <3>1, LinkLoopStep
            <4>2. QED
                BY <2>1, <3>2, <4>1 DEF LinkLoops
        <3>4. op.ret = [j \in 1..(op.i - 1) |-> map[o][op.imps[j]]]
            BY <2>1 DEF LinkLoops
        <3>5. op'.ret = [j \in 1..op.i |-> map[o][op.imps[j]]]
            <4>1. Len(op.ret) = op.i - 1
                BY <2>2, <3>4, LenProperties
            <4>2. /\ Append(op.ret, map[o][k]) \in Seq(Externs)
                  /\ Len(Append(op.ret, map[o][k])) = op.i
                  /\ \A j \in 1..(op.i - 1) : Append(op.ret, map[o][k])[j] = op.ret[j]
                  /\ Append(op.ret, map[o][k])[op.i] = map[o][k]
                BY <2>2, <3>1, <4>1, AppendProperties
            <4>3. DOMAIN Append(op.ret, map[o][k]) = 1..op.i
                BY <4>2, LenProperties
            <4>4. \A j \in 1..op.i : Append(op.ret, map[o][k])[j] = map[o][op.imps[j]]
                <5>1. \A j \in 1..(op.i - 1) : op.ret[j] = map[o][op.imps[j]]
                    BY <3>4
                <5>2. Append(op.ret, map[o][k])[op.i] = map[o][op.imps[op.i]]
                    BY <4>2
                <5>3. SUFFICES ASSUME NEW j \in 1..op.i
                               PROVE  Append(op.ret, map[o][k])[j] = map[o][op.imps[j]]
                    OBVIOUS
                <5>4. CASE j = op.i
                    BY <5>2, <5>4
                <5>5. CASE j \in 1..(op.i - 1)
                    BY <4>2, <5>1, <5>5
                <5>6. j = op.i \/ j \in 1..(op.i - 1)
                    BY <2>2, SMT
                <5>7. QED
                    BY <5>4, <5>5, <5>6, Zenon
            <4>5. Append(op.ret, map[o][k]) \in [1..op.i -> Externs]
                BY <4>2, LenProperties
            <4>6. Append(op.ret, map[o][k]) = [j \in 1..op.i |-> map[o][op.imps[j]]]
                BY <4>4, <4>5, Zenon
            <4>7. QED
                BY <3>3, <4>6
        <3>6. \A j \in 1..(op'.i - 1) : Present(map'[op'.obj], op'.imps[j])
            <4>1. \A j \in 1..(op.i - 1) : Present(map[o], op.imps[j])
                BY <2>1 DEF LinkLoops
            <4>2. \A j \in 1..op.i : Present(map[o], op.imps[j])
                BY <2>2, <2>3, <4>1
            <4>3. op'.i - 1 = op.i /\ op'.obj = o /\ op'.imps = op.imps /\ map' = map
                BY <2>1, <2>2, <3>3
            <4>4. QED
                BY <4>2, <4>3, Zenon
        <3>7. QED
            BY <2>1, <2>2, <3>3, <3>5, <3>6
    <2>4. CASE ~Present(map[o], k)
        BY <1>11, <2>4 DEF LinkLookup
    <2>5. QED
        BY <2>3, <2>4
<1>12. CASE LinkDone
    BY <1>12 DEF LinkDone
<1>13. CASE UNCHANGED vars
    BY <1>13 DEF vars
<1>14. QED
    BY <1>1, <1>2, <1>3, <1>4, <1>5, <1>6, <1>7, <1>8, <1>9, <1>10, <1>11,
       <1>12, <1>13 DEF Next

(* Every reachable state of the Imports model is well typed.               *)
THEOREM ImportsTypeCorrect == Spec => []ImportsTypeOK
<1>1. Spec => []IInv
    BY InitInv, InvStep, PTL DEF Spec
<1>2. QED
    BY <1>1, PTL DEF IInv
-----------------------------------------------------------------------------
(* With no register or extend loop in progress the abstract map is the map. *)
LEMMA AbsMapIdle ==
    op.kind \notin {"register", "extend"} => AbsMap = map
BY DEF AbsMap

(* The operators of ImportsOps mean the same through the instance A.     *)
LEMMA InstanceOps ==
    /\ \A q, v : A!Result(q, v) = Result(q, v)
    /\ A!Keys = Keys
    /\ \A m, k : A!Present(m, k) = Present(m, k)
    /\ \A m, ns, c, i : A!Registered(m, ns, c, i) = Registered(m, ns, c, i)
    /\ \A m, s : A!Extended(m, s) = Extended(m, s)
    /\ \A m, ns : A!NamespaceExports(m, ns) = NamespaceExports(m, ns)
    /\ \A m, imps : A!LinkResult(m, imps) = LinkResult(m, imps)
BY DEF Result, A!Result, Keys, A!Keys, Present, A!Present, Registered,
       A!Registered, LastFrom, A!LastFrom, Extended, A!Extended,
       NamespaceExports, A!NamespaceExports, LinkResult, A!LinkResult,
       FirstMissing, A!FirstMissing

(* Every step of the model is a step of ImportsMap on the abstract map, or *)
(* leaves the abstract map and the last call as they were.                 *)
LEMMA RefineStep ==
    ASSUME IInv, IInv', [Next]_vars
    PROVE  [A!ANext]_(A!avars)
<1> USE DEF A!avars
<1>1. ASSUME NEW o \in Objs, NEW ns \in Namespaces, NEW n \in Names,
             NEW e \in Externs, Define(o, ns, n, e)
      PROVE  [A!ANext]_(A!avars)
    <2>1. AbsMap = map /\ AbsMap' = map'
        BY <1>1 DEF Define, AbsMap, Idle
    <2>2. A!ADefine(o, ns, n, e)
        BY <1>1, <2>1 DEF Define, A!ADefine, Result, A!Result
    <2>3. QED
        BY <2>2 DEF A!ANext
<1>4. ASSUME NEW o \in Objs, NEW k \in Keys, GetExport(o, k)
      PROVE  [A!ANext]_(A!avars)
    <2>1. AbsMap = map /\ AbsMap' = map'
        BY <1>4 DEF GetExport, AbsMap, Idle
    <2>2. A!AGetExport(o, k)
        BY <1>4, <2>1 DEF GetExport, A!AGetExport, Result, A!Result, Present, A!Present
    <2>3. QED
        BY <2>2, Zenon DEF A!ANext, Keys, A!Keys
<1>2. ASSUME NEW o \in Objs, NEW ns \in Namespaces, NEW c \in Contents,
             RegisterStart(o, ns, c)
      PROVE  [A!ANext]_(A!avars)
    <2>1. AbsMap = map
        BY <1>2 DEF RegisterStart, AbsMap, Idle
    <2>2. /\ op'.kind = "register" /\ op'.obj = o /\ op'.ns = ns
          /\ op'.items = c /\ op'.i = 1
        BY <1>2 DEF RegisterStart
    <2>3. AbsMap' = [map' EXCEPT ![o] = Registered(map'[o], ns, c, 1)]
        BY <2>2 DEF AbsMap
    <2>4. A!ARegister(o, ns, c)
        BY <1>2, <2>1, <2>3, InstanceOps DEF RegisterStart, A!ARegister
    <2>5. QED
        BY <2>4, Zenon DEF A!ANext
<1>3. ASSUME NEW o \in Objs, NEW src \in Objs, ExtendStart(o, src)
      PROVE  [A!ANext]_(A!avars)
    <2>1. AbsMap = map
        BY <1>3 DEF ExtendStart, AbsMap, Idle
    <2>2. /\ op'.kind = "extend" /\ op'.obj = o /\ op'.snap = map[src]
          /\ op'.pending = {k \in Keys : Present(map[src], k)}
        BY <1>3 DEF ExtendStart
    <2>3. AbsMap' = [map' EXCEPT ![o] = Extended(map'[o], map'[src])]
        BY <1>3, <2>2 DEF ExtendStart, AbsMap, Extended
    <2>4. A!AExtend(o, src)
        BY <1>3, <2>1, <2>3, InstanceOps DEF ExtendStart, A!AExtend
    <2>5. QED
        BY <2>4, Zenon DEF A!ANext
<1>5. ASSUME NEW o \in Objs, NEW ns \in Namespaces, ContainsNamespace(o, ns)
      PROVE  [A!ANext]_(A!avars)
    <2>1. AbsMap = map /\ AbsMap' = map'
        BY <1>5 DEF ContainsNamespace, AbsMap, Idle
    <2>2. (\E k \in Keys : k[1] = ns /\ Present(map[o], k))
          <=> \E n \in Names : Present(map[o], <<ns, n>>)
        <3>1. ASSUME NEW k \in Keys, k[1] = ns, Present(map[o], k)
              PROVE  \E n \in Names : Present(map[o], <<ns, n>>)
            <4>1. k = <<ns, k[2]>> /\ k[2] \in Names
                BY <3>1 DEF Keys
            <4>2. QED
                BY <3>1, <4>1
        <3>2. ASSUME NEW n \in Names, Present(map[o], <<ns, n>>)
              PROVE  \E k \in Keys : k[1] = ns /\ Present(map[o], k)
            BY <3>2 DEF Keys
        <3>3. QED
            BY <3>1, <3>2
    <2>3. A!AContainsNamespace(o, ns)
        BY <1>5, <2>1, <2>2, InstanceOps DEF ContainsNamespace, A!AContainsNamespace
    <2>4. QED
        BY <2>3, Zenon DEF A!ANext
<1>6. ASSUME NEW o \in Objs, NEW ns \in Namespaces, GetNamespaceExports(o, ns)
      PROVE  [A!ANext]_(A!avars)
    <2>1. AbsMap = map /\ AbsMap' = map'
        BY <1>6 DEF GetNamespaceExports, AbsMap, Idle
    <2>2. A!AGetNamespaceExports(o, ns)
        BY <1>6, <2>1, InstanceOps
        DEF GetNamespaceExports, A!AGetNamespaceExports, NamespaceExports, Present
    <2>3. QED
        BY <2>2, Zenon DEF A!ANext
<1>7. ASSUME NEW o \in Objs, NEW imps \in ModImports, LinkStart(o, imps)
      PROVE  [A!ANext]_(A!avars)
    BY <1>7 DEF LinkStart, AbsMap, Idle
<1>8. CASE RegisterInsert
    <2> DEFINE O == op.obj
               m2 == [map[O] EXCEPT ![<<op.ns, op.items[op.i][1]>>] = op.items[op.i][2]]
    <2>1. op \in RegisterLoops /\ op.i <= Len(op.items) /\ map \in [Objs -> Maps]
        BY <1>8, LoopKinds DEF RegisterInsert, IInv, ImportsTypeOK
    <2>2. /\ op.items \in Seq(Names \X Externs) /\ op.i \in 1..Len(op.items)
          /\ O \in Objs /\ op.ns \in Namespaces /\ map[O] \in Maps
        BY <2>1, ImportsAssumption DEF RegisterLoops
    <2>3. /\ op'.kind = "register" /\ op'.obj = O /\ op'.ns = op.ns
          /\ op'.items = op.items /\ op'.i = op.i + 1
        BY <1>8, <2>1, RegisterLoopStep DEF RegisterInsert
    <2>4. map' = [map EXCEPT ![O] = m2]
        BY <1>8 DEF RegisterInsert
    <2>5. Registered(m2, op.ns, op.items, op.i + 1) = Registered(map[O], op.ns, op.items, op.i)
        BY <2>2, RegisteredStep
    <2>6. AbsMap' = [map' EXCEPT ![O] = Registered(map'[O], op.ns, op.items, op.i + 1)]
        BY <2>3 DEF AbsMap
    <2>7. AbsMap = [map EXCEPT ![O] = Registered(map[O], op.ns, op.items, op.i)]
        BY <2>1 DEF AbsMap, RegisterLoops
    <2>8. AbsMap' = AbsMap
        BY <2>1, <2>2, <2>4, <2>5, <2>6, <2>7
    <2>9. QED
        BY <1>8, <2>8 DEF RegisterInsert
<1>9. CASE ExtendInsert
    <2> DEFINE O == op.obj
    <2>1. op \in ExtendLoops /\ map \in [Objs -> Maps]
        BY <1>9, LoopKinds DEF ExtendInsert, IInv, ImportsTypeOK
    <2>2. PICK k \in op.pending :
                 /\ map' = [map EXCEPT ![O][k] = op.snap[k]]
                 /\ op' = [op EXCEPT !.pending = @ \ {k}]
        BY <1>9 DEF ExtendInsert
    <2>3. /\ op'.kind = "extend" /\ op'.obj = O /\ op'.snap = op.snap
          /\ op'.pending = op.pending \ {k}
        <3>1. op' = [op EXCEPT !.pending = op.pending \ {k}]
            BY <2>2
        <3>2. QED
            BY <2>1, <3>1, ExtendLoopStep DEF ExtendLoops
    <2>4. O \in Objs /\ map[O] \in Maps /\ k \in Keys
        BY <2>1, <2>2 DEF ExtendLoops
    <2>5. AbsMap' = [map' EXCEPT ![O] = [k2 \in Keys |->
                       IF k2 \in op.pending \ {k} THEN op.snap[k2] ELSE map'[O][k2]]]
        BY <2>3 DEF AbsMap
    <2>6. AbsMap = [map EXCEPT ![O] = [k2 \in Keys |->
                       IF k2 \in op.pending THEN op.snap[k2] ELSE map[O][k2]]]
        BY <2>1 DEF AbsMap, ExtendLoops
    <2>7. AbsMap' = AbsMap
        BY <2>2, <2>4, <2>5, <2>6 DEF Maps
    <2>8. QED
        BY <1>9, <2>7 DEF ExtendInsert
<1>10. CASE LoopDone
    <2> DEFINE O == op.obj
    <2>1. op' = Idle /\ map' = map /\ out' = out
        BY <1>10 DEF LoopDone
    <2>2. AbsMap' = map
        BY <2>1 DEF AbsMap, Idle
    <2>3. CASE op.kind = "register" /\ op.i > Len(op.items)
        <3>1. op \in RegisterLoops /\ op.i <= Len(op.items) + 1 /\ map \in [Objs -> Maps]
            BY <2>3, LoopKinds DEF IInv, ImportsTypeOK
        <3>2. /\ op.items \in Seq(Names \X Externs) /\ op.i = Len(op.items) + 1
              /\ O \in Objs /\ op.ns \in Namespaces /\ map[O] \in Maps
            BY <2>3, <3>1, ImportsAssumption DEF RegisterLoops
        <3>3. Registered(map[O], op.ns, op.items, op.i) = map[O]
            BY <3>2, RegisteredEnd
        <3>4. AbsMap = [map EXCEPT ![O] = Registered(map[O], op.ns, op.items, op.i)]
            BY <2>3 DEF AbsMap
        <3>5. AbsMap = map
            BY <3>1, <3>2, <3>3, <3>4
        <3>6. QED
            BY <2>1, <2>2, <3>5
    <2>4. CASE op.kind = "extend" /\ op.pending = {}
        <3>1. op \in ExtendLoops /\ map \in [Objs -> Maps]
            BY <2>4, LoopKinds DEF IInv, ImportsTypeOK
        <3>2. O \in Objs /\ map[O] \in Maps
            BY <3>1 DEF ExtendLoops
        <3>3. AbsMap = [map EXCEPT ![O] = [k2 \in Keys |->
                           IF k2 \in op.pending THEN op.snap[k2] ELSE map[O][k2]]]
            BY <2>4 DEF AbsMap
        <3>4. AbsMap = map
            BY <2>4, <3>1, <3>2, <3>3 DEF Maps
        <3>5. QED
            BY <2>1, <2>2, <3>4
    <2>5. QED
        BY <1>10, <2>3, <2>4 DEF LoopDone
<1>11. CASE LinkLookup
    <2> DEFINE O == op.obj  k == op.imps[op.i]
    <2>1. /\ op \in LinkLoops /\ op.i <= Len(op.imps) /\ map \in [Objs -> Maps]
          /\ UNCHANGED map
        BY <1>11, LoopKinds DEF LinkLookup, IInv, ImportsTypeOK
    <2>2. /\ op.imps \in Seq(Keys) /\ op.i \in 1..Len(op.imps)
          /\ O \in Objs /\ op.imps \in ModImports /\ map[O] \in Maps
          /\ map[O][k] \in Externs \cup {Absent}
        BY <2>1, ImportsAssumption DEF LinkLoops, Maps
    <2>3. AbsMap = map
        BY <2>1, AbsMapIdle DEF LinkLoops
    <2>4. CASE Present(map[O], k)
        <3>1. map[O][k] \in Externs
            BY <2>2, <2>4 DEF Present
        <3>2. op' = [op EXCEPT !.i = op.i + 1, !.ret = Append(op.ret, map[O][k])]
            BY <1>11, <2>4 DEF LinkLookup
        <3>3. op'.kind = "link"
            <4>1. [op EXCEPT !.i = op.i + 1, !.ret = Append(op.ret, map[O][k])].kind
                  = op.kind
                BY <2>1, <3>1, LinkLoopStep
            <4>2. QED
                BY <2>1, <3>2, <4>1 DEF LinkLoops
        <3>4. AbsMap' = map'
            BY <3>3 DEF AbsMap
        <3>5. QED
            BY <1>11, <2>1, <2>3, <2>4, <3>4 DEF LinkLookup
    <2>5. CASE ~Present(map[O], k)
        <3>1. op' = Idle /\ out' = Result("imports_for_module",
                                   [ok |-> FALSE, ret |-> <<>>, err |-> k])
            BY <1>11, <2>5 DEF LinkLookup
        <3>2. AbsMap' = map'
            BY <3>1 DEF AbsMap, Idle
        <3>3. \A j \in 1..(op.i - 1) : Present(map[O], op.imps[j])
            BY <2>1 DEF IInv, LinkInv, LinkLoops
        <3>4. FirstMissing(map[O], op.imps) = op.i
            BY <2>2, <2>5, <3>3, FirstMissingHere
        <3>5. LinkResult(map[O], op.imps) = [ok |-> FALSE, ret |-> <<>>, err |-> k]
            BY <2>2, <2>5, <3>4 DEF LinkResult
        <3>6. A!ALink(O, op.imps)
            BY <2>1, <2>3, <3>1, <3>2, <3>5, InstanceOps DEF A!ALink
        <3>7. QED
            BY <2>2, <3>6, Zenon DEF A!ANext
    <2>6. QED
        BY <2>4, <2>5
<1>12. CASE LinkDone
    <2> DEFINE O == op.obj
    <2>1. /\ op \in LinkLoops /\ op.i = Len(op.imps) + 1 /\ map \in [Objs -> Maps]
          /\ UNCHANGED map /\ op' = Idle
          /\ out' = Result("imports_for_module", [ok |-> TRUE, ret |-> op.ret, err |-> None])
        BY <1>12, LoopKinds DEF LinkDone, IInv, ImportsTypeOK, LinkLoops
    <2>2. /\ op.imps \in ModImports /\ O \in Objs
          /\ op.ret = [j \in 1..Len(op.imps) |-> map[O][op.imps[j]]]
          /\ \A j \in 1..Len(op.imps) : Present(map[O], op.imps[j])
        BY <2>1 DEF IInv, LinkInv, LinkLoops
    <2>3. LinkResult(map[O], op.imps) = [ok |-> TRUE, ret |-> op.ret, err |-> None]
        BY <2>2 DEF LinkResult
    <2>4. AbsMap = map /\ AbsMap' = map'
        BY <2>1 DEF AbsMap, Idle, LinkLoops
    <2>5. A!ALink(O, op.imps)
        BY <2>1, <2>3, <2>4, InstanceOps DEF A!ALink
    <2>6. QED
        BY <2>2, <2>5, Zenon DEF A!ANext
<1>13. CASE UNCHANGED vars
    BY <1>13 DEF vars, AbsMap
<1>14. QED
    BY <1>1, <1>2, <1>3, <1>4, <1>5, <1>6, <1>7, <1>8, <1>9, <1>10, <1>11,
       <1>12, <1>13 DEF Next

(* The loops of register_namespace, extend and imports_for_module, one     *)
(* insert or lookup per step, implement the atomic operations of           *)
(* ImportsMap: every behaviour of Imports is one of ImportsMap on AbsMap.  *)
THEOREM ImportsRefines == Spec => ImportsRefinement
<1>1. Init => A!AInit
    BY DEF Init, A!AInit, AbsMap, Idle, EmptyMap, A!EmptyMap, NoQuery, A!NoQuery,
           Result, A!Result, Keys, A!Keys
<1>2. Spec => []IInv
    BY InitInv, InvStep, PTL DEF Spec
<1>3. QED
    BY <1>1, <1>2, RefineStep, PTL DEF Spec, ImportsRefinement, A!ASpec
=============================================================================
