-------------------------------- MODULE Imports --------------------------------
(***************************************************************************)
(* The Imports object of lib/api/src/sys/imports.rs and js/imports.rs: a   *)
(* HashMap from (namespace, name) to Extern.  define and the queries are   *)
(* single steps; register_namespace, extend and imports_for_module are     *)
(* loops, and each iteration is a step of its own.  extend walks a clone   *)
(* of the other object's HashMap, in an order the HashMap does not fix.    *)
(* A caller runs one operation at a time (&mut self excludes any other     *)
(* use while a loop runs), so at most one loop is in progress.             *)
(***************************************************************************)
EXTENDS ImportsOps

VARIABLES
    map,  \* Imports.map of each object
    op,   \* the loop in progress, or [kind |-> "idle"]
    out   \* the last call: its arguments if it returns (), else its result

vars == <<map, op, out>>

Idle == [kind |-> "idle"]

(* Imports::new() and Default: an empty HashMap.                           *)
Init ==
    /\ map = [o \in Objs |-> EmptyMap]
    /\ op = Idle
    /\ out = NoQuery

(* define: insert (ns, name) -> val, replacing what the key held.          *)
Define(o, ns, n, e) ==
    /\ op = Idle
    /\ map' = [map EXCEPT ![o][<<ns, n>>] = e]
    /\ out' = Result("define", <<o, ns, n, e>>)
    /\ UNCHANGED op

(* register_namespace: start the loop over contents.into_iter().           *)
RegisterStart(o, ns, c) ==
    /\ op = Idle
    /\ op' = [kind |-> "register", obj |-> o, ns |-> ns, items |-> c, i |-> 1]
    /\ out' = Result("register_namespace", <<o, ns, c>>)
    /\ UNCHANGED map

(* Variant: the insert keeps an entry already there (entry().or_insert),   *)
(* so an earlier definition, or the first pair for a name, wins.           *)
RegisterInsertKeepOld ==
    /\ op.kind = "register"
    /\ op.i <= Len(op.items)
    /\ map' = [map EXCEPT ![op.obj][<<op.ns, op.items[op.i][1]>>] =
                              IF @ # Absent THEN @ ELSE op.items[op.i][2]]
    /\ op' = [op EXCEPT !.i = @ + 1]
    /\ UNCHANGED out

(* One iteration: map.insert((ns, name), extern_) for the next pair.       *)
RegisterInsert ==
    /\ op.kind = "register"
    /\ op.i <= Len(op.items)
    /\ map' = [map EXCEPT ![op.obj][<<op.ns, op.items[op.i][1]>>] =
                              op.items[op.i][2]]
    /\ op' = [op EXCEPT !.i = @ + 1]
    /\ UNCHANGED out

(* extend(&other): for every ((ns, name), ext) of other's cloned map, in   *)
(* the HashMap's order, self.define(ns, name, ext).                        *)
ExtendStart(o, src) ==
    /\ op = Idle
    /\ o # src
    /\ op' = [kind |-> "extend", obj |-> o, snap |-> map[src],
              pending |-> {k \in Keys : Present(map[src], k)}]
    /\ out' = Result("extend", <<o, src>>)
    /\ UNCHANGED map

ExtendInsert ==
    /\ op.kind = "extend"
    /\ \E k \in op.pending :
          /\ map' = [map EXCEPT ![op.obj][k] = op.snap[k]]
          /\ op' = [op EXCEPT !.pending = @ \ {k}]
    /\ UNCHANGED out

(* The end of a register_namespace or extend loop.                          *)
LoopDone ==
    /\ \/ op.kind = "register" /\ op.i > Len(op.items)
       \/ op.kind = "extend" /\ op.pending = {}
    /\ op' = Idle
    /\ UNCHANGED <<map, out>>

(* get_export: contains_key, then map[key].                                 *)
GetExport(o, k) ==
    /\ op = Idle
    /\ out' = Result("get_export", IF Present(map[o], k) THEN map[o][k] ELSE None)
    /\ UNCHANGED <<map, op>>

(* contains_namespace: any key whose namespace is name.                     *)
ContainsNamespace(o, ns) ==
    /\ op = Idle
    /\ out' = Result("contains_namespace",
                     \E k \in Keys : k[1] = ns /\ Present(map[o], k))
    /\ UNCHANGED <<map, op>>

(* get_namespace_exports: the entries of the namespace collected into an   *)
(* Exports, None when the collection is empty.                              *)
GetNamespaceExports(o, ns) ==
    LET ret == [n \in Names |-> map[o][<<ns, n>>]]
    IN  /\ op = Idle
        /\ out' = Result("get_namespace_exports",
                         IF \A n \in Names : ret[n] = Absent THEN None ELSE ret)
        /\ UNCHANGED <<map, op>>

(* imports_for_module: ret = vec![], then a loop over module.imports().    *)
LinkStart(o, imps) ==
    /\ op = Idle
    /\ op' = [kind |-> "link", obj |-> o, imps |-> imps, i |-> 1, ret |-> <<>>]
    /\ UNCHANGED <<map, out>>

(* One iteration: push the extern of a key the map holds, or return        *)
(* Err(LinkError::Import(module, name, UnknownImport)) for the first one   *)
(* it does not hold.                                                        *)
LinkLookup ==
    LET k == op.imps[op.i]
    IN  /\ op.kind = "link"
        /\ op.i <= Len(op.imps)
        /\ \/ /\ Present(map[op.obj], k)
              /\ op' = [op EXCEPT !.i = @ + 1, !.ret = Append(@, map[op.obj][k])]
              /\ UNCHANGED out
           \/ /\ ~Present(map[op.obj], k)
              /\ op' = Idle
              /\ out' = Result("imports_for_module",
                               [ok |-> FALSE, ret |-> <<>>, err |-> k])
        /\ UNCHANGED map

(* The loop ran out of imports: Ok(ret).                                    *)
LinkDone ==
    /\ op.kind = "link"
    /\ op.i > Len(op.imps)
    /\ op' = Idle
    /\ out' = Result("imports_for_module", [ok |-> TRUE, ret |-> op.ret, err |-> None])
    /\ UNCHANGED map

Next ==
    \/ \E o \in Objs :
          \/ \E ns \in Namespaces, n \in Names, e \in Externs : Define(o, ns, n, e)
          \/ \E ns \in Namespaces, c \in Contents : RegisterStart(o, ns, c)
          \/ \E src \in Objs : ExtendStart(o, src)
          \/ \E k \in Keys : GetExport(o, k)
          \/ \E ns \in Namespaces : ContainsNamespace(o, ns)
          \/ \E ns \in Namespaces : GetNamespaceExports(o, ns)
          \/ \E imps \in ModImports : LinkStart(o, imps)
    \/ RegisterInsert \/ ExtendInsert \/ LoopDone
    \/ LinkLookup \/ LinkDone

Spec == Init /\ [][Next]_vars

(* The states of the three loops: the object, the arguments, and how far *)
(* the loop has got.                                                       *)
RegisterLoops == [kind : {"register"}, obj : Objs, ns : Namespaces,
                  items : Contents, i : Nat \ {0}]
ExtendLoops == [kind : {"extend"}, obj : Objs, snap : Maps, pending : SUBSET Keys]
LinkLoops == [kind : {"link"}, obj : Objs, imps : ModImports, i : Nat \ {0},
              ret : Seq(Externs)]

(* Every object's map sends each key to an extern or Absent, and a loop in *)
(* progress has its arguments and a position within its input.             *)
ImportsTypeOK ==
    /\ map \in [Objs -> Maps]
    /\ \/ op = Idle
       \/ op \in RegisterLoops /\ op.i <= Len(op.items) + 1
       \/ op \in ExtendLoops
       \/ op \in LinkLoops /\ op.i <= Len(op.imps) + 1

-----------------------------------------------------------------------------
(* The abstract map a state stands for: the map with the inserts the loop  *)
(* in progress has still to make already made.                              *)
AbsMap ==
    CASE op.kind = "register" ->
             [map EXCEPT ![op.obj] = Registered(@, op.ns, op.items, op.i)]
      [] op.kind = "extend" ->
             [map EXCEPT ![op.obj] =
                  [k \in Keys |-> IF k \in op.pending THEN op.snap[k] ELSE @[k]]]
      [] OTHER -> map

A == INSTANCE ImportsMap WITH amap <- AbsMap, aout <- out

(* The loops of register_namespace, extend and imports_for_module, run one *)
(* insert or lookup at a time and extend in any HashMap order, implement   *)
(* the atomic operations of ImportsMap: a later pair for a name wins, the  *)
(* other object's entries replace this one's, and linking returns the      *)
(* externs in the module's order or the first import that is missing.      *)
ImportsRefinement == A!ASpec
=============================================================================
