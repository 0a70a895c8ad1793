------------------------------ MODULE ImportsMap ------------------------------
(***************************************************************************)
(* What an Imports object (lib/api/src/{sys,js}/imports.rs) promises, with *)
(* every operation atomic: a map from (namespace, name) keys to externs in *)
(* which a later definition of a key replaces an earlier one, queried by   *)
(* key, by namespace, and for the imports of a module in the module's      *)
(* order.                                                                  *)
(***************************************************************************)
EXTENDS ImportsOps

VARIABLES
    amap,   \* the contents of each Imports object
    aout    \* the last call: its arguments if it returns (), else its result

avars == <<amap, aout>>

AInit ==
    /\ amap = [o \in Objs |-> EmptyMap]
    /\ aout = NoQuery

ADefine(o, ns, n, e) ==
    /\ amap' = [amap EXCEPT ![o][<<ns, n>>] = e]
    /\ aout' = Result("define", <<o, ns, n, e>>)

ARegister(o, ns, c) ==
    /\ amap' = [amap EXCEPT ![o] = Registered(@, ns, c, 1)]
    /\ aout' = Result("register_namespace", <<o, ns, c>>)

AExtend(o, src) ==
    /\ o # src
    /\ amap' = [amap EXCEPT ![o] = Extended(@, amap[src])]
    /\ aout' = Result("extend", <<o, src>>)

AGetExport(o, k) ==
    /\ aout' = Result("get_export",
                     IF Present(amap[o], k) THEN amap[o][k] ELSE None)
    /\ UNCHANGED amap

AContainsNamespace(o, ns) ==
    /\ aout' = Result("contains_namespace",
                     \E n \in Names : Present(amap[o], <<ns, n>>))
    /\ UNCHANGED amap

AGetNamespaceExports(o, ns) ==
    /\ aout' = Result("get_namespace_exports", NamespaceExports(amap[o], ns))
    /\ UNCHANGED amap

ALink(o, imps) ==
    /\ aout' = Result("imports_for_module", LinkResult(amap[o], imps))
    /\ UNCHANGED amap

ANext ==
    \E o \in Objs :
        \/ \E ns \in Namespaces, n \in Names, e \in Externs : ADefine(o, ns, n, e)
        \/ \E ns \in Namespaces, c \in Contents : ARegister(o, ns, c)
        \/ \E src \in Objs : AExtend(o, src)
        \/ \E k \in Keys : AGetExport(o, k)
        \/ \E ns \in Namespaces : AContainsNamespace(o, ns)
        \/ \E ns \in Namespaces : AGetNamespaceExports(o, ns)
        \/ \E imps \in ModImports : ALink(o, imps)

ASpec == AInit /\ [][ANext]_avars
=============================================================================
