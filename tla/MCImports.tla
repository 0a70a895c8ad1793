------------------------------ MODULE MCImports ------------------------------
(* Two Imports objects (so that one can extend the other) over two         *)
(* namespaces with one name each, and two externs: register_namespace is    *)
(* given the name twice, once, or not at all; a module imports the keys of *)
(* both namespaces in either order, one key twice, or nothing.             *)
EXTENDS Imports

CONSTANTS i1, i2, env, wasi, f, e1, e2

MCObjs == {i1, i2}
MCNamespaces == {env, wasi}
MCNames == {f}
MCExterns == {e1, e2}

MCContents == { <<>>,
                << <<f, e1>>, <<f, e2>> >>,
                << <<f, e2>> >> }

MCModImports == { <<>>,
                  << <<env, f>>, <<wasi, f>> >>,
                  << <<wasi, f>>, <<wasi, f>>, <<env, f>> >> }
=============================================================================
