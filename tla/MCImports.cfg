CONSTANTS
    i1 = i1
    i2 = i2
    env = env
    wasi = wasi
    f = f
    e1 = e1
    e2 = e2
    Absent = Absent
    None = None
    Objs <- MCObjs
    Namespaces <- MCNamespaces
    Names <- MCNames
    Externs <- MCExterns
    Contents <- MCContents
    ModImports <- MCModImports
SPECIFICATION Spec
PROPERTY ImportsRefinement
