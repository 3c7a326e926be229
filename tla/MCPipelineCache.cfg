SPECIFICATION Spec
CONSTANTS
    shader = shader
    nir = nir
    Threads = {t1, t2}
    Keys = {shader, nir}
    Objs = {o1, o2, o3}
    Handles = {h1, h2}
    Strong = {s1, s2}
    Weak = {w}
    UsesDisk = {s1, s2, w}
    ops_of <- MCops_of
    NULL = NULL
SYMMETRY Symmetry
INVARIANTS RefsExact WeakExact ResultFormed
PROPERTIES FormedStays
