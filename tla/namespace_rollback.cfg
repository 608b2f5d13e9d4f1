\* One operation; the dependencies of one level start together.
SPECIFICATION Spec
CONSTANTS
    a = a
    b = b
    d = d
    web = web
    None = None
    Procs <- MCProcs
    Namespaces <- MCNamespaces
    Members <- MCMembers
    Deps <- MCDeps
    Leaving = {b}
    Crashing = {a}
    Failing = {b, d}
    Invs = {o1}
    Verbs = {"start", "stop", "restart"}
    SingleVerbs = {"start"}
PROPERTY NoStartOutlivesRollback
