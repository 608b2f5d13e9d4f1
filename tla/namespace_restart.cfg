\* One operation at a time: a namespace is stopped, then restarted.
SPECIFICATION Spec
CONSTANTS
    a = a
    b = b
    d = d
    web = web
    None = None
    Procs <- MCProcs
    Namespaces <- MCNamespaces
    Members <- MCMembers
    Deps <- MCDeps
    Leaving = {b}
    Crashing = {}
    Failing = {}
    Invs = {o1}
    Verbs = {"start", "stop", "restart"}
    SingleVerbs = {"start"}
PROPERTY RestartRestoresSupervision
