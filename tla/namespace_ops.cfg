\* Two operations at a time on a namespace whose second member depends on
\* the first and on a standalone process.
SPECIFICATION Spec
CONSTANTS
    a = a
    b = b
    d = d
    web = web
    None = None
    Procs <- MCProcs
    Namespaces <- MCNamespaces
    Members <- MCMembers
    Deps <- MCDeps
    Leaving = {b}
    Crashing = {a}
    Failing = {b, d}
    Invs = {o1, o2}
    Verbs = {"start", "stop", "restart"}
    SingleVerbs = {"start"}
INVARIANTS TypeOK LockInOrder WaiterIsServed
PROPERTIES RollbackComplete RollbackSparesRunning
