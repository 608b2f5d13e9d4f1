\* One request at a time; two loops may be alive together; the daemon may die
\* at any moment and the credential may be revoked at any moment.
SPECIFICATION FairSpec
CONSTANTS
    Loops = {l1, l2}
    Requests = {r1}
    Creds = {k1, k2, k3}
    Copies = {1, 2, 3}
    Refused = {k3}
    Verbs = {"link", "disconnect", "status", "reconnect"}
    None = None
INVARIANTS TypeOK SocketIsOfThisLink StoppedIsSilent
PROPERTIES NoZombieRelink MirageIsLeft
