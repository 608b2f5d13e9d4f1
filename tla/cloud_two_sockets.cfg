\* "keeps ONE WebSocket open to the cloud": violated when the agent is started
\* again while a loop of the previous start sleeps.
SPECIFICATION Spec
CONSTANTS
    Loops = {l1, l2}
    Requests = {r1}
    Creds = {k1}
    Copies = {1, 2, 3}
    Refused = {}
    Verbs = {"link", "disconnect", "status", "reconnect"}
    None = None
INVARIANT OneSocket
