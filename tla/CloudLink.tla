------------------------------ MODULE CloudLink ------------------------------
(***************************************************************************)
(* The link of a daemon to the cloud: the connection half of CloudAgent    *)
(* (src/src/cloud.ts) with the requests of src/src/daemon.ts that start    *)
(* and stop it.  start() leaves a stream loop running, which dials, serves *)
(* one socket until it closes, sleeps and dials again, for as long as the  *)
(* agent is running.  Nothing ties a loop to the start() that began it:    *)
(* a loop that sleeps across a stop() and a start() goes on.               *)
(*                                                                         *)
(* Delays, the backoff ladder, the retry counter and the texts of          *)
(* lastError are left out; every timer fires at any moment it may.         *)
(***************************************************************************)
EXTENDS Naturals

CONSTANTS
    Loops,    \* slots for stream loops
    Requests, \* slots for requests to the daemon in flight
    Creds,    \* names of machine credentials, reused once nothing holds them
    Copies,   \* config objects that may hold one credential
    Refused,  \* credentials whose URL assertSecureCloudUrl refuses
    Verbs,    \* requests that are made
    None

Configs == Creds \X Copies
CredOf(cfg) == cfg[1]

ASSUME LinkAssumption ==
    /\ None \notin Loops \cup Creds \cup Configs
    /\ Refused \subseteq Creds
    /\ Verbs \subseteq {"link", "disconnect", "status", "reconnect"}

VARIABLES
    (* fields of the agent; ticking: reportTimer and watchdogTimer *)
    running, config, ws, streamState, linkConfirmed, sawServerPing, ticking,
    disk,       \* the credential in cloud.json
    (* stream loops *)
    loop,       \* where each loop is
    dialled,    \* its local cfg
    socket,     \* the socket it serves: "open", "greeted" once hello has come,
                \* "mute" when its path is dead, "closing" after close()
    helloTimer, \* whether its hello deadline is pending
    (* requests *)
    stage, local,
    (* the cloud, external *)
    valid       \* credentials it honours

agent == <<running, config, ws, streamState, linkConfirmed, sawServerPing, ticking>>
loops == <<loop, dialled, socket, helloTimer>>
requests == <<stage, local>>
vars == <<agent, disk, loops, requests, valid>>

Off ==
    /\ running = FALSE /\ config = None /\ ws = None /\ streamState = "stopped"
    /\ linkConfirmed = FALSE /\ sawServerPing = FALSE /\ ticking = FALSE
    /\ loop = [l \in Loops |-> "free"]
    /\ dialled = [l \in Loops |-> None]
    /\ socket = [l \in Loops |-> "none"]
    /\ helloTimer = [l \in Loops |-> FALSE]

Init ==
    /\ Off
    /\ disk = None
    /\ stage = [r \in Requests |-> "idle"]
    /\ local = [r \in Requests |-> None]
    /\ valid = {}

(* A config object nothing refers to yet. *)
Fresh(cfg) ==
    /\ config # cfg
    /\ \A l \in Loops : dialled[l] # cfg
    /\ \A r \in Requests : local[r] # cfg

(* The new config object of a credential: Copies bounds how many there can  *)
(* be at once.                                                              *)
Spare(c) == {cfg \in {c} \X Copies : Fresh(cfg)}
NewConfig(c) == CHOOSE cfg \in Spare(c) : TRUE

(* Somebody still has the credential; one that nobody has may be issued     *)
(* under the same name again.                                               *)
Held(c) == disk = c \/ \E k \in Copies : ~Fresh(<<c, k>>)

-----------------------------------------------------------------------------
(* start() and stop() *)

Alive == {"open", "greeted", "mute"}
Up(l) == socket[l] \in Alive

(* closeSocket(): whoever serves the socket will see it close. *)
Hangup(sockets) ==
    IF ws # None /\ sockets[ws] \in Alive
    THEN [sockets EXCEPT ![ws] = "closing"] ELSE sockets

CloseSocket == ws' = None /\ socket' = Hangup(socket)

(* The synchronous part of stop(). *)
StopHead ==
    /\ running' = FALSE /\ ticking' = FALSE
    /\ CloseSocket
    /\ streamState' = "stopped" /\ linkConfirmed' = FALSE

(* start(cfg): stop(), which awaits nothing when it does not revoke, and a   *)
(* new stream loop up to its dial.                                          *)
Start(cfg) ==
    /\ config' = cfg
    /\ CloseSocket
    /\ linkConfirmed' = FALSE
    /\ \/ /\ CredOf(cfg) \in Refused
          /\ running' = FALSE /\ ticking' = FALSE /\ streamState' = "stopped"
          /\ UNCHANGED <<loop, dialled>>
       \/ /\ CredOf(cfg) \notin Refused
          /\ running' = TRUE /\ ticking' = TRUE /\ streamState' = "connecting"
          /\ \E l \in Loops :
                 /\ loop[l] = "free"
                 /\ loop' = [loop EXCEPT ![l] = "dial"]
                 /\ dialled' = [dialled EXCEPT ![l] = cfg]
    /\ UNCHANGED <<sawServerPing, helloTimer>>

-----------------------------------------------------------------------------
(* The stream loop *)

Leave(l) ==
    /\ loop' = [loop EXCEPT ![l] = "free"]
    /\ dialled' = [dialled EXCEPT ![l] = None]

GoesOnWhileRunning == running
GoesOn == running /\ config # None

(* The loop's sleep is over: it dials with whatever the config is now. *)
Wake(l) ==
    /\ loop[l] = "sleep"
    /\ IF GoesOn
       THEN /\ loop' = [loop EXCEPT ![l] = "dial"]
            /\ dialled' = [dialled EXCEPT ![l] = config]
            /\ streamState' = "connecting" /\ linkConfirmed' = FALSE
       ELSE Leave(l) /\ UNCHANGED <<streamState, linkConfirmed>>
    /\ UNCHANGED <<running, config, ws, sawServerPing, ticking, disk, socket,
                   helloTimer, requests, valid>>

SupersededByStop(l) == ~running
Superseded(l) == ~running \/ config # dialled[l]

ArmNoTimer(l) == [helloTimer EXCEPT ![l] = FALSE]
ArmHelloTimer(l) == [helloTimer EXCEPT ![l] = TRUE]

(* The socket is open: to the cloud, or to a proxy that answered in its     *)
(* place.  A superseded loop closes the agent's socket, not this one, to    *)
(* which nothing refers any more.                                           *)
DialSucceeds(l, state) ==
    /\ loop[l] = "dial"
    /\ state = "open" => CredOf(dialled[l]) \in valid
    /\ IF Superseded(l)
       THEN CloseSocket /\ Leave(l) /\ UNCHANGED <<sawServerPing, helloTimer>>
       ELSE /\ ws' = l
            /\ socket' = [socket EXCEPT ![l] = state]
            /\ helloTimer' = ArmHelloTimer(l)
            /\ sawServerPing' = FALSE
            /\ loop' = [loop EXCEPT ![l] = "serve"]
            /\ UNCHANGED dialled
    /\ UNCHANGED <<running, config, streamState, linkConfirmed, ticking, disk,
                   requests, valid>>

Sleep(l) ==
    /\ loop' = [loop EXCEPT ![l] = "sleep"]
    /\ dialled' = [dialled EXCEPT ![l] = None]
    /\ streamState' = "backoff"

BackoffAlways(l) == Sleep(l)
Backoff(l) ==
    IF GoesOn THEN Sleep(l) ELSE Leave(l) /\ UNCHANGED streamState

DialFails(l) ==
    /\ loop[l] = "dial"
    /\ Backoff(l)
    /\ UNCHANGED <<running, config, ws, linkConfirmed, sawServerPing, ticking, disk,
                   socket, helloTimer, requests, valid>>

(* The socket closes, by its own agent, by the cloud (revoked: code 4001)   *)
(* or by the network; a loop that is still wanted unlinks or backs off.     *)
Closes(l, revoked) ==
    /\ loop[l] = "serve"
    /\ revoked => socket[l] \in {"open", "greeted"} /\ CredOf(dialled[l]) \notin valid
    /\ helloTimer' = [helloTimer EXCEPT ![l] = FALSE]
    /\ IF GoesOn /\ revoked
       THEN /\ running' = FALSE /\ ticking' = FALSE
            /\ ws' = None
            /\ socket' = Hangup([socket EXCEPT ![l] = "none"])
            /\ streamState' = "stopped"
            /\ loop' = [loop EXCEPT ![l] = "revoked"]
            /\ UNCHANGED dialled
       ELSE /\ socket' = [socket EXCEPT ![l] = "none"]
            /\ Backoff(l)
            /\ UNCHANGED <<running, ticking, ws>>
    /\ UNCHANGED <<config, linkConfirmed, sawServerPing, disk, requests, valid>>

KeepConfig == config
ForgetConfig == None

(* handleRevoked() after its await: the credential file is gone. *)
Unlinked(l) ==
    /\ loop[l] = "revoked"
    /\ disk' = None /\ config' = ForgetConfig
    /\ Leave(l)
    /\ UNCHANGED <<running, ws, streamState, linkConfirmed, sawServerPing, ticking,
                   socket, helloTimer, requests, valid>>

-----------------------------------------------------------------------------
(* Frames and timers of the socket; a superseded socket's frames are noise *)

Hello(l) ==
    /\ socket[l] = "open"
    /\ socket' = [socket EXCEPT ![l] = "greeted"]
    /\ IF ws = l /\ ~linkConfirmed
       THEN linkConfirmed' = TRUE /\ streamState' = "connected"
       ELSE UNCHANGED <<linkConfirmed, streamState>>
    /\ UNCHANGED <<running, config, ws, sawServerPing, ticking, disk, loop, dialled,
                   helloTimer, requests, valid>>

Ping(l) ==
    /\ socket[l] = "greeted" /\ ws = l /\ ~sawServerPing
    /\ sawServerPing' = TRUE
    /\ UNCHANGED <<running, config, ws, streamState, linkConfirmed, ticking, disk, loops,
                   requests, valid>>

(* The path dies without a close frame. *)
GoesSilent(l) ==
    /\ socket[l] \in {"open", "greeted"}
    /\ socket' = [socket EXCEPT ![l] = "mute"]
    /\ UNCHANGED <<agent, disk, loop, dialled, helloTimer, requests, valid>>

HelloTimeout(l) ==
    /\ helloTimer[l]
    /\ helloTimer' = [helloTimer EXCEPT ![l] = FALSE]
    /\ IF ws = l /\ ~linkConfirmed /\ running THEN CloseSocket
                                              ELSE UNCHANGED <<ws, socket>>
    /\ UNCHANGED <<running, config, streamState, linkConfirmed, sawServerPing, ticking,
                   disk, loop, dialled, requests, valid>>

(* The inbound watchdog: silence on a link that has been seen to ping. *)
WatchdogBites ==
    /\ ticking /\ running /\ streamState = "connected" /\ sawServerPing
    /\ ws # None /\ socket[ws] = "mute"
    /\ CloseSocket
    /\ UNCHANGED <<running, config, streamState, linkConfirmed, sawServerPing, ticking,
                   disk, loop, dialled, helloTimer, requests, valid>>

-----------------------------------------------------------------------------
(* Requests to the daemon *)

Await(r, where, cfg) ==
    /\ stage' = [stage EXCEPT ![r] = where]
    /\ local' = [local EXCEPT ![r] = cfg]
Return(r) == Await(r, "idle", None)

(* cloudConnect and cloudLink: a credential the cloud has just issued is    *)
(* saved first ...                                                          *)
RequestLink(r, c) ==
    /\ "link" \in Verbs /\ stage[r] = "idle"
    /\ ~Held(c) /\ Spare(c) # {}
    /\ valid' = valid \cup {c}
    /\ Await(r, "save", NewConfig(c))
    /\ UNCHANGED <<agent, disk, loops>>

(* ... then the link starts. *)
Saved(r) ==
    /\ stage[r] = "save"
    /\ disk' = CredOf(local[r])
    /\ Start(local[r])
    /\ Return(r)
    /\ UNCHANGED valid

(* cloudStatus and cloudReconnect read the file when no config is in        *)
(* memory; with one, cloudStatus does nothing and cloudReconnect restarts.  *)
RequestResume(r) ==
    /\ {"status", "reconnect"} \cap Verbs # {} /\ stage[r] = "idle" /\ config = None
    /\ Await(r, "load", None)
    /\ UNCHANGED <<agent, disk, loops, valid>>

RequestReconnect(r) ==
    /\ "reconnect" \in Verbs /\ stage[r] = "idle" /\ config # None
    /\ Start(config)
    /\ UNCHANGED <<disk, requests, valid>>

Loaded(r) ==
    /\ stage[r] = "load"
    /\ Return(r)
    /\ \/ disk = None /\ UNCHANGED <<agent, loops>>
       \/ disk # None /\ Spare(disk) # {} /\ Start(NewConfig(disk))
    /\ UNCHANGED <<disk, valid>>

(* cloudDisconnect: stop() with revoke asks the cloud ... *)
RequestDisconnect(r) ==
    /\ "disconnect" \in Verbs /\ stage[r] = "idle"
    /\ StopHead
    /\ IF config # None THEN Await(r, "fetch", config) ELSE UNCHANGED requests
    /\ UNCHANGED <<config, sawServerPing, disk, loop, dialled, helloTimer,
                   valid>>

(* ... which may not be reachable, and clears the file all the same. *)
RevokeAnswered(r) ==
    /\ stage[r] = "fetch"
    /\ valid' \in {valid, valid \ {CredOf(local[r])}}
    /\ Await(r, "clear", local[r])
    /\ UNCHANGED <<agent, disk, loops>>

Cleared(r) ==
    /\ stage[r] = "clear"
    /\ disk' = None /\ config' = ForgetConfig
    /\ Return(r)
    /\ UNCHANGED <<running, ws, streamState, linkConfirmed, sawServerPing, ticking, loops,
                   valid>>

-----------------------------------------------------------------------------
(* The credential is revoked in the dashboard. *)
RevokedInDashboard(c) ==
    /\ c \in valid /\ Held(c) /\ valid' = valid \ {c}
    /\ UNCHANGED <<agent, disk, loops, requests>>

(* The daemon dies, whatever it was doing, and boots: request r stands for  *)
(* the boot, which loads the file.                                          *)
Crash(r) ==
    /\ running' = FALSE /\ config' = None /\ ws' = None /\ streamState' = "stopped"
    /\ linkConfirmed' = FALSE /\ sawServerPing' = FALSE /\ ticking' = FALSE
    /\ loop' = [l \in Loops |-> "free"]
    /\ dialled' = [l \in Loops |-> None]
    /\ socket' = [l \in Loops |-> "none"]
    /\ helloTimer' = [l \in Loops |-> FALSE]
    /\ stage' = [q \in Requests |-> IF q = r THEN "load" ELSE "idle"]
    /\ local' = [q \in Requests |-> None]
    /\ UNCHANGED <<disk, valid>>

LoopStep(l) ==
    \/ Wake(l) \/ DialFails(l) \/ Unlinked(l) \/ HelloTimeout(l)
    \/ \E s \in {"open", "mute"} : DialSucceeds(l, s)

Network(l) ==
    \/ \E revoked \in BOOLEAN : Closes(l, revoked)
    \/ Hello(l) \/ Ping(l) \/ GoesSilent(l)

RequestStep(r) ==
    \/ \E c \in Creds : RequestLink(r, c)
    \/ Loaded(r) \/ Saved(r) \/ RequestResume(r) \/ RequestReconnect(r) \/ RequestDisconnect(r)
    \/ RevokeAnswered(r) \/ Cleared(r) \/ Crash(r)

Next ==
    \/ \E l \in Loops : LoopStep(l) \/ Network(l)
    \/ \E r \in Requests : RequestStep(r)
    \/ WatchdogBites
    \/ \E c \in Creds : RevokedInDashboard(c)

Spec == Init /\ [][Next]_vars

(***************************************************************************)
(* Fairness: timers fire, a dial ends (it has a deadline of its own), a    *)
(* socket that was closed here reports it, file operations end.  Nothing   *)
(* is assumed of the cloud or of the network.                              *)
(***************************************************************************)
Fairness ==
    /\ WF_vars(WatchdogBites)
    /\ \A l \in Loops : /\ WF_vars(LoopStep(l)) /\ WF_vars(HelloTimeout(l))
                        /\ WF_vars(socket[l] = "closing" /\ Closes(l, FALSE))

FairSpec == Spec /\ Fairness

-----------------------------------------------------------------------------
AgentTyped ==
    /\ running \in BOOLEAN /\ linkConfirmed \in BOOLEAN /\ sawServerPing \in BOOLEAN
    /\ ticking \in BOOLEAN
    /\ config \in Configs \cup {None} /\ ws \in Loops \cup {None}
    /\ streamState \in {"connecting", "connected", "backoff", "stopped"}

LoopsTyped ==
    /\ loop \in [Loops -> {"free", "dial", "serve", "sleep", "revoked"}]
    /\ dialled \in [Loops -> Configs \cup {None}]
    /\ \A l \in Loops : loop[l] \in {"dial", "serve", "revoked"} => dialled[l] # None
    /\ socket \in [Loops -> {"none", "open", "greeted", "mute", "closing"}]
    /\ helloTimer \in [Loops -> BOOLEAN]

RequestsTyped ==
    /\ stage \in [Requests -> {"idle", "save", "load", "fetch", "clear"}]
    /\ local \in [Requests -> Configs \cup {None}]
    /\ \A r \in Requests : stage[r] \in {"save", "fetch", "clear"} => local[r] # None

(* The type invariant; a loop that dials or serves, and a request that has  *)
(* something to save or to clear, know with which config.                   *)
TypeOK ==
    /\ AgentTyped /\ LoopsTyped /\ RequestsTyped
    /\ disk \in Creds \cup {None} /\ valid \subseteq Creds

(* However many loops are left over from earlier starts, the open socket    *)
(* the agent sends on and takes commands from was dialled with the config   *)
(* it has now.                                                              *)
SocketIsOfThisLink ==
    ws # None /\ config # None => (Up(ws) => dialled[ws] = config)

(* Whichever of a stop, a revocation, a late dial and a loop that wakes up  *)
(* comes last, an agent that is not running has no socket, no timer and     *)
(* says that it is stopped.                                                 *)
StoppedIsSilent == ~running => ws = None /\ ~ticking /\ streamState = "stopped"

(* A loop dials only with the credential that is in cloud.json at that      *)
(* moment: neither a loop left over nor a restart of the daemon brings back *)
(* one that has been cleared ("no zombie relink").                          *)
NoZombieRelink ==
    [][\A l \in Loops : loop[l] # "dial" /\ loop'[l] = "dial"
           => disk' = CredOf(dialled'[l])]_vars

(* An open socket that leads nowhere is given up: a single loop never keeps *)
(* an unconfirmed socket.                                                   *)
Mirage(l) ==
    /\ loop[l] = "serve" /\ socket[l] = "mute" /\ ws = l /\ ~linkConfirmed
    /\ \A m \in Loops \ {l} : loop[m] = "free"
MirageIsLeft ==
    \A l \in Loops : Mirage(l) ~> ~(loop[l] = "serve" /\ socket[l] = "mute" /\ ws = l)

(* The daemon "keeps ONE WebSocket open to the cloud".                      *)
OneSocket == \A l, m \in Loops : Up(l) /\ Up(m) => l = m
=============================================================================
