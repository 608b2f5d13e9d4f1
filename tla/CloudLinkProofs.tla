-------------------------- MODULE CloudLinkProofs --------------------------
(***************************************************************************)
(* What holds of CloudLink for any number of stream loops, requests,       *)
(* credentials and config objects.                                         *)
(***************************************************************************)
EXTENDS CloudLink, TLAPS

USE LinkAssumption

(* A credential's config objects.                                           *)
LEMMA CredIsCred == \A cfg \in Configs : CredOf(cfg) \in Creds /\ cfg # None
BY DEF Configs, CredOf

LEMMA NewConfigIsNew ==
    ASSUME NEW c \in Creds, Spare(c) # {}
    PROVE  NewConfig(c) \in Configs /\ CredOf(NewConfig(c)) = c
<1>1. NewConfig(c) \in Spare(c) BY DEF NewConfig
<1> QED BY <1>1 DEF Spare, Configs, CredOf

LEMMA CloseSocketType ==
    ASSUME AgentTyped, LoopsTyped, CloseSocket
    PROVE  /\ ws' = None
           /\ socket' \in [Loops -> {"none", "open", "greeted", "mute", "closing"}]
BY DEF AgentTyped, LoopsTyped, CloseSocket, Hangup

LEMMA StartType ==
    ASSUME AgentTyped, LoopsTyped, NEW cfg \in Configs, Start(cfg)
    PROVE  AgentTyped' /\ LoopsTyped'
<1>1. /\ ws' = None /\ config' = cfg /\ linkConfirmed' = FALSE
      /\ socket' \in [Loops -> {"none", "open", "greeted", "mute", "closing"}]
      /\ UNCHANGED <<sawServerPing, helloTimer>>
  BY CloseSocketType DEF Start
<1>2. /\ running' \in BOOLEAN /\ ticking' \in BOOLEAN
      /\ streamState' \in {"connecting", "stopped"}
  BY DEF Start
<1>3. AgentTyped' BY <1>1, <1>2 DEF AgentTyped
<1>4. /\ loop' \in [Loops -> {"free", "dial", "serve", "sleep", "revoked"}]
      /\ dialled' \in [Loops -> Configs \cup {None}]
      /\ \A l \in Loops : loop'[l] \in {"dial", "serve", "revoked"} => dialled'[l] # None
  BY CredIsCred DEF Start, LoopsTyped
<1> QED BY <1>1, <1>3, <1>4 DEF LoopsTyped

LEMMA LeaveType ==
    ASSUME LoopsTyped, NEW l \in Loops, Leave(l) \/ Sleep(l)
    PROVE  /\ loop' \in [Loops -> {"free", "dial", "serve", "sleep", "revoked"}]
           /\ dialled' \in [Loops -> Configs \cup {None}]
           /\ \A m \in Loops : loop'[m] \in {"dial", "serve", "revoked"} => dialled'[m] # None
BY DEF LoopsTyped, Leave, Sleep

LEMMA BackoffType ==
    ASSUME AgentTyped, LoopsTyped, NEW l \in Loops, Backoff(l)
    PROVE  /\ streamState' \in {"connecting", "connected", "backoff", "stopped"}
           /\ loop' \in [Loops -> {"free", "dial", "serve", "sleep", "revoked"}]
           /\ dialled' \in [Loops -> Configs \cup {None}]
           /\ \A m \in Loops : loop'[m] \in {"dial", "serve", "revoked"} => dialled'[m] # None
BY LeaveType DEF AgentTyped, Backoff, Sleep

-----------------------------------------------------------------------------
(* Steps of the loops keep the type.                                        *)
LEMMA LoopStepType ==
    ASSUME TypeOK, NEW l \in Loops, LoopStep(l)
    PROVE  TypeOK'
<1> USE DEF TypeOK
<1>1. CASE Wake(l)
  <2>1. CASE GoesOn
    <3>1. /\ loop' = [loop EXCEPT ![l] = "dial"] /\ dialled' = [dialled EXCEPT ![l] = config]
          /\ config \in Configs /\ config # None
      BY <1>1, <2>1 DEF Wake, GoesOn, AgentTyped
    <3>2. LoopsTyped'
      BY <1>1, <3>1 DEF Wake, LoopsTyped
    <3> QED BY <1>1, <2>1, <3>2 DEF Wake, AgentTyped, RequestsTyped, requests
  <2>2. CASE ~GoesOn
    BY <1>1, <2>2, LeaveType DEF Wake, AgentTyped, LoopsTyped, RequestsTyped, requests
  <2> QED BY <2>1, <2>2
<1>2. CASE DialFails(l)
  BY <1>2, BackoffType DEF DialFails, AgentTyped, LoopsTyped, RequestsTyped, requests
<1>3. CASE Unlinked(l)
  BY <1>3, LeaveType
     DEF Unlinked, ForgetConfig, AgentTyped, LoopsTyped, RequestsTyped, requests
<1>4. CASE HelloTimeout(l)
  <2>1. /\ ws' \in Loops \cup {None}
        /\ socket' \in [Loops -> {"none", "open", "greeted", "mute", "closing"}]
    BY <1>4, CloseSocketType DEF HelloTimeout, AgentTyped, LoopsTyped
  <2> QED BY <1>4, <2>1 DEF HelloTimeout, AgentTyped, LoopsTyped, RequestsTyped, requests
<1>5. ASSUME NEW s \in {"open", "mute"}, DialSucceeds(l, s) PROVE TypeOK'
  <2>1. CASE Superseded(l)
    BY <1>5, <2>1, LeaveType, CloseSocketType
       DEF DialSucceeds, AgentTyped, LoopsTyped, RequestsTyped, requests
  <2>2. CASE ~Superseded(l)
    <3>1. /\ loop[l] = "dial" /\ loop' = [loop EXCEPT ![l] = "serve"]
          /\ socket' = [socket EXCEPT ![l] = s] /\ UNCHANGED dialled
          /\ helloTimer' = [helloTimer EXCEPT ![l] = TRUE]
      BY <1>5, <2>2 DEF DialSucceeds, ArmHelloTimer
    <3>2. LoopsTyped' BY <3>1 DEF LoopsTyped
    <3> QED BY <1>5, <2>2, <3>2 DEF DialSucceeds, AgentTyped, RequestsTyped, requests
  <2> QED BY <2>1, <2>2
<1> QED BY <1>1, <1>2, <1>3, <1>4, <1>5 DEF LoopStep

(* So do those of the network.                                              *)
LEMMA NetworkType ==
    ASSUME TypeOK, NEW l \in Loops, Network(l)
    PROVE  TypeOK'
<1> USE DEF TypeOK
<1>1. ASSUME NEW revoked \in BOOLEAN, Closes(l, revoked) PROVE TypeOK'
  <2>1. CASE GoesOn /\ revoked
    <3>1. socket' \in [Loops -> {"none", "open", "greeted", "mute", "closing"}]
      BY <1>1, <2>1 DEF Closes, Hangup, AgentTyped, LoopsTyped
    <3> QED BY <1>1, <2>1, <3>1
            DEF Closes, AgentTyped, LoopsTyped, RequestsTyped, requests
  <2>2. CASE ~(GoesOn /\ revoked)
    BY <1>1, <2>2, BackoffType DEF Closes, AgentTyped, LoopsTyped, RequestsTyped, requests
  <2> QED BY <2>1, <2>2
<1>2. CASE Hello(l)
  BY <1>2 DEF Hello, AgentTyped, LoopsTyped, RequestsTyped, requests
<1>3. CASE Ping(l)
  BY <1>3 DEF Ping, AgentTyped, LoopsTyped, RequestsTyped, loops, requests
<1>4. CASE GoesSilent(l)
  BY <1>4 DEF GoesSilent, agent, AgentTyped, LoopsTyped, RequestsTyped, requests
<1> QED BY <1>1, <1>2, <1>3, <1>4 DEF Network

LEMMA AwaitType ==
    ASSUME RequestsTyped, NEW r \in Requests,
           NEW where \in {"idle", "save", "load", "fetch", "clear"},
           NEW cfg \in Configs \cup {None},
           where \in {"save", "fetch", "clear"} => cfg # None,
           Await(r, where, cfg)
    PROVE  RequestsTyped'
BY DEF RequestsTyped, Await

(* And those of the requests.                                               *)
LEMMA RequestStepType ==
    ASSUME TypeOK, NEW r \in Requests, RequestStep(r)
    PROVE  TypeOK'
<1> USE DEF TypeOK
<1>0. Return(r) => RequestsTyped'
  BY AwaitType DEF Return
<1>1. ASSUME NEW c \in Creds, RequestLink(r, c) PROVE TypeOK'
  <2>1. NewConfig(c) \in Configs
    BY <1>1, NewConfigIsNew DEF RequestLink
  <2>2. RequestsTyped'
    BY <1>1, <2>1, CredIsCred, AwaitType DEF RequestLink
  <2> QED BY <1>1, <2>2 DEF RequestLink, agent, loops, AgentTyped, LoopsTyped
<1>2. CASE Loaded(r)
  <2>1. AgentTyped' /\ LoopsTyped'
    <3>1. CASE disk = None
      BY <1>2, <3>1 DEF Loaded, agent, loops, AgentTyped, LoopsTyped
    <3>2. CASE disk # None
      <4>1. NewConfig(disk) \in Configs /\ Start(NewConfig(disk))
        BY <1>2, <3>2, NewConfigIsNew DEF Loaded
      <4> QED BY <4>1, StartType
    <3> QED BY <3>1, <3>2
  <2> QED BY <1>0, <1>2, <2>1 DEF Loaded
<1>3. CASE Saved(r)
  <2>1. local[r] \in Configs
    BY <1>3 DEF Saved, RequestsTyped
  <2>2. AgentTyped' /\ LoopsTyped'
    BY <1>3, <2>1, StartType DEF Saved
  <2> QED BY <1>0, <1>3, <2>1, <2>2, CredIsCred DEF Saved
<1>4. CASE RequestResume(r)
  <2>1. RequestsTyped' BY <1>4, AwaitType DEF RequestResume
  <2> QED BY <1>4, <2>1 DEF RequestResume, agent, loops, AgentTyped, LoopsTyped
<1>5. CASE RequestReconnect(r)
  <2>1. config \in Configs BY <1>5 DEF RequestReconnect, AgentTyped
  <2>2. AgentTyped' /\ LoopsTyped' BY <1>5, <2>1, StartType DEF RequestReconnect
  <2> QED BY <1>5, <2>2 DEF RequestReconnect, requests, RequestsTyped
<1>6. CASE RequestDisconnect(r)
  <2>1. RequestsTyped'
    <3>1. CASE config # None
      BY <1>6, <3>1, AwaitType DEF RequestDisconnect, AgentTyped
    <3>2. CASE config = None
      BY <1>6, <3>2 DEF RequestDisconnect, requests, RequestsTyped
    <3> QED BY <3>1, <3>2
  <2>2. /\ ws' = None
        /\ socket' \in [Loops -> {"none", "open", "greeted", "mute", "closing"}]
    BY <1>6, CloseSocketType DEF RequestDisconnect, StopHead
  <2> QED BY <1>6, <2>1, <2>2 DEF RequestDisconnect, StopHead, AgentTyped, LoopsTyped
<1>7. CASE RevokeAnswered(r)
  <2>1. RequestsTyped'
    BY <1>7, AwaitType DEF RevokeAnswered, RequestsTyped
  <2> QED BY <1>7, <2>1 DEF RevokeAnswered, agent, loops, AgentTyped, LoopsTyped
<1>8. CASE Cleared(r)
  BY <1>0, <1>8 DEF Cleared, ForgetConfig, loops, AgentTyped, LoopsTyped
<1>9. CASE Crash(r)
  BY <1>9 DEF Crash, AgentTyped, LoopsTyped, RequestsTyped
<1> QED BY <1>1, <1>2, <1>3, <1>4, <1>5, <1>6, <1>7, <1>8, <1>9 DEF RequestStep

LEMMA TypeStep == TypeOK /\ [Next]_vars => TypeOK'
<1> SUFFICES ASSUME TypeOK, [Next]_vars PROVE TypeOK'
  OBVIOUS
<1> USE DEF TypeOK
<1>1. CASE WatchdogBites
  BY <1>1, CloseSocketType
     DEF WatchdogBites, AgentTyped, LoopsTyped, RequestsTyped, requests
<1>2. ASSUME NEW c \in Creds, RevokedInDashboard(c) PROVE TypeOK'
  BY <1>2 DEF RevokedInDashboard, agent, loops, requests,
              AgentTyped, LoopsTyped, RequestsTyped
<1>3. CASE UNCHANGED vars
  BY <1>3 DEF vars, agent, loops, requests, AgentTyped, LoopsTyped, RequestsTyped
<1> QED BY <1>1, <1>2, <1>3, LoopStepType, NetworkType, RequestStepType DEF Next

LEMMA TypeInit == Init => TypeOK
<1> SUFFICES ASSUME Init PROVE TypeOK
  OBVIOUS
<1>1. AgentTyped BY DEF Init, Off, AgentTyped
<1>2. LoopsTyped BY DEF Init, Off, LoopsTyped
<1>3. RequestsTyped BY DEF Init, RequestsTyped
<1> QED BY <1>1, <1>2, <1>3 DEF Init, TypeOK

(* Every variable of the link keeps its type: start(), stop() and the       *)
(* loops of src/src/cloud.ts never leave a loop dialling with no config.    *)
THEOREM TypeCorrect == Spec => []TypeOK
BY TypeInit, TypeStep, PTL DEF Spec

-----------------------------------------------------------------------------
(* Silence: an agent that does not run.                                     *)

LEMMA SilenceStep == TypeOK /\ StoppedIsSilent /\ [Next]_vars => StoppedIsSilent'
<1> SUFFICES ASSUME TypeOK, StoppedIsSilent, [Next]_vars PROVE StoppedIsSilent'
  OBVIOUS
<1> USE DEF StoppedIsSilent
<1>1. ASSUME NEW cfg, Start(cfg) PROVE StoppedIsSilent'
  BY <1>1 DEF Start, CloseSocket
<1>2. ASSUME NEW l \in Loops, LoopStep(l) PROVE StoppedIsSilent'
  <2>1. CASE Wake(l)
    BY <2>1 DEF Wake, GoesOn
  <2>2. CASE DialFails(l)
    BY <2>2 DEF DialFails, Backoff, GoesOn
  <2>3. CASE Unlinked(l)
    BY <2>3 DEF Unlinked
  <2>4. CASE HelloTimeout(l)
    BY <2>4 DEF HelloTimeout, CloseSocket
  <2>5. ASSUME NEW s \in {"open", "mute"}, DialSucceeds(l, s) PROVE StoppedIsSilent'
    BY <2>5 DEF DialSucceeds, Superseded, CloseSocket
  <2> QED BY <1>2, <2>1, <2>2, <2>3, <2>4, <2>5 DEF LoopStep
<1>3. ASSUME NEW l \in Loops, Network(l) PROVE StoppedIsSilent'
  <2>1. ASSUME NEW revoked \in BOOLEAN, Closes(l, revoked) PROVE StoppedIsSilent'
    <3>1. CASE GoesOn /\ revoked
      BY <2>1, <3>1 DEF Closes
    <3>2. CASE ~(GoesOn /\ revoked)
      BY <2>1, <3>2 DEF Closes, Backoff, GoesOn
    <3> QED BY <3>1, <3>2
  <2>2. CASE Hello(l)
    BY <2>2 DEF Hello, TypeOK, AgentTyped
  <2>3. CASE Ping(l) \/ GoesSilent(l)
    BY <2>3 DEF Ping, GoesSilent, agent
  <2> QED BY <1>3, <2>1, <2>2, <2>3 DEF Network
<1>4. ASSUME NEW r \in Requests, RequestStep(r) PROVE StoppedIsSilent'
  <2>1. CASE Saved(r) \/ Loaded(r) \/ RequestReconnect(r)
    BY <2>1, <1>1 DEF Saved, Loaded, RequestReconnect, agent
  <2>2. CASE RequestDisconnect(r) \/ Crash(r)
    BY <2>2 DEF RequestDisconnect, StopHead, CloseSocket, Crash
  <2>3. CASE RequestResume(r) \/ RevokeAnswered(r) \/ Cleared(r)
    BY <2>3 DEF RequestResume, RevokeAnswered, Cleared, agent
  <2>4. ASSUME NEW c \in Creds, RequestLink(r, c) PROVE StoppedIsSilent'
    BY <2>4 DEF RequestLink, agent
  <2> QED BY <1>4, <2>1, <2>2, <2>3, <2>4 DEF RequestStep
<1>5. CASE WatchdogBites
  BY <1>5 DEF WatchdogBites, CloseSocket
<1>6. CASE UNCHANGED vars \/ \E c \in Creds : RevokedInDashboard(c)
  BY <1>6 DEF vars, RevokedInDashboard, agent
<1> QED BY <1>2, <1>3, <1>4, <1>5, <1>6 DEF Next

(* stop(), handleRevoked() and a start() that is refused leave no socket and *)
(* no timer, and no loop left over brings one back.                         *)
THEOREM StoppedAlwaysSilent == Spec => []StoppedIsSilent
<1>1. Init => StoppedIsSilent
  BY DEF Init, Off, StoppedIsSilent
<1> QED BY <1>1, SilenceStep, TypeCorrect, PTL DEF Spec

-----------------------------------------------------------------------------
(* The socket the agent uses. Inductive with: a live socket is being served, *)
(* so that a loop that wakes up or starts has none.                          *)

UpIsServed == \A l \in Loops : Up(l) => loop[l] = "serve"
SocketInv == UpIsServed /\ SocketIsOfThisLink

LEMMA HangupLowers ==
    ASSUME TypeOK, NEW l \in Loops,
           Hangup(socket)[l] \in Alive
    PROVE  Up(l) /\ Hangup(socket)[l] = socket[l]
BY DEF Hangup, TypeOK, AgentTyped, LoopsTyped, Alive, Up

LEMMA StartSocket ==
    ASSUME TypeOK, SocketInv, NEW cfg, Start(cfg)
    PROVE  SocketInv'
<1>1. ws' = None /\ socket' = Hangup(socket)
  BY DEF Start, CloseSocket
<1>2. ASSUME NEW l \in Loops, Up(l)' PROVE loop'[l] = "serve"
  <2>1. loop[l] = "serve"
    BY <1>1, <1>2, HangupLowers DEF Up, SocketInv, UpIsServed
  <2>2. \/ UNCHANGED loop
        \/ \E m \in Loops : loop[m] = "free" /\ loop' = [loop EXCEPT ![m] = "dial"]
    BY DEF Start
  <2> QED BY <2>1, <2>2 DEF TypeOK, LoopsTyped
<1> QED BY <1>1, <1>2 DEF SocketInv, UpIsServed, SocketIsOfThisLink

LEMMA LoopStepSocket ==
    ASSUME TypeOK, SocketInv, NEW l \in Loops, LoopStep(l)
    PROVE  SocketInv'
<1>1. CASE Wake(l)
  <2>1. /\ loop[l] = "sleep" /\ UNCHANGED <<socket, ws, config>>
        /\ \A m \in Loops \ {l} : loop'[m] = loop[m] /\ dialled'[m] = dialled[m]
    BY <1>1 DEF Wake, Leave, TypeOK, LoopsTyped
  <2>2. ~Up(l) BY <2>1 DEF SocketInv, UpIsServed
  <2> QED BY <2>1, <2>2
          DEF SocketInv, UpIsServed, SocketIsOfThisLink, Up, TypeOK, AgentTyped
<1>2. CASE DialFails(l)
  <2>1. /\ loop[l] = "dial" /\ UNCHANGED <<socket, ws, config>>
        /\ \A m \in Loops \ {l} : loop'[m] = loop[m] /\ dialled'[m] = dialled[m]
    BY <1>2 DEF DialFails, Backoff, Sleep, Leave, TypeOK, LoopsTyped
  <2>2. ~Up(l) BY <2>1 DEF SocketInv, UpIsServed
  <2> QED BY <2>1, <2>2
          DEF SocketInv, UpIsServed, SocketIsOfThisLink, Up, TypeOK, AgentTyped
<1>3. CASE Unlinked(l)
  <2>1. /\ loop[l] = "revoked" /\ UNCHANGED socket /\ config' = None
        /\ \A m \in Loops \ {l} : loop'[m] = loop[m]
    BY <1>3 DEF Unlinked, ForgetConfig, Leave, TypeOK, LoopsTyped
  <2>2. ~Up(l) BY <2>1 DEF SocketInv, UpIsServed
  <2> QED BY <2>1, <2>2 DEF SocketInv, UpIsServed, SocketIsOfThisLink, Up
<1>4. CASE HelloTimeout(l)
  <2>1. CASE ws = l /\ ~linkConfirmed /\ running
    <3>1. ws' = None /\ socket' = Hangup(socket) /\ UNCHANGED loop
      BY <1>4, <2>1 DEF HelloTimeout, CloseSocket
    <3> QED BY <3>1, HangupLowers DEF SocketInv, UpIsServed, SocketIsOfThisLink, Up
  <2>2. CASE ~(ws = l /\ ~linkConfirmed /\ running)
    BY <1>4, <2>2 DEF HelloTimeout, SocketInv, UpIsServed, SocketIsOfThisLink, Up
  <2> QED BY <2>1, <2>2
<1>5. ASSUME NEW s \in {"open", "mute"}, DialSucceeds(l, s) PROVE SocketInv'
  <2>1. CASE Superseded(l)
    <3>1. /\ loop[l] = "dial" /\ ws' = None /\ socket' = Hangup(socket)
          /\ \A m \in Loops \ {l} : loop'[m] = loop[m]
      BY <1>5, <2>1 DEF DialSucceeds, CloseSocket, Leave, TypeOK, LoopsTyped
    <3>2. ~Up(l) BY <3>1 DEF SocketInv, UpIsServed
    <3> QED BY <3>1, <3>2, HangupLowers
            DEF SocketInv, UpIsServed, SocketIsOfThisLink, Up
  <2>2. CASE ~Superseded(l)
    <3>1. /\ ws' = l /\ UNCHANGED <<config, dialled>> /\ config = dialled[l]
          /\ loop'[l] = "serve"
          /\ \A m \in Loops \ {l} : socket'[m] = socket[m] /\ loop'[m] = loop[m]
      BY <1>5, <2>2 DEF DialSucceeds, Superseded, TypeOK, LoopsTyped
    <3> QED BY <3>1 DEF SocketInv, UpIsServed, SocketIsOfThisLink, Up
  <2> QED BY <2>1, <2>2
<1> QED BY <1>1, <1>2, <1>3, <1>4, <1>5 DEF LoopStep

LEMMA NetworkSocket ==
    ASSUME TypeOK, SocketInv, NEW l \in Loops, Network(l)
    PROVE  SocketInv'
<1>1. ASSUME NEW revoked \in BOOLEAN, Closes(l, revoked) PROVE SocketInv'
  <2>1. CASE GoesOn /\ revoked
    <3>1. /\ ws' = None /\ socket' = Hangup([socket EXCEPT ![l] = "none"])
          /\ loop' = [loop EXCEPT ![l] = "revoked"]
      BY <1>1, <2>1 DEF Closes
    <3>2. ASSUME NEW m \in Loops, socket'[m] \in Alive
          PROVE  m # l /\ Up(m)
      BY <3>1, <3>2 DEF Hangup, Alive, Up, TypeOK, AgentTyped, LoopsTyped
    <3> QED BY <3>1, <3>2
            DEF SocketInv, UpIsServed, SocketIsOfThisLink, Up, TypeOK, LoopsTyped
  <2>2. CASE ~(GoesOn /\ revoked)
    <3>1. /\ socket' = [socket EXCEPT ![l] = "none"] /\ UNCHANGED <<ws, config>>
          /\ \A m \in Loops \ {l} : loop'[m] = loop[m] /\ dialled'[m] = dialled[m]
      BY <1>1, <2>2 DEF Closes, Backoff, Sleep, Leave, TypeOK, LoopsTyped
    <3>2. ~Up(l)' /\ \A m \in Loops \ {l} : Up(m)' = Up(m)
      BY <3>1 DEF Up, Alive, TypeOK, LoopsTyped
    <3> QED BY <3>1, <3>2 DEF SocketInv, UpIsServed, SocketIsOfThisLink,
                              TypeOK, AgentTyped
  <2> QED BY <2>1, <2>2
<1>2. CASE Hello(l) \/ Ping(l) \/ GoesSilent(l)
  <2>1. /\ UNCHANGED <<ws, config, loop, dialled>>
        /\ \A m \in Loops : Up(m)' => Up(m)
    BY <1>2 DEF Hello, Ping, GoesSilent, agent, loops, Up, Alive, TypeOK, LoopsTyped
  <2> QED BY <2>1 DEF SocketInv, UpIsServed, SocketIsOfThisLink, TypeOK, AgentTyped
<1> QED BY <1>1, <1>2 DEF Network

LEMMA RequestStepSocket ==
    ASSUME TypeOK, SocketInv, NEW r \in Requests, RequestStep(r)
    PROVE  SocketInv'
<1>1. CASE Saved(r) \/ RequestReconnect(r)
  BY <1>1, StartSocket DEF Saved, RequestReconnect
<1>2. CASE Loaded(r)
  BY <1>2, StartSocket
     DEF Loaded, agent, loops, SocketInv, UpIsServed, SocketIsOfThisLink, Up
<1>3. CASE RequestDisconnect(r)
  <2>1. ws' = None /\ socket' = Hangup(socket) /\ UNCHANGED loop
    BY <1>3 DEF RequestDisconnect, StopHead, CloseSocket
  <2> QED BY <2>1, HangupLowers DEF SocketInv, UpIsServed, SocketIsOfThisLink, Up
<1>4. CASE RequestResume(r) \/ RevokeAnswered(r) \/ Cleared(r)
  BY <1>4 DEF RequestResume, RevokeAnswered, Cleared, ForgetConfig, agent, loops,
              SocketInv, UpIsServed, SocketIsOfThisLink, Up
<1>5. ASSUME NEW c \in Creds, RequestLink(r, c) PROVE SocketInv'
  BY <1>5 DEF RequestLink, agent, loops, SocketInv, UpIsServed, SocketIsOfThisLink, Up
<1>6. CASE Crash(r)
  BY <1>6 DEF Crash, SocketInv, UpIsServed, SocketIsOfThisLink, Up, Alive
<1> QED BY <1>1, <1>2, <1>3, <1>4, <1>5, <1>6 DEF RequestStep

LEMMA SocketStep == TypeOK /\ SocketInv /\ [Next]_vars => SocketInv'
<1> SUFFICES ASSUME TypeOK, SocketInv, [Next]_vars PROVE SocketInv'
  OBVIOUS
<1>1. CASE WatchdogBites
  <2>1. ws' = None /\ socket' = Hangup(socket) /\ UNCHANGED loop
    BY <1>1 DEF WatchdogBites, CloseSocket
  <2> QED BY <2>1, HangupLowers DEF SocketInv, UpIsServed, SocketIsOfThisLink, Up
<1>2. CASE UNCHANGED vars \/ \E c \in Creds : RevokedInDashboard(c)
  BY <1>2 DEF vars, RevokedInDashboard, agent, loops,
              SocketInv, UpIsServed, SocketIsOfThisLink, Up
<1> QED BY <1>1, <1>2, LoopStepSocket, NetworkSocket, RequestStepSocket DEF Next

(* Commands are taken from, and frames sent on, a socket dialled with the   *)
(* config of the last start() only, whatever loops earlier ones left.       *)
THEOREM SocketAlwaysOfThisLink == Spec => []SocketIsOfThisLink
<1>1. Init => SocketInv
  BY DEF Init, Off, SocketInv, UpIsServed, SocketIsOfThisLink, Up, Alive
<1>2. SocketInv => SocketIsOfThisLink
  BY DEF SocketInv
<1> QED BY <1>1, <1>2, SocketStep, TypeCorrect, PTL DEF Spec

-----------------------------------------------------------------------------
(* The credential. A config in memory is that of cloud.json.                *)

ConfigIsSaved == config # None => disk = CredOf(config)

LEMMA ConfigStep == TypeOK /\ ConfigIsSaved /\ [Next]_vars => ConfigIsSaved'
<1> SUFFICES ASSUME TypeOK, ConfigIsSaved, [Next]_vars PROVE ConfigIsSaved'
  OBVIOUS
<1> USE DEF ConfigIsSaved
<1>1. ASSUME NEW l \in Loops, LoopStep(l) PROVE ConfigIsSaved'
  BY <1>1 DEF LoopStep, Wake, DialFails, Unlinked, ForgetConfig, HelloTimeout, DialSucceeds
<1>2. ASSUME NEW l \in Loops, Network(l) PROVE ConfigIsSaved'
  BY <1>2 DEF Network, Closes, Hello, Ping, GoesSilent, agent
<1>3. ASSUME NEW r \in Requests, RequestStep(r) PROVE ConfigIsSaved'
  <2>1. CASE Saved(r) \/ RequestReconnect(r)
    BY <2>1 DEF Saved, RequestReconnect, Start
  <2>2. CASE Loaded(r)
    <3>1. CASE disk = None
      BY <2>2, <3>1 DEF Loaded, agent
    <3>2. CASE disk # None
      BY <2>2, <3>2, NewConfigIsNew DEF Loaded, Start, TypeOK
    <3> QED BY <3>1, <3>2
  <2>3. CASE RequestDisconnect(r) \/ RequestResume(r) \/ RevokeAnswered(r)
             \/ Cleared(r) \/ Crash(r)
    BY <2>3 DEF RequestDisconnect, RequestResume, RevokeAnswered, Cleared, ForgetConfig,
                Crash, agent
  <2>4. ASSUME NEW c \in Creds, RequestLink(r, c) PROVE ConfigIsSaved'
    BY <2>4 DEF RequestLink, agent
  <2> QED BY <1>3, <2>1, <2>2, <2>3, <2>4 DEF RequestStep
<1>4. CASE WatchdogBites \/ UNCHANGED vars \/ \E c \in Creds : RevokedInDashboard(c)
  BY <1>4 DEF WatchdogBites, vars, RevokedInDashboard, agent
<1> QED BY <1>1, <1>2, <1>3, <1>4 DEF Next

DialsWhatIsSaved ==
    \A l \in Loops : loop[l] # "dial" /\ loop'[l] = "dial"
        => disk' = CredOf(dialled'[l])

LEMMA StartDials ==
    ASSUME TypeOK, NEW cfg \in Configs, Start(cfg), disk' = CredOf(cfg)
    PROVE  DialsWhatIsSaved
BY DEF Start, DialsWhatIsSaved, TypeOK, LoopsTyped

LEMMA DialStep ==
    TypeOK /\ ConfigIsSaved /\ [Next]_vars => DialsWhatIsSaved
<1> SUFFICES ASSUME TypeOK, ConfigIsSaved, [Next]_vars PROVE DialsWhatIsSaved
  OBVIOUS
<1>1. ASSUME NEW l \in Loops, LoopStep(l) PROVE DialsWhatIsSaved
  <2>1. CASE Wake(l)
    <3>1. CASE GoesOn
      BY <2>1, <3>1 DEF Wake, GoesOn, ConfigIsSaved, DialsWhatIsSaved, TypeOK, LoopsTyped
    <3>2. CASE ~GoesOn
      BY <2>1, <3>2 DEF Wake, Leave, DialsWhatIsSaved, TypeOK, LoopsTyped
    <3> QED BY <3>1, <3>2
  <2>2. CASE ~Wake(l)
    BY <1>1, <2>2 DEF LoopStep, DialFails, Unlinked, HelloTimeout, DialSucceeds,
                      Backoff, Sleep, Leave, DialsWhatIsSaved, TypeOK, LoopsTyped
  <2> QED BY <2>1, <2>2
<1>2. ASSUME NEW l \in Loops, Network(l) PROVE DialsWhatIsSaved
  BY <1>2 DEF Network, Closes, Hello, Ping, GoesSilent, loops, Backoff, Sleep, Leave,
              DialsWhatIsSaved, TypeOK, LoopsTyped
<1>3. ASSUME NEW r \in Requests, RequestStep(r) PROVE DialsWhatIsSaved
  <2>1. CASE Saved(r)
    BY <2>1, StartDials DEF Saved, TypeOK, RequestsTyped
  <2>2. CASE RequestReconnect(r)
    BY <2>2, StartDials DEF RequestReconnect, ConfigIsSaved, TypeOK, AgentTyped
  <2>3. CASE Loaded(r)
    <3>1. CASE disk = None
      BY <2>3, <3>1 DEF Loaded, loops, DialsWhatIsSaved
    <3>2. CASE disk # None
      BY <2>3, <3>2, NewConfigIsNew, StartDials DEF Loaded, TypeOK
    <3> QED BY <3>1, <3>2
  <2>4. CASE RequestDisconnect(r) \/ RequestResume(r) \/ RevokeAnswered(r)
             \/ Cleared(r) \/ Crash(r)
    BY <2>4 DEF RequestDisconnect, RequestResume, RevokeAnswered, Cleared, Crash,
                loops, DialsWhatIsSaved
  <2>5. ASSUME NEW c \in Creds, RequestLink(r, c) PROVE DialsWhatIsSaved
    BY <2>5 DEF RequestLink, loops, DialsWhatIsSaved
  <2> QED BY <1>3, <2>1, <2>2, <2>3, <2>4, <2>5 DEF RequestStep
<1>4. CASE WatchdogBites \/ UNCHANGED vars \/ \E c \in Creds : RevokedInDashboard(c)
  BY <1>4 DEF WatchdogBites, vars, RevokedInDashboard, loops, DialsWhatIsSaved
<1> QED BY <1>1, <1>2, <1>3, <1>4 DEF Next

(* However a stop(), a revocation and a start() overlap, every loop dials   *)
(* with the credential in cloud.json: no zombie relink.                     *)
THEOREM NeverZombie == Spec => NoZombieRelink
<1>1. Init => ConfigIsSaved
  BY DEF Init, Off, ConfigIsSaved
<1>2. TypeOK /\ ConfigIsSaved /\ [Next]_vars
      => [\A l \in Loops : loop[l] # "dial" /\ loop'[l] = "dial"
             => disk' = CredOf(dialled'[l])]_vars
  BY DialStep DEF DialsWhatIsSaved
<1> QED BY <1>1, <1>2, ConfigStep, TypeCorrect, PTL DEF Spec, NoZombieRelink
=============================================================================
