----------------------------- MODULE CloudOutbox ------------------------------
(***************************************************************************)
(* How the cloud agent of src/src/cloud.ts delivers events: it observes    *)
(* them in reportState and in the process:crashed listener, queues them in *)
(* the outbox, sends the head of the outbox with every state report and    *)
(* retires what the cloud acknowledges.                                    *)
(*                                                                         *)
(* One process, as the snapshot shows it (mapProcessState): waiting for a  *)
(* restart and launching read "online".  Events are numbered as they are   *)
(* observed.  reportState awaits the log tails of the crash events that    *)
(* have none; a call that is awaiting occupies a slot, and calls overlap.  *)
(* The link itself is CloudLink's: here it is confirmed (up) or not.       *)
(* Ages are a choice: a report may find any of the oldest events expired.  *)
(* Bounds: MaxEvents events, no crash after MaxFailures failures, Slots    *)
(* for the calls that overlap, OutboxMax for the 200 of                    *)
(* CLOUD_EVENT_OUTBOX_MAX, ReportMax for the 50 a report carries.  Health  *)
(* transitions are observed like those of the status and left out.         *)
(***************************************************************************)
EXTENDS Naturals, Sequences, FiniteSets, SequencesExt, SeqFilter

CONSTANTS MaxEvents, MaxFailures, Slots, OutboxMax, ReportMax

ASSUME OutboxAssumption == MaxEvents \in Nat /\ MaxFailures \in Nat /\ OutboxMax \in Nat \ {0}
                           /\ ReportMax \in Nat \ {0} /\ Slots # {} /\ Slots \subseteq Nat

VARIABLES status, restarted,          \* the process; restart_time has grown
          running, up,                \* the agent is linked; its link is confirmed
          made, crashOf, failure,     \* events so far; the failure each reports, or 0
          snapshot, fresh,            \* lastSnapshot; directCrashAt >= lastSnapshotAt
          outbox, bare, call,         \* the queue, crashes without a tail, calls awaiting
          lastReport, wire, acks,     \* lastReport.events; frames and acks under way
          ingested, dropped
procVars == <<status, restarted>>
netVars == <<wire, acks, ingested>>
outVars == <<status, restarted, running, up, made, crashOf, failure, snapshot, fresh,
             outbox, bare, call, lastReport, wire, acks, ingested, dropped>>

Events == 1 .. MaxEvents

Free == [at |-> "free", new |-> <<>>, reads |-> {}]

OutTypeOK ==
  /\ status \in {"online", "waiting", "stopped", "errored"}
  /\ restarted \in BOOLEAN /\ running \in BOOLEAN /\ up \in BOOLEAN
  /\ made \in 0 .. MaxEvents /\ failure \in Nat
  /\ crashOf \in [Events -> Nat]
  /\ snapshot \in {"none", "online", "stopped", "errored"}
  /\ fresh \in BOOLEAN
  /\ outbox \in Seq(Events) /\ bare \subseteq Events
  /\ call \in [Slots -> [at : {"free", "tails"}, new : Seq(Events), reads : SUBSET Events]]
  /\ lastReport \subseteq Events /\ wire \subseteq Events /\ acks \subseteq Events
  /\ ingested \subseteq Events /\ dropped \subseteq Events

OutInit ==
  /\ status = "online" /\ restarted = FALSE
  /\ running = TRUE /\ up = FALSE
  /\ made = 0 /\ crashOf = [e \in Events |-> 0] /\ failure = 0
  /\ snapshot \in {"none", "online"} /\ fresh = FALSE
  /\ outbox = <<>> /\ bare = {} /\ call = [s \in Slots |-> Free]
  /\ lastReport = {} /\ wire = {} /\ acks = {} /\ ingested = {} /\ dropped = {}

-----------------------------------------------------------------------------
(* Observing *)

RawStatus == status     \* mutant

(* mapProcessState *)
Shown == IF status = "waiting" THEN "online" ELSE status

(* diffEvents: a crash is the latest failure, every other transition is 0   *)
DiffEvents(old, new) ==
  (IF old # "errored" /\ old # "none" /\ new = "errored" THEN <<failure>>
   ELSE IF old # new /\ ~(old = "errored" /\ new = "stopped") THEN <<0>> ELSE <<>>)
  \o (IF old # "none" /\ restarted THEN <<0>> ELSE <<>>)

AnyEvent(n) == TRUE     \* mutant

(* A crash the listener has reported since the last snapshot is left out. *)
NotDirect(n) == ~(n > 0 /\ fresh)

(* The observations take the next numbers, as many as MaxEvents leaves. *)
UpTo(n, s) == SubSeq(s, 1, IF n < Len(s) THEN n ELSE Len(s))
Numbered(ns) == [j \in 1 .. Len(ns) |-> made + j]
Named(ns) == crashOf' = [e \in Events |-> IF e \in made + 1 .. made + Len(ns)
                                          THEN ns[e - made] ELSE crashOf[e]]

-----------------------------------------------------------------------------
(* Pruning and sending: the rest of reportState, after the log tails *)

(* An event that is too old, and the oldest of those beyond the cap *)
Pruned(box) ==
  {LET young == Among(box, {e \in Events : e > k})
   IN SubSeq(young, IF Len(young) > OutboxMax THEN Len(young) - OutboxMax + 1 ELSE 1,
             Len(young)) : k \in {0} \cup ToSet(box)}

TrimmedOnSend(box, sent) ==      \* mutant
  IF sent THEN SubSeq(box, ReportMax + 1, Len(box)) ELSE box

(* sendFrame is no delivery: the acknowledgement trims *)
AfterSend(box, sent) == box

Sends(events, linkUp) == wire' = IF linkUp THEN wire \cup events ELSE wire

Completes(new, box, linkUp) ==
  \E kept \in Pruned(box \o new) :
    LET head == ToSet(UpTo(ReportMax, kept)) IN
    /\ outbox' = AfterSend(kept, linkUp)
    /\ dropped' = dropped \cup (ToSet(box \o new) \ ToSet(kept))
    /\ lastReport' = head
    /\ Sends(head, linkUp)

(* reportState up to its first await - or to its end, when every crash     *)
(* event has its log tail; thresholds may add an event of their own        *)
ReportState(linkUp) ==
  \E alert \in {<<>>, <<0>>} :
    LET seen == Among(DiffEvents(snapshot, Shown), {n \in {0, failure} : NotDirect(n)})
        ns == UpTo(MaxEvents - made, seen \o alert)
        new == Numbered(ns)
        crashes == {e \in ToSet(new) : ns[e - made] > 0}
        reads == (bare \cap ToSet(outbox)) \cup crashes
        free == {s \in Slots : call[s].at = "free"}
    IN
    /\ snapshot' = Shown /\ restarted' = FALSE /\ fresh' = FALSE
    /\ made' = made + Len(ns) /\ Named(ns)
    /\ IF reads = {}
       THEN /\ Completes(new, outbox, linkUp)
            /\ UNCHANGED <<bare, call>>
       ELSE \E s \in free :
              /\ \A r \in free : s <= r
              /\ call' = [call EXCEPT ![s] = [at |-> "tails", new |-> new, reads |-> reads]]
              /\ bare' = bare \cup crashes
              /\ UNCHANGED <<outbox, dropped, lastReport, wire>>

(* The report timer, and the report after a command *)
Report ==
  /\ running
  /\ ReportState(up)
  /\ UNCHANGED <<status, running, up, failure, acks, ingested>>

(* The tails are read - or not, if getLogs throws; the link is looked at   *)
(* again only by sendFrame.                                                *)
TailsRead(s) ==
  /\ call[s].at = "tails"
  /\ call' = [call EXCEPT ![s] = Free]
  /\ bare' \in {bare, bare \ call[s].reads}
  /\ Completes(call[s].new, outbox, up)
  /\ UNCHANGED <<procVars, running, up, made, crashOf, failure, snapshot, fresh, acks, ingested>>

-----------------------------------------------------------------------------
(* The process and the other sources of events *)

(* forwardCrash: a crash goes to the outbox at once *)
ForwardCrash(n) ==
  IF running /\ made < MaxEvents
  THEN /\ made' = made + 1 /\ crashOf' = [crashOf EXCEPT ![made + 1] = n]
       /\ outbox' = Append(outbox, made + 1)
       /\ bare' = bare \cup {made + 1} /\ fresh' = TRUE
  ELSE UNCHANGED <<made, crashOf, outbox, bare, fresh>>

Crash(next) ==
  /\ status = "online" /\ made < MaxEvents /\ failure < MaxFailures
  /\ status' = next
  /\ failure' = failure + 1
  /\ ForwardCrash(failure + 1)
  /\ UNCHANGED <<restarted, running, up, snapshot, call, lastReport, netVars, dropped>>

Quietly == UNCHANGED <<running, up, made, crashOf, snapshot, fresh, outbox, bare, call,
                       lastReport, netVars, dropped>>

(* The restart timer: it starts the process, or start() fails, which only   *)
(* the next snapshot tells                                                  *)
Restart ==
  /\ status = "waiting" /\ made < MaxEvents
  /\ \/ status' = "online" /\ restarted' = TRUE /\ UNCHANGED failure
     \/ status' = "errored" /\ failure' = failure + 1 /\ UNCHANGED restarted
  /\ Quietly

(* An operator or a command of the cloud starts or stops it, or it exits 0. *)
Operate ==
  /\ made < MaxEvents
  /\ status' = IF status = "online" THEN "stopped" ELSE "online"
  /\ UNCHANGED <<restarted, failure>> /\ Quietly

(* reportCronOutcome *)
CronOutcome ==
  /\ running /\ made < MaxEvents
  /\ made' = made + 1
  /\ outbox' = Append(outbox, made + 1)
  /\ UNCHANGED <<procVars, running, up, crashOf, failure, snapshot, fresh, bare, call,
                 lastReport, netVars, dropped>>

(* alertsTest, linked or not: what it sends is the last report *)
AlertsTest ==
  /\ made < MaxEvents
  /\ made' = made + 1
  /\ outbox' = Append(outbox, made + 1)
  /\ Sends(lastReport, up)
  /\ UNCHANGED <<procVars, running, up, crashOf, failure, snapshot, fresh, bare, call,
                 lastReport, acks, ingested, dropped>>

-----------------------------------------------------------------------------
(* The link and the cloud *)

(* confirmLink *)
LinkUp ==
  /\ running /\ ~up
  /\ up' = TRUE
  /\ ReportState(TRUE)
  /\ UNCHANGED <<status, running, failure, acks, ingested>>

(* The socket is gone: what it had buffered is lost - what got through has *)
(* been ingested - and acks are not read.                                  *)
LinkDown ==
  /\ up
  /\ up' = FALSE /\ acks' = {} /\ wire' = {}
  /\ UNCHANGED <<procVars, running, made, crashOf, failure, snapshot, fresh, outbox, bare, call,
                 lastReport, ingested, dropped>>

(* The cloud ingests a report: new ids once, an acknowledgement for all *)
Ingest(e) ==
  /\ e \in wire
  /\ wire' = wire \ {e}
  /\ ingested' = ingested \cup {e}
  /\ acks' = acks \cup {e}
  /\ UNCHANGED <<procVars, running, up, made, crashOf, failure, snapshot, fresh, outbox, bare,
                 call, lastReport, dropped>>

HandleEventAck(e) ==
  /\ e \in acks
  /\ acks' = acks \ {e}
  /\ outbox' = Among(outbox, Events \ {e})
  /\ UNCHANGED <<procVars, running, up, made, crashOf, failure, snapshot, fresh, bare, call,
                 lastReport, wire, ingested, dropped>>

(* handleRevoked forgets the outbox, stop() keeps it; a call that awaits    *)
(* its tails goes on                                                        *)
Unlink(revoked) ==
  /\ running
  /\ running' = FALSE /\ up' = FALSE /\ acks' = {} /\ wire' = {}
  /\ IF revoked /\ up
     THEN outbox' = <<>> /\ dropped' = dropped \cup ToSet(outbox)
     ELSE UNCHANGED <<outbox, dropped>>
  /\ UNCHANGED <<procVars, made, crashOf, failure, snapshot, fresh, bare, call, lastReport,
                 ingested>>

(* start() *)
Link ==
  /\ ~running
  /\ running' = TRUE
  /\ ReportState(FALSE)
  /\ UNCHANGED <<status, up, failure, acks, ingested>>

OutNext ==
  \/ Report \/ Restart \/ Operate \/ CronOutcome \/ AlertsTest
  \/ \E s \in Slots : TailsRead(s)
  \/ \E next \in {"waiting", "errored", "stopped"} : Crash(next)
  \/ LinkUp \/ LinkDown \/ Link
  \/ \E e \in Events : Ingest(e) \/ HandleEventAck(e)
  \/ \E revoked \in BOOLEAN : Unlink(revoked)

(* The report timer ticks and the reconnect loop dials on (strongly fair:  *)
(* a call finds no slot now and then); a link that keeps coming back lasts *)
(* long enough, now and then, for log tails to be read and for an event or *)
(* an acknowledgement to get through.                                      *)
OutFairness ==
  /\ SF_outVars(up /\ Report) /\ SF_outVars(LinkUp)
  /\ \A s \in Slots : WF_outVars(TailsRead(s)) /\ SF_outVars(up /\ TailsRead(s))
  /\ SF_outVars(\E e \in Events : Ingest(e)) /\ SF_outVars(\E e \in Events : HandleEventAck(e))

OutSpec == OutInit /\ [][OutNext]_outVars /\ OutFairness

-----------------------------------------------------------------------------

(* One failure of the process is one event, whichever of the listener, the *)
(* snapshots and the overlapping reports saw it, linked or not: the        *)
(* occurrence counter of the dashboard counts crashes, not sightings.      *)
OneReportPerCrash ==
  \A d, e \in 1 .. made : crashOf[d] > 0 /\ crashOf[d] = crashOf[e] => d = e

(* What the agent holds: an event that is in no queue is held no more.      *)
Queued(e) == e \in ToSet(outbox) \/ \E s \in Slots : e \in ToSet(call[s].new)

Fate(e) == IF e \in ingested THEN "delivered"
           ELSE IF e \in dropped THEN "givenUp"
           ELSE IF Queued(e) THEN "held" ELSE "none"

Channel == INSTANCE EventChannel WITH linked <- running, fate <- [e \in Events |-> Fate(e)]

(* The outbox, the acks and the retransmissions implement the channel:     *)
(* over a link that breaks and loses frames and acks, no event that was    *)
(* observed is forgotten without having expired, overflowed or been        *)
(* unlinked.                                                               *)
DeliversOrGivesUp == Channel!ChanSpec

=============================================================================
