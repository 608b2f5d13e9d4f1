------------------------------ MODULE LogManager ------------------------------
(* The log of one stream of one process: the write buffer of the daemon, the  *)
(* appends in flight, the live file and its rotations on disk, the rotation   *)
(* with its background compression, and the live tails (log-manager.ts).      *)
(* Files are inodes: an append opens the live name, a rename keeps the inode. *)
EXTENDS Naturals, Sequences, SequencesExt, FiniteSets, FiniteSetsExt

CONSTANTS MaxLines,       \* bound: lines the process ever prints
          MaxSize,        \* logMaxSize, in lines
          Retain,         \* logRetain
          MaxRotations,   \* bound: rotations that are looked at
          SearchCap,      \* the lines of a file that SEARCH_LINE_CAP admits
          Watches,        \* identities of the tails that are started
          NoTail          \* no tail

\* logRetain || DEFAULT_LOG_RETAIN is never 0.
ASSUME LogAssumption == /\ NoTail \notin Watches /\ Retain \in Nat \ {0}
                        /\ MaxLines \in Nat /\ MaxRotations \in Nat
                        /\ SearchCap \in Nat

Line == 1..MaxLines
Inode == 1..(MaxRotations + 2)
Suffix == 1..(Retain - 1)       \* names .1, .2, ... of rotated files
None == 0                       \* no file has this name

VARIABLES compress,     \* logCompress
          printed,      \* how many lines have been printed
          pending,      \* writeBuffers: lines not handed to the file system
          flushArmed,   \* flushTimers has an entry
          flushTimer,   \* a timeout that will call flushBuffer is running
          appends,      \* appendFile calls in flight: [chunk, at]
          content,      \* what is in each inode
          live,         \* the inode the live name refers to
          plain,        \* the inode that .i refers to
          gz,           \* the lines in .i.gz, or <<>>
          rot,          \* the rotation in progress
          packing,      \* its background compressions
          found,        \* what was on disk when the last rotation began
          tails,        \* intervals of log tails that are armed
          tailEntry     \* lineWatchers

flushVars == <<flushArmed, flushTimer>>
logVars == <<compress, printed, pending, flushVars, appends, content, live, plain,
             gz, rot, packing, found, tails, tailEntry>>
fileVars == <<content, live, plain, gz>>
tailVars == <<tails, tailEntry>>

Idle == [at |-> "idle", i |-> 0]

FreshInode == Max({0} \cup {n \in Inode : content[n] # <<>> \/ n = live
                             \/ n \in Range(plain) \/ \E a \in appends : a.at = n}) + 1

LogInit ==
  /\ compress \in BOOLEAN
  /\ printed = 0 /\ pending = <<>> /\ flushArmed = FALSE /\ flushTimer = FALSE /\ appends = {}
  /\ content = [n \in Inode |-> <<>>]
  /\ live = None /\ plain = [i \in Suffix |-> None] /\ gz = [i \in Suffix |-> <<>>]
  /\ rot = Idle /\ packing = {} /\ found = {}
  /\ tails = {} /\ tailEntry = NoTail

------------------------------------------------------------------------------
(* appendJSONLog(): buffered, flushed 100 ms after the first buffered line.   *)
AppendLine ==
  /\ printed < MaxLines
  /\ printed' = printed + 1
  /\ pending' = Append(pending, printed + 1)
  /\ flushArmed' = TRUE
  /\ flushTimer' = (flushTimer \/ ~flushArmed)
  /\ UNCHANGED <<compress, appends, fileVars, rot, packing, found, tailVars>>

\* flushBuffer() clears the buffer and the timer entry before it awaits the append.
TimerKept == TRUE                      \* mutant: the entry stays
TimerAfterFlush == FALSE

FlushBuffer ==
  /\ flushTimer /\ pending # <<>>
  /\ appends' = appends \cup {[chunk |-> pending, at |-> None]}
  /\ pending' = <<>>
  /\ flushTimer' = FALSE
  /\ flushArmed' = TimerAfterFlush
  /\ UNCHANGED <<compress, printed, fileVars, rot, packing, found, tailVars>>

\* appendFile opens the live name, and creates it if it is not there.
OpenAppend ==
  \E a \in appends :
    /\ a.at = None
    /\ \/ live # None /\ live' = live
       \/ live = None /\ FreshInode \in Inode /\ live' = FreshInode
    /\ appends' = (appends \ {a}) \cup {[a EXCEPT !.at = live']}
    /\ UNCHANGED <<compress, printed, pending, flushVars, content, plain, gz, rot,
                   packing, found, tailVars>>

WriteAppend ==
  \E a \in appends :
    /\ a.at # None
    /\ content' = [content EXCEPT ![a.at] = @ \o a.chunk]
    /\ appends' = appends \ {a}
    /\ UNCHANGED <<compress, printed, pending, flushVars, live, plain, gz, rot, packing,
                   found, tailVars>>

\* An append that fails is reported on the console and its lines are gone.
AppendFails ==
  \E a \in appends :
    /\ a.at = None
    /\ appends' = appends \ {a}
    /\ UNCHANGED <<compress, printed, pending, flushVars, fileVars, rot, packing, found,
                   tailVars>>

\* R.filesystem.write(filePath, ""): truncates the inode, or creates the file.
Truncated ==
  \/ /\ live # None
     /\ content' = [content EXCEPT ![live] = <<>>] /\ live' = live
  \/ /\ live = None /\ FreshInode \in Inode
     /\ live' = FreshInode /\ UNCHANGED content

\* `pboss flush`.
FlushLogs ==
  /\ Truncated
  /\ found' = IF live = None THEN found ELSE found \ ToSet(content[live])
  /\ UNCHANGED <<compress, printed, pending, flushVars, appends, plain, gz, rot, packing,
                 tailVars>>

------------------------------------------------------------------------------
(* checkRotation(), every minute: shift the names, truncate, tidy up. The     *)
(* compressions of one tick are over before the next.                         *)
Archived == (UNION {ToSet(content[plain[i]]) : i \in {j \in Suffix : plain[j] # None}})
            \cup (UNION {ToSet(gz[i]) : i \in Suffix})
OnDisk == Archived \cup (IF live = None THEN {} ELSE ToSet(content[live]))
Oldest == IF Retain = 1 THEN live ELSE plain[Retain - 1]
Displaced == IF Oldest = None THEN {} ELSE ToSet(content[Oldest])

RotateBegins ==
  /\ rot = Idle /\ packing = {}
  /\ live # None /\ Len(content[live]) >= MaxSize
  /\ FreshInode \in Inode
  /\ found' = OnDisk \ Displaced
  /\ rot' = [at |-> "shift", i |-> Retain - 1]
  /\ UNCHANGED <<compress, printed, pending, flushVars, appends, fileVars, packing, tailVars>>

\* One round of the loop: rename src to dst if src exists, start its compression.
ShiftAllButLive(i) == IF i = 2 THEN 0 ELSE i - 1      \* mutant: the loop ends at 2
ShiftOrder(i) == i - 1

Shift ==
  /\ rot.at = "shift" /\ rot.i \in Suffix
  /\ LET i == rot.i
         src == IF i = 1 THEN live ELSE plain[i - 1]
     IN \/ /\ src = None
           /\ UNCHANGED <<live, plain, packing>>
        \/ /\ src # None
           /\ plain' = IF i = 1 THEN [plain EXCEPT ![1] = src]
                       ELSE [plain EXCEPT ![i] = src, ![i - 1] = None]
           /\ live' = IF i = 1 THEN None ELSE live
           /\ packing' = IF compress
                THEN packing \cup {[i |-> i, at |-> "read", data |-> <<>>]}
                ELSE packing
  /\ rot' = [rot EXCEPT !.i = ShiftOrder(rot.i)]
  /\ UNCHANGED <<compress, printed, pending, flushVars, appends, content, gz, found, tailVars>>

TruncateLive ==
  /\ rot.at = "shift" /\ rot.i \notin Suffix
  /\ Truncated
  /\ rot' = [at |-> "tidy", i |-> 0]
  /\ UNCHANGED <<compress, printed, pending, flushVars, appends, plain, gz, packing, found,
                 tailVars>>

\* files.sort().reverse().slice(retain): the names after the first Retain in descending order go.
Rotations == {f \in Suffix \X {0, 1} :
                IF f[2] = 0 THEN plain[f[1]] # None ELSE gz[f[1]] # <<>>}
Rank(f) == Cardinality({g \in Rotations : g[1] > f[1] \/ (g[1] = f[1] /\ g[2] >= f[2])})
Surplus == {f \in Rotations : Rank(f) > Retain}

TidyUp ==
  /\ rot.at = "tidy"
  /\ plain' = [i \in Suffix |-> IF <<i, 0>> \in Surplus THEN None ELSE plain[i]]
  /\ gz' = [i \in Suffix |-> IF <<i, 1>> \in Surplus THEN <<>> ELSE gz[i]]
  /\ rot' = Idle
  /\ UNCHANGED <<compress, printed, pending, flushVars, appends, content, live, packing,
                 found, tailVars>>

\* The background compression of one rotated file: read, write .gz, unlink.
Pack ==
  \E t \in packing :
    /\ \/ /\ t.at = "read" /\ plain[t.i] # None
          /\ packing' = (packing \ {t}) \cup {[t EXCEPT !.at = "write", !.data = content[plain[t.i]]]}
          /\ UNCHANGED <<plain, gz>>
       \/ /\ t.at = "read"      \* the file is gone, or the compression fails
          /\ packing' = packing \ {t} /\ UNCHANGED <<plain, gz>>
       \/ /\ t.at = "write"
          /\ gz' = [gz EXCEPT ![t.i] = t.data]
          /\ packing' = (packing \ {t}) \cup {[t EXCEPT !.at = "unlink", !.data = <<>>]}
          /\ UNCHANGED plain
       \/ /\ t.at = "unlink"
          /\ plain' = [plain EXCEPT ![t.i] = None]
          /\ packing' = packing \ {t} /\ UNCHANGED gz
    /\ UNCHANGED <<compress, printed, pending, flushVars, appends, content, live, rot, found,
                   tailVars>>

------------------------------------------------------------------------------
(* watchLogs(): one tail per target; its stop function may be called late.    *)
StopTail(armed, w) == armed \ {w}
EntryAlwaysCleared(w) == NoTail        \* mutant: no identity check
EntryAfterStop(w) == IF tailEntry = w THEN NoTail ELSE tailEntry

WatchLogs ==
  \E w \in Watches \ tails :
    /\ tails' = StopTail(tails, tailEntry) \cup {w}
    /\ tailEntry' = w
    /\ UNCHANGED <<compress, printed, pending, flushVars, appends, fileVars, rot, packing,
                   found>>

StopWatch ==
  \E w \in Watches :
    /\ tails' = StopTail(tails, w)
    /\ tailEntry' = EntryAfterStop(w)
    /\ UNCHANGED <<compress, printed, pending, flushVars, appends, fileVars, rot, packing,
                   found>>

FileNext == \/ AppendLine \/ FlushBuffer \/ OpenAppend \/ WriteAppend \/ AppendFails
            \/ FlushLogs \/ RotateBegins \/ Shift \/ TruncateLive \/ TidyUp \/ Pack
TailNext == WatchLogs \/ StopWatch

LogNext == FileNext \/ TailNext
LogSpec == LogInit /\ [][LogNext]_logVars

------------------------------------------------------------------------------
(* searchLogFiles(): the live file, .0 here, then one file per suffix, newest  *)
(* first; of each the last SearchCap lines. Files that cannot be read, unread, *)
(* and the older lines of a file, are passed over without a word.             *)
Expanded == 0 .. Retain - 1

\* Of .i and .i.gz the one that readdir has named first is read.
Lines(g, gzFirst) ==
  IF g = 0 THEN IF live = None THEN <<>> ELSE content[live]
  ELSE IF plain[g] = None \/ g \in gzFirst THEN gz[g] ELSE content[plain[g]]

Recent(s) == {k \in DOMAIN s : k + SearchCap > Len(s)}

\* The matches are the first maxResults places <<file, line>> in this order. Lines
\* end in a newline, so that a search that stops at the limit has always some left.
SearchLogs(hits, maxResults, unread, gzFirst) ==
  LET At(g) == {k \in Recent(Lines(g, gzFirst)) : Lines(g, gzFirst)[k] \in hits}
      places == UNION {{<<g, k>> : k \in At(g)} : g \in Expanded \ unread}
      Before(x) == {y \in places : y[1] < x[1] \/ (y[1] = x[1] /\ y[2] < x[2])}
  IN  [matches |-> {Lines(x[1], gzFirst)[x[2]] :
                      x \in {y \in places : Cardinality(Before(y)) < maxResults}},
       truncated |-> Cardinality(places) >= maxResults]

------------------------------------------------------------------------------
LogTypeOK ==
  /\ compress \in BOOLEAN /\ {flushArmed, flushTimer} \subseteq BOOLEAN
  /\ printed \in 0..MaxLines /\ pending \in Seq(Line)
  /\ \A a \in appends : a.chunk \in Seq(Line) /\ a.at \in Inode \cup {None}
  /\ content \in [Inode -> Seq(Line)]
  /\ live \in Inode \cup {None} /\ plain \in [Suffix -> Inode \cup {None}]
  /\ gz \in [Suffix -> Seq(Line)]
  /\ rot \in [at : {"idle", "shift", "tidy"}, i : 0..Retain]
  /\ found \subseteq Line
  /\ tails \subseteq Watches /\ tailEntry \in Watches \cup {NoTail}

(* rotate(): what was on disk when a rotation began, except the content of    *)
(* the oldest file, is on disk when it ends: the shift must not overwrite a   *)
(* younger generation. (With compression this is not so: see README.)         *)
RotationLosesOnlyOldest ==
  [][(rot.at = "tidy" /\ rot'.at = "idle" /\ ~compress) => found \subseteq OnDisk']_logVars

(* appendJSONLog() and flushBuffer(): however appends and flushes interleave,  *)
(* lines that are buffered have a flush coming: none waits for another line.  *)
FlushIsComing == pending # <<>> => flushTimer

(* watchLogs(): one interval per target, and it is the one that the table     *)
(* knows, although stop functions of replaced tails are called late.          *)
OneTail == tails = {tailEntry} \ {NoTail}

(* searchLogFiles(): between rotations, a search of an uncompressed log that   *)
(* does not say that it is truncated has every match on disk, but for those in *)
(* files it could not read or beyond the cap of a file.                       *)
PassedOver(s, cannot) == IF cannot THEN ToSet(s) ELSE {s[k] : k \in DOMAIN s \ Recent(s)}
SearchIsHonest ==
  (rot = Idle /\ ~compress) =>
    \A hits \in (SUBSET OnDisk) \ {{}}, max \in 1..MaxLines, unread \in SUBSET (0 .. Retain - 1),
       gzFirst \in SUBSET {i \in Suffix : gz[i] # <<>>} :
      LET r == SearchLogs(hits, max, unread, gzFirst)
      IN  ~r.truncated => \A l \in hits \ r.matches :
            \/ live # None /\ l \in PassedOver(content[live], 0 \in unread)
            \/ \E i \in Suffix : plain[i] # None /\ l \in PassedOver(content[plain[i]], i \in unread)

(* What a process prints comes through: buffered lines are flushed without    *)
(* waiting for another, a follower is sent each of them by one tail, and a    *)
(* search returns what it matches in what it reads, or says that it does not. *)
LinesComeThrough == FlushIsComing /\ OneTail /\ SearchIsHonest
=============================================================================
