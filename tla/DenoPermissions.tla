--------------------------- MODULE DenoPermissions ---------------------------
(***************************************************************************)
(* The permission flags of a Deno app: an app's `permissions` list merged  *)
(* into the command its interpreter was resolved to (deno-permissions.ts,  *)
(* buildWorkerSpawn of cluster-manager.ts).  A flag is what Deno tells     *)
(* apart: -A, or allow/deny of a category, scoped to a value or not.       *)
(***************************************************************************)
EXTENDS Naturals, SequencesExt, SeqFilter

CONSTANTS Categories, \* permission categories that are tried
          MaxEntries, \* length of a permissions list
          MaxStated   \* flags the user wrote in the interpreter's arguments

\* The two bounds are numbers.
ASSUME PermAssumption == MaxEntries \in Nat /\ MaxStated \in Nat

VARIABLES permAsk,      \* [runtime, stated, routeAll, entries], or Unasked
          permCommand     \* the flags of the command, or Refused
permVars == <<permAsk, permCommand>>

AllFlag == [sort |-> "all"]
NoneEntry == [sort |-> "none"]
Garbage == [sort |-> "garbage"]
Scoped == [sort : {"allow", "deny"}, cat : Categories, scope : {"whole", "value"}]
Grants == Scoped \cup {AllFlag}
Refused == <<Garbage>>
Unasked == [runtime |-> "none"]

SameStem(p, q) == p \in Scoped /\ q \in Scoped /\ p.sort = q.sort /\ p.cat = q.cat
Mentions(flags, p) == \E i \in DOMAIN flags : SameStem(flags[i], p)
HasAll(flags) == Contains(flags, AllFlag)
HasAllow(flags) == \E i \in DOMAIN flags : flags[i] \in Scoped /\ flags[i].sort = "allow"

-----------------------------------------------------------------------------
(* A repeated stem replaces the earlier flag and moves to the end.          *)
Appended(flags, p) == Append(Among(flags, {q \in Scoped : ~SameStem(p, q)}), p)
IsDeny(p) == p.sort = "deny"

(* normalizeDenoPermissions: none empties the list before anything is       *)
(* parsed, all drops what it subsumes                                       *)
Normalized(entries) ==
  LET flags == FoldLeft(Appended, <<>>, Among(entries, Scoped))
  IN CASE Contains(entries, NoneEntry) -> <<>>
       [] ~Contains(entries, NoneEntry) /\ Contains(entries, Garbage) -> Refused
       [] OTHER -> IF ~HasAll(entries) THEN flags
                   ELSE Append(Among(flags, {q \in Scoped : IsDeny(q)}), AllFlag)

(* mergeDenoPermissions, rules 3 and 4: what the user stated decides        *)
Suppressed(merged, p) ==
  IF p = AllFlag THEN HasAll(merged) \/ HasAllow(merged)
  ELSE Mentions(merged, p) \/ (HasAll(merged) /\ p.sort = "allow")

AddFlag(merged, p) == IF Suppressed(merged, p) THEN merged ELSE Append(merged, p)

(* rule 2: pboss's own -A goes, a -A of the user's stays                    *)
Stripped(all, stated) == stated

(* mergeDenoPermissions: another runtime, or no list, leaves the command    *)
MergedCommand(q) ==
  LET before == IF q.routeAll THEN <<AllFlag>> \o q.stated ELSE q.stated
      listed == Normalized(q.entries)
  IN IF q.runtime # "deno" \/ q.entries = <<>> THEN before
     ELSE IF listed = Refused THEN Refused
     ELSE FoldLeft(AddFlag, Stripped(q.routeAll, q.stated), listed)

Entries == Grants \cup {NoneEntry, Garbage}
PermNext ==
  /\ permAsk = Unasked
  /\ \E rt \in {"deno", "bun"}, stated \in SeqOf(Grants, MaxStated), all \in BOOLEAN,
        entries \in SeqOf(Entries, MaxEntries) :
       permAsk' = [runtime |-> rt, stated |-> stated, routeAll |-> all, entries |-> entries]
  /\ permCommand' = MergedCommand(permAsk')
PermInit == permAsk = Unasked /\ permCommand = Refused
PermSpec == PermInit /\ [][PermNext]_permVars
PermTypeOK == permCommand = Refused \/ \A i \in DOMAIN permCommand : permCommand[i] \in Grants

-----------------------------------------------------------------------------
(* Deno: -A with any --allow-* is refused, a deny wins over any grant.      *)
Conflict(flags) == HasAll(flags) /\ HasAllow(flags)
Denied(flags, c) == \E i \in DOMAIN flags : IsDeny(flags[i]) /\ flags[i].cat = c
Opens(flags, c) == HasAll(flags) \/ (\E i \in DOMAIN flags :
                     flags[i].sort = "allow" /\ flags[i].cat = c)

(* A permissions list can neither break the command nor widen it beyond     *)
(* what was written: Deno accepts the merged command if it accepts the      *)
(* user's own flags; those stay first and as they are; a category is open   *)
(* only if the user's flags or the list opens it and a scoped grant of the  *)
(* user's is never followed by a second one or by -A; a deny of the list    *)
(* is in force whatever opens the category.                                 *)
MinimalGrants ==
  permAsk.runtime = "deno" /\ permAsk.entries # <<>> /\ permCommand # Refused =>
    /\ Conflict(permCommand) => Conflict(permAsk.stated)
    /\ IsPrefix(permAsk.stated, permCommand)
    /\ \A c \in Categories :
         /\ Opens(permCommand, c) => Opens(permAsk.stated, c) \/ Opens(permAsk.entries, c)
         /\ Denied(permAsk.entries, c) /\ ~Contains(permAsk.entries, NoneEntry) =>
              Denied(permCommand, c)
    /\ HasAllow(permAsk.stated) /\ ~HasAll(permAsk.stated) => ~HasAll(permCommand)
    /\ \A i, j \in DOMAIN permCommand :
         i < j /\ SameStem(permCommand[i], permCommand[j]) => j <= Len(permAsk.stated)
=============================================================================
