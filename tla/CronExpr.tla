-------------------------------- MODULE CronExpr --------------------------------
(* The friendly schedules (cron-expr.ts): what parseSchedule makes of a word, *)
(* a number and a time, and when it then fires. The words are already split;  *)
(* a cron expression is its fields, each the set of values it matches.        *)
EXTENDS Integers, FiniteSets, FiniteSetsExt

CONSTANTS Hours, Minutes,     \* the times that are written and looked at
          StepsWritten        \* the numbers in every-N-hours, -minutes, -seconds, -days

VARIABLES written, parsed

exprVars == <<written, parsed>>

\* The first three months of 2026, counted in days from Thursday, 1 January.
MonthDays == <<31, 28, 31>>
Days == 0..89
MonthOf(d) == IF d < 31 THEN 1 ELSE IF d < 59 THEN 2 ELSE 3
DayOfMonth(d) == d + 1 - (CASE MonthOf(d) = 1 -> 0 [] MonthOf(d) = 2 -> 31 [] OTHER -> 59)
Weekday(d) == (d + 4) % 7

Words == {"everyday", "everyhour", "everyminute", "everysecond", "everyweek", "everymonth",
          "seconds", "minutes", "hours", "days", "dom", "weekday", "today", "tomorrow",
          "ondate"}
Counted == {"seconds", "minutes", "hours", "days"}
NoTime == [hour |-> -1, minute |-> -1]
Times == {NoTime} \cup [hour : Hours \cup {24, 25}, minute : Minutes \cup {60}]

Failure == [kind |-> "error"]
Today == 30                                   \* 31 January, 09:00
NowHour == 9

------------------------------------------------------------------------------
\* parseTime: hour 24 is the first hour of the next day.
TimeFails(t) == t.hour > 24 \/ t.minute > 59
HourOf(t) == IF t.hour \in {-1, 24} THEN 0 ELSE t.hour
MinuteOf(t) == IF t.minute = -1 THEN 0 ELSE t.minute
ShiftOf(t) == IF t.hour = 24 THEN 1 ELSE 0

AnySecond == 0..59
AnyMinute == 0..59
AnyHour == 0..23
AnyDay == 1..31
AnyWeekday == 0..6
Every(n, values) == {v \in values : (v - Min(values)) % n = 0}           \* */n

Cron(second, minute, hour, dom, dow) ==
  [kind |-> "cron", second |-> second, minute |-> minute, hour |-> hour, dom |-> dom, dow |-> dow]
At(t, dom, dow) == Cron({0}, {MinuteOf(t)}, {HourOf(t)}, dom, dow)
Once(day, t) == [kind |-> "once", day |-> day, hour |-> HourOf(t), minute |-> MinuteOf(t)]
Future(day, t) == day > Today \/ (day = Today /\ HourOf(t) > NowHour)

NotShifted(n, t) == n % 7                                \* mutant: hour 24 stays on its day
ShiftedWeekday(n, t) == (n + ShiftOf(t)) % 7

\* The words that take a time of day.
Dated(w) ==
  IF TimeFails(w.time) THEN Failure ELSE
  CASE w.word = "everyday" -> At(w.time, AnyDay, AnyWeekday)
    [] w.word = "everyweek" -> At(w.time, AnyDay, {ShiftedWeekday(0, w.time)})
    [] w.word = "weekday" -> At(w.time, AnyDay, {ShiftedWeekday(w.n, w.time)})
    [] w.word = "everymonth" ->
         IF ShiftOf(w.time) = 1 THEN Failure ELSE At(w.time, {1}, AnyWeekday)
    [] w.word = "days" ->
         IF ShiftOf(w.time) = 1 THEN Failure ELSE At(w.time, Every(w.n, AnyDay), AnyWeekday)
    [] w.word = "dom" ->
         IF w.n + ShiftOf(w.time) > 31 THEN Failure
         ELSE At(w.time, {w.n + ShiftOf(w.time)}, AnyWeekday)

\* One-shots need a time; what is not in the future is refused. A date is checked
\* against the calendar after hour 24 has moved it (on-date is day n of January).
OneShot(w) ==
  IF TimeFails(w.time) \/ (w.time = NoTime /\ w.word # "ondate") THEN Failure ELSE
  CASE w.word = "tomorrow" -> Once(Today + 1 + ShiftOf(w.time), w.time)
    [] w.word = "today" -> LET d == Today + ShiftOf(w.time) IN
         IF Future(d, w.time) THEN Once(d, w.time) ELSE Failure
    [] w.word = "ondate" -> LET d == w.n - 1 + ShiftOf(w.time) IN
         IF d < MonthDays[1] /\ Future(d, w.time) THEN Once(d, w.time) ELSE Failure

\* The words that take at most a minute.
Hourly(w) ==
  LET minute == IF w.time = NoTime THEN {0} ELSE {w.time.hour}          \* everyhour@30
      untimed == w.word \in {"everysecond", "everyminute", "seconds", "minutes"}
  IN IF w.time # NoTime /\ (untimed \/ w.time.minute # 0) THEN Failure  \* not H, but H:M
     ELSE
     CASE w.word = "everysecond" -> Cron(AnySecond, AnyMinute, AnyHour, AnyDay, AnyWeekday)
       [] w.word = "everyminute" -> Cron({0}, AnyMinute, AnyHour, AnyDay, AnyWeekday)
       [] w.word = "seconds" -> Cron(Every(w.n, AnySecond), AnyMinute, AnyHour, AnyDay, AnyWeekday)
       [] w.word = "minutes" -> Cron({0}, Every(w.n, AnyMinute), AnyHour, AnyDay, AnyWeekday)
       [] w.word = "everyhour" -> Cron({0}, minute, AnyHour, AnyDay, AnyWeekday)
       [] w.word = "hours" -> Cron({0}, minute, Every(w.n, AnyHour), AnyDay, AnyWeekday)

InRange(w) ==
  /\ w.word \in {"seconds", "minutes"} => w.n \in 1..59
  /\ w.word = "hours" => w.n \in 1..23
  /\ w.word = "days" => w.n \in 1..30
  /\ w.word = "dom" => w.n \in 1..31

parseSchedule(w) ==
  IF ~InRange(w) THEN Failure
  ELSE IF w.word \in {"today", "tomorrow", "ondate"} THEN OneShot(w)
  ELSE IF w.word \in {"everyday", "everyweek", "weekday", "everymonth", "days", "dom"} THEN Dated(w)
  ELSE Hourly(w)

\* cron-parser: the moments that match every field.
Fires(c, day, hour, minute) ==
  IF c.kind = "once" THEN c.day = day /\ c.hour = hour /\ c.minute = minute
  ELSE /\ 0 \in c.second /\ minute \in c.minute /\ hour \in c.hour
       /\ DayOfMonth(day) \in c.dom /\ Weekday(day) \in c.dow

------------------------------------------------------------------------------
Numbers(word) == CASE word = "weekday" -> 0..6
                   [] word \in {"dom", "ondate"} -> 0..32
                   [] word \in Counted -> StepsWritten
                   [] OTHER -> {0}
Written(word) == [word : {word}, n : Numbers(word), time : Times]

ExprInit == written = [word |-> "none"] /\ parsed = Failure
ExprNext == /\ written.word = "none"
            /\ \E word \in Words : written' \in Written(word)
            /\ parsed' = parseSchedule(written')
ExprSpec == ExprInit /\ [][ExprNext]_exprVars

(* What was read is in its domain.                                            *)
ExprTypeOK == parsed.kind \in {"error", "cron", "once"}

(* The days that the words mean, before hour 24 moves the time to the next.   *)
Meant(w, day) ==
  CASE w.word = "everyweek" -> Weekday(day) = 0
    [] w.word = "weekday" -> Weekday(day) = w.n
    [] w.word = "everymonth" -> DayOfMonth(day) = 1
    [] w.word = "dom" -> DayOfMonth(day) = w.n
    [] w.word = "ondate" -> MonthOf(day) = 1 /\ DayOfMonth(day) = w.n
    [] w.word = "today" -> day = Today
    [] w.word = "tomorrow" -> day = Today + 1
    [] w.word = "everyday" -> TRUE

(* A schedule with a time of day that is accepted fires on the days it means  *)
(* and no others, where 24:30 on a day is 00:30 of the day after               *)
(* (cron-expr.ts:24-61), in every month that has the day after; a one-shot     *)
(* lies in the future.                                                         *)
FiresAsWritten ==
  /\ parsed.kind = "once" => Future(parsed.day, written.time)
  /\ parsed.kind # "error" /\ written.word \notin Counted \cup {"everyhour", "everyminute", "everysecond"}
     => \A day \in Days \ {0}, h \in Hours, m \in Minutes :
          LET of == day - ShiftOf(written.time) IN
            MonthOf(of) = MonthOf(day) \/ written.word # "dom" =>
              (Fires(parsed, day, h, m) <=>
                 Meant(written, of) /\ h = HourOf(written.time) /\ m = MinuteOf(written.time))
=============================================================================
