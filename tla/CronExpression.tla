--------------------------- MODULE CronExpression ---------------------------
(***************************************************************************)
(* The expressions of schedules (modules/run): which are accepted, and     *)
(* which minutes they are due in.                                          *)
(*                                                                         *)
(* An expression is five fields, a field a list of parts [form, from, to], *)
(* written "*", every-n, a range or a number; from and to are what parseInt *)
(* makes of them, None for what is no number.  A minute is the five values *)
(* that the fields are compared with.                                      *)
(***************************************************************************)
EXTENDS Integers, SequencesExt

CONSTANTS
  Expressions,      \* what is written into a schedule
  Minutes,          \* the minutes at which the dispatcher looks
  None

VARIABLE cron       \* the expression of the schedule, None without one

\* Minute, hour, day of the month, month, day of the week.
Ranges == <<[min |-> 0, max |-> 59], [min |-> 0, max |-> 23], [min |-> 1, max |-> 31],
            [min |-> 1, max |-> 12], [min |-> 0, max |-> 6]>>

IsNumber(part) == part.from # None /\ part.to # None

PartMatches(part, value) ==
  \/ part.form = "any"
  \/ part.form = "every" /\ part.from # None /\ part.from > 0 /\ value % part.from = 0
  \/ part.form = "range" /\ IsNumber(part) /\ value >= part.from /\ value <= part.to
  \/ part.form = "number" /\ part.from # None /\ value = part.from

CronFieldMatches(field, value) == \E part \in ToSet(field) : PartMatches(part, value)

CronMatches(expression, minute) ==
  Len(expression) = 5 /\ \A i \in 1..5 : CronFieldMatches(expression[i], minute[i])

\* Mutant of IsValidPart: a range may end before it starts.
IsValidPartAnyOrder(part, range) ==
  \/ part.form = "any"
  \/ part.form = "every" /\ part.from # None /\ part.from > 0
  \/ part.form = "range" /\ IsNumber(part) /\ part.from >= range.min /\ part.to <= range.max
  \/ part.form = "number" /\ part.from # None /\ part.from \in range.min..range.max

IsValidPart(part, range) ==
  \/ part.form = "any"
  \/ part.form = "every" /\ part.from # None /\ part.from > 0
  \/ /\ part.form = "range" /\ IsNumber(part)
     /\ part.from >= range.min /\ part.to <= range.max /\ part.from <= part.to
  \/ part.form = "number" /\ part.from # None /\ part.from \in range.min..range.max

IsValidCronExpression(expression) ==
  /\ Len(expression) = 5
  /\ \A i \in 1..5 : \A part \in ToSet(expression[i]) : IsValidPart(part, Ranges[i])

CreateSchedule ==
  /\ cron = None
  /\ cron' \in {e \in Expressions : IsValidCronExpression(e)}

UpdateSchedule ==
  /\ cron # None
  /\ cron' \in {e \in Expressions : IsValidCronExpression(e)}

DeleteSchedule == cron # None /\ cron' = None

Init == cron = None

Next == CreateSchedule \/ UpdateSchedule \/ DeleteSchedule

Spec == Init /\ [][Next]_cron

\* The values that a part of a field asks for by its numbers.
Asked(part, range) ==
  CASE part.form = "number" -> {part.from}
    [] part.form = "range" -> part.from .. part.to
    [] part.form = "any" -> range.min .. range.max
    [] OTHER -> {n * part.from : n \in 0 .. range.max}

(* What the validation accepts the matching honours: every part but a step  *)
(* names values of its field and is due at each of them, and the schedule   *)
(* is due in exactly the minutes whose five values are all asked for.       *)
AcceptedIsDue ==
  cron # None =>
    /\ \A i \in 1..5 : \A part \in ToSet(cron[i]) :
         part.form # "every" =>
           /\ Asked(part, Ranges[i]) # {}
           /\ \A v \in Asked(part, Ranges[i]) :
                v \in Ranges[i].min .. Ranges[i].max /\ CronFieldMatches(cron[i], v)
    /\ \A minute \in Minutes :
         CronMatches(cron, minute) <=>
           \A i \in 1..5 : \E part \in ToSet(cron[i]) :
             minute[i] \in Asked(part, Ranges[i])
=============================================================================
