---------------------------- MODULE TradingClock ----------------------------
(***************************************************************************)
(* OnTimer() and IsTraderTime() of the dialog, to the second, over several   *)
(* days.  The timer asks for a message every second, but WM_TIMER is only    *)
(* delivered when the window's queue is otherwise empty, so messages come    *)
(* Gaps seconds apart.  Outside trading hours OnTimer changes nothing and    *)
(* the clock may jump to the next session.                                   *)
(***************************************************************************)
EXTENDS Integers

CONSTANTS
  Starts,   \* seconds of the day at which the dialog may be opened
  Gaps,     \* seconds between two timer messages
  MaxDay    \* bound: the last day (1 is a Monday)

At(h, m, s) == 3600 * h + 60 * m + s

ASSUME ClockAssumption ==
  /\ Starts \subseteq 0 .. At(23, 59, 59) /\ Gaps \subseteq 1 .. 28 /\ MaxDay \in Nat \ (0 .. 6)

VARIABLES
  day, sec,  \* local time
  preMin,    \* wMinute of the last trigger, at first of the start
  last,      \* history: day and minute of the day of the last trigger, at first of the start
  begun,     \* history: there has been a trigger
  traded     \* history: the last timer message came in trading hours

clock == <<day, sec, preMin, last, begun, traded>>

wMinute(s) == (s \div 60) % 60
Minute(d, s) == [day |-> d, min |-> s \div 60]
Weekday == day % 7 \in 1 .. 5

\* Mutant: the afternoon begins half an hour later
IsTraderTime_late(s) ==
  /\ Weekday
  /\ \/ At(9, 25, 1) < s /\ s < At(11, 30, 30)
     \/ At(13, 30, 1) < s /\ s < At(15, 0, 1)

\* Mutant: the morning ends on the minute
IsTraderTime_sharp(s) ==
  /\ Weekday
  /\ \/ At(9, 25, 1) < s /\ s < At(11, 30, 0)
     \/ At(13, 0, 1) < s /\ s < At(15, 0, 1)

\* Two sessions a day, their ends excluded
IsTraderTime(s) ==
  /\ Weekday
  /\ \/ At(9, 25, 1) < s /\ s < At(11, 30, 30)
     \/ At(13, 0, 1) < s /\ s < At(15, 0, 1)

\* The end of OnInitDialog
ClockInit ==
  /\ day \in 1 .. 7 /\ sec \in Starts
  /\ preMin = wMinute(sec) /\ last = Minute(day, sec) /\ begun = FALSE /\ traded = FALSE

\* The clock is read twice: at asked by IsTraderTime(), at now for the minute.  In a
\* new minute the flag of every thread is raised.
OnTimer(asked, now) ==
  /\ sec' = now /\ traded' = IsTraderTime(asked)
  /\ IF IsTraderTime(asked) /\ preMin # wMinute(now)
     THEN preMin' = wMinute(now) /\ last' = Minute(day, now) /\ begun' = TRUE
     ELSE UNCHANGED <<preMin, last, begun>>

Message ==
  /\ sec < At(15, 0, 30)
  /\ \E g \in Gaps, slip \in {0, 1} : OnTimer(sec + g, sec + g + slip)
  /\ UNCHANGED day

\* Time passes outside trading hours, to just before the next session
Jump ==
  /\ UNCHANGED <<preMin, last, begun>> /\ traded' = FALSE
  /\ \/ sec < At(9, 24, 50) /\ sec' = At(9, 24, 50) /\ UNCHANGED day
     \/ /\ At(11, 30, 30) < sec /\ sec < At(12, 59, 50)
        /\ sec' = At(12, 59, 50) /\ UNCHANGED day
     \/ /\ sec > At(15, 0, 1) \/ ~Weekday
        /\ day < MaxDay /\ day' = day + 1 /\ sec' = At(9, 24, 50)

ClockNext == Message \/ Jump

ClockSpec == ClockInit /\ [][ClockNext]_clock

-----------------------------------------------------------------------------
\* preMin is a minute of an hour
ClockTypeOK ==
  /\ day \in 1 .. MaxDay /\ sec \in 0 .. At(23, 59, 59)
  /\ preMin \in 0 .. 59 /\ last \in [day : 1 .. MaxDay, min : 0 .. 1439]
  /\ begun \in BOOLEAN /\ traded \in BOOLEAN

\* Every minute of trading in which a timer message comes is triggered, across the
\* break, nights and weekends, although only the minute of the hour is compared; the
\* one exception is the first minute after a start at the same minute of an hour.
EveryMinute ==
  /\ ClockTypeOK
  /\ traded => \/ last = Minute(day, sec)
               \/ ~begun /\ last.min % 60 = wMinute(sec)

\* Once there has been a trigger no session passes without one: after the morning the
\* last one came today in the minute after its last bar, after the afternoon today in
\* that minute or the one before, because 15:00 has one second in which a message is
\* taken.
SessionsClosed ==
  Weekday /\ begun =>
    /\ At(11, 30, 30) < sec /\ sec < At(13, 0, 0) => last = [day |-> day, min |-> 11 * 60 + 30]
    /\ At(15, 0, 1) < sec => last.day = day /\ last.min \in {14 * 60 + 59, 15 * 60}

=============================================================================
