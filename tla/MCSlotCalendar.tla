--------------------------- MODULE MCSlotCalendar ---------------------------
EXTENDS SlotCalendar, TLC

Every(hours, minutes) == [hours |-> hours, minutes |-> minutes]
Config(automatic, hours, minutes, quota) ==
  [automatic |-> automatic, jobs |-> ("default" :> Every(hours, minutes)), quota |-> quota]

HalfHours == Every(0 .. 2, {0, 1})

MCCandidates ==
  { Config(TRUE,  1 .. 2, {0},    HalfHours),        \* hourly, quota between
    Config(FALSE, 1 .. 2, {0},    HalfHours),        \* quota only
    Config(TRUE,  1 .. 2, {0, 1}, HalfHours),        \* quota covered all day
    Config(TRUE,  0 .. 2, {0},    HalfHours),        \* rejected: at night
    Config(TRUE,  1 .. 2, {0},    Every({2}, {2})) } \* rejected: 23:59
=============================================================================
