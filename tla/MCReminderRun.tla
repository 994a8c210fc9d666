---------------------------- MODULE MCReminderRun ----------------------------
(***************************************************************************)
(* Instances of ReminderRun for TLC.  Day 0 is Monday, 1 January 1990.     *)
(***************************************************************************)
EXTENDS ReminderMeaning

Daily == [d |-> NO_DAY, m |-> NO_MON, y |-> NO_YR, wd |-> {}, back |-> 0, rep |-> 0, skip |-> "",
        until |-> NO_UNTIL, localomit |-> {}, delta |-> 0,
        is_todo |-> FALSE, max_overdue |-> -1, from |-> NO_DATE, scanfrom |-> NO_SCANFROM,
        once |-> FALSE, noqueue |-> FALSE, addomit |-> FALSE, ttime |-> NO_TIME, tdelta |-> 0,
        duration_days |-> 0, offset |-> 0, warn |-> <<>>, sched |-> NO_SCHED, sat |-> {},
        expr |-> FALSE, nonconst |-> FALSE, typ |-> "MSG", priority |-> 5000, body |-> "text"]

Jan(d)  == [Daily EXCEPT !.d = d, !.m = 0, !.y = 1990]
Wd(S)   == [Daily EXCEPT !.wd = S]
Todo(t) == [t EXCEPT !.is_todo = TRUE]
At(t, hour) == [t EXCEPT !.ttime = 60 * hour]

Weekend == {5, 6}

\* Events, each alone in its file.
Events ==
    [ day      |-> [Jan(12) EXCEPT !.delta = 2],
      daily    |-> [Daily EXCEPT !.until = 12, !.typ = "MSF"],
      weekly   |-> [Wd({0, 4}) EXCEPT !.delta = -2, !.localomit = Weekend],
      repeat   |-> [Jan(5) EXCEPT !.rep = 3, !.skip = "AFTER", !.localomit = Weekend],
      skipped  |-> [Jan(2) EXCEPT !.rep = 4, !.skip = "SKIP", !.localomit = Weekend],
      back     |-> [Jan(16) EXCEPT !.back = 2, !.localomit = Weekend],
      stay     |-> [At(Jan(11), 20) EXCEPT !.duration_days = 2],
      stays    |-> [At(Wd({3}), 20) EXCEPT !.duration_days = 1, !.delta = 1],
      daystay  |-> [At(Wd({2}), 0) EXCEPT !.duration_days = 1, !.tdelta = 60],
      east     |-> [At(Wd({5}), 5) EXCEPT !.offset = 600, !.delta = 1],
      east1    |-> [At(Jan(12), 5) EXCEPT !.offset = 600],
      west     |-> [At(Wd({2}), 20) EXCEPT !.offset = -600],
      west1    |-> [At(Jan(11), 20) EXCEPT !.offset = -600, !.delta = 1],
      from     |-> [Wd({1, 4}) EXCEPT !.from = 12, !.delta = 3],
      ahead    |-> [Wd({1, 4}) EXCEPT !.scanfrom = 14, !.delta = 3],
      behind   |-> [Wd({3}) EXCEPT !.scanfrom = -7, !.skip = "AFTER", !.localomit = {3}],
      warned   |-> [Jan(15) EXCEPT !.warn = <<3, 1, 0>>],
      omitwarn |-> [Jan(16) EXCEPT !.warn = <<-3, -1, -2>>, !.localomit = Weekend],
      sat      |-> [Daily EXCEPT !.sat = {4, 5}, !.skip = "AFTER", !.localomit = {5}],
      satstay  |-> [At(Wd({3, 6}), 9) EXCEPT !.sat = {6}, !.duration_days = 1],
      satnone  |-> [Wd({0}) EXCEPT !.sat = {5}],
      satnever |-> [Jan(12) EXCEPT !.sat = {0}],
      notype   |-> [Jan(12) EXCEPT !.typ = ""],
      notime   |-> [Wd({4}) EXCEPT !.offset = 60],
      toolong  |-> [Jan(12) EXCEPT !.max_overdue = 1],
      badday   |-> [Daily EXCEPT !.rep = 7],
      constant |-> [Jan(12) EXCEPT !.expr = TRUE],
      moving   |-> [Jan(12) EXCEPT !.expr = TRUE, !.nonconst = TRUE] ]

Tasks ==
    [ task     |-> Todo(Jan(12)),
      early    |-> Todo(Jan(10)),
      chore    |-> [Todo(Wd({0, 4})) EXCEPT !.from = 8],
      chores   |-> [Todo(Jan(9)) EXCEPT !.rep = 3, !.until = 14],
      given_up |-> [Todo(Jan(11)) EXCEPT !.max_overdue = 1],
      until    |-> [Todo(Wd({4, 5})) EXCEPT !.from = 10, !.until = 12, !.delta = 1] ]

Others ==
    [ once     |-> [At(Daily, 13) EXCEPT !.once = TRUE],
      once2    |-> [Wd({3, 4}) EXCEPT !.once = TRUE, !.body = "2"],
      early_am |-> [At(Daily, 8) EXCEPT !.priority = 1, !.body = "am"],
      untimed  |-> [Daily EXCEPT !.priority = 9999],
      again    |-> [At(Daily, 13) EXCEPT !.noqueue = TRUE, !.body = "again"],
      tomorrow |-> [Jan(13) EXCEPT !.delta = 2, !.body = "tomorrow"],
      program  |-> [At(Daily, 13) EXCEPT !.typ = "RUN", !.body = "run", !.sched = 800],
      picture  |-> [Daily EXCEPT !.typ = "PS"],
      holiday  |-> [Jan(12) EXCEPT !.addomit = TRUE],
      second   |-> [Jan(14) EXCEPT !.addomit = TRUE, !.delta = 1],
      workday  |-> [Daily EXCEPT !.skip = "SKIP", !.localomit = Weekend, !.body = "work", !.delta = 1] ]

\* Left out of MCFiles; see the README.
Overseas == [abroad |-> [Todo(At(Jan(11), 20)) EXCEPT !.offset = -600]]

MCRem == Overseas @@ Events @@ Tasks @@ Others

Alone(name)    == [lines |-> <<Line(name)>>, once_file |-> FALSE]
Script(names)  == [lines |-> [k \in DOMAIN names |-> Line(names[k])], once_file |-> FALSE]
With(f)        == [f EXCEPT !.once_file = TRUE]

MCFiles ==
    {Alone(name) : name \in DOMAIN Events \cup DOMAIN Tasks}
    \cup { Script(<<"once", "set", "once2">>), With(Script(<<"once", "once2", "early_am">>)),
           Script(<<"untimed", "again", "tomorrow", "once">>),
           Script(<<"tomorrow", "program", "early_am", "untimed">>),
           Script(<<"holiday", "workday", "picture", "day">>),
           Script(<<"early", "moving", "notype">>), Script(<<"holiday", "second", "workday">>),
           With([lines |-> <<Note, [Line("day") EXCEPT !.mark = "expired"], Line("once2"), Line("badday")>>,
                 once_file |-> FALSE]) }

\* A task of 20:00 in a zone ten hours behind ours, and nothing else.
TaskAbroad == {Alone("abroad")}

Usual == [PurgeMode |-> FALSE, NextMode |-> FALSE, IgnoreOnce |-> FALSE, DontIssueAts |-> 0, now |-> 720,
          InfiniteDelta |-> FALSE, DeltaOverride |-> 0, TodoFilter |-> "", DontQueue |-> FALSE,
          RunDisabled |-> FALSE, DedupeReminders |-> FALSE, sort |-> <<>>]

By(date, time, prio, untimed_first) ==
    [date |-> date, time |-> time, prio |-> prio, untimed_first |-> untimed_first]

MCOptions ==
    { Usual,
      [Usual EXCEPT !.PurgeMode = TRUE],
      [Usual EXCEPT !.sort = <<By("ascend", "ascend", "descend", FALSE)>>, !.DeltaOverride = 3],
      [Usual EXCEPT !.sort = <<By("descend", "descend", "ascend", TRUE)>>, !.DedupeReminders = TRUE,
                    !.DontIssueAts = 2, !.RunDisabled = TRUE],
      [Usual EXCEPT !.NextMode = TRUE, !.DontQueue = TRUE],
      [Usual EXCEPT !.DeltaOverride = -1, !.TodoFilter = "todos", !.IgnoreOnce = TRUE] }
=============================================================================
