------------------------- MODULE ReminderRun_proofs -------------------------
(***************************************************************************)
(* Theorems about the life of a file of reminders, for every file, option, *)
(* bound and trigger.                                                      *)
(***************************************************************************)
EXTENDS ReminderMeaning, Triggers_proofs, FiniteSetTheorems, SequenceTheorems

-----------------------------------------------------------------------------
(* The inductive invariant. *)

\* The runs and the history are records with the fields of NoRun and of SeenNothing.
IsRun(r) ==
    r \in [mode : {r.mode}, opt : {r.opt}, line : {r.line}, OnceDate : {r.OnceDate}, omits : {r.omits},
           contexts : {r.contexts}, DidMsgReminder : {r.DidMsgReminder}, queued : {r.queued},
           came : {r.came}, sorted : {r.sorted}, out : {r.out}, purged : {r.purged}]

IsSeen(s) == s = [used |-> s.used, once |-> s.once, owed |-> s.owed] /\ s.once \in Nat

IsSequence(s) == s \in Seq(Range(s))

Shapes == /\ today \in Nat \ {0} /\ stamp \in Nat
          /\ IsRun(run) /\ IsSeen(seen)
          /\ run.OnceDate \in Nat \cup {-1}
          /\ IsSequence(run.out) /\ IsSequence(run.sorted)

\* The reminders a run has queued, issued, or put into the sort buffer.
Shown(r) == r.queued \cup {rem.name : rem \in Range(r.out) \cup Range(r.sorted)}

\* A run shows ONCE reminders if the last run that did was not of today.
OnceIfNotToday ==
    ~IgnoreOnce(run.opt) /\ (\E name \in Shown(run) : Rem[name].once) =>
        run.OnceDate >= 0 /\ run.OnceDate # today

\* Once a run knows the timestamp, the timestamp is today's, for others to see.
StampedWhenKnown ==
    run.mode = "reading" => /\ run.OnceDate >= 0 => stamp = today
                            /\ ~OnceFile => run.OnceDate >= 0

\* When a run has shown ONCE reminders today the timestamp says so ...
StampedWhenSeen == seen.once >= 1 => stamp = today

\* ... and a run that may still show some is the one, or none has.
FirstOrNone ==
    run.mode = "reading" /\ run.OnceDate >= 0 /\ run.OnceDate # today /\ ~HasOnce(run) => seen.once = 0

OnceInv == Shapes /\ OnceIfNotToday /\ StampedWhenKnown /\ StampedWhenSeen /\ FirstOrNone /\ OnceADay

-----------------------------------------------------------------------------
(* Sequences. *)

(* Appending adds one element (TriggerReminder).                           *)
LEMMA AppendAdds ==
    ASSUME NEW s, IsSequence(s), NEW e
    PROVE  IsSequence(Append(s, e)) /\ Range(Append(s, e)) = Range(s) \cup {e}
<1> DEFINE S == Range(s) \cup {e}
<1>1. s \in Seq(S) /\ Range(s) \subseteq S
  BY DEF IsSequence
<1>2. Append(s, e) \in Seq(S)
  BY <1>1
<1>3. Range(Append(s, e)) = Range(s) \cup {e}
  <2>1. DOMAIN Append(s, e) = 1 .. Len(s) + 1 /\ DOMAIN s = 1 .. Len(s) /\ Len(s) \in Nat
    BY <1>1
  <2>2. /\ \A i \in 1 .. Len(s) : Append(s, e)[i] = s[i]
        /\ Append(s, e)[Len(s) + 1] = e
    BY <1>1
  <2> QED
    BY <2>1, <2>2 DEF Range
<1> QED
  BY <1>2, <1>3 DEF IsSequence

(* Inserting adds one element, wherever it is (InsertIntoSortBuffer).      *)
LEMMA InsertAdds ==
    ASSUME NEW queue, IsSequence(queue), NEW rem, NEW by
    PROVE  /\ IsSequence(InsertIntoSortBuffer(queue, rem, by))
           /\ Range(InsertIntoSortBuffer(queue, rem, by)) \subseteq Range(queue) \cup {rem}
<1> DEFINE S      == Range(queue) \cup {rem}
           places == {Len(queue) + 1} \cup {i \in DOMAIN queue : CompareRems(rem, queue[i], by) > 0}
           k      == Min(places)
           whole  == SubSeq(queue, 1, k - 1) \o <<rem>> \o SubSeq(queue, k, Len(queue))
<1>1. queue \in Seq(S) /\ Len(queue) \in Nat /\ DOMAIN queue = 1 .. Len(queue)
  BY DEF IsSequence
<1>2. k \in 1 .. Len(queue) + 1
  <2>1. places \in SUBSET (1 .. Len(queue) + 1) /\ places # {}
    BY <1>1
  <2> HIDE DEF places
  <2>2. places \in SUBSET Nat
    BY <2>1, <1>1
  <2> QED
    BY <2>1, <2>2, MinIsMember
<1> HIDE DEF k
<1>3. whole \in Seq(S)
  <2>1. SubSeq(queue, 1, k - 1) \in Seq(S) /\ SubSeq(queue, k, Len(queue)) \in Seq(S)
    BY <1>1, <1>2
  <2> QED
    BY <2>1
<1>4. InsertIntoSortBuffer(queue, rem, by) = whole
  BY DEF InsertIntoSortBuffer, k
<1> HIDE DEF whole
<1>5. whole \in Seq(Range(whole)) /\ Range(whole) \subseteq S
  BY <1>3 DEF Range
<1> QED
  BY <1>4, <1>5 DEF IsSequence

-----------------------------------------------------------------------------
(* Runs. *)

Visible(r) == r.queued \cup {rem.name : rem \in Range(r.out)}

(* HasOnce by names. *)
LEMMA HasOnceMeans ==
    ASSUME NEW r
    PROVE  HasOnce(r) <=> ~r.opt.PurgeMode /\ ~IgnoreOnce(r.opt) /\ \E name \in Visible(r) : Rem[name].once
<1>1. {r.out[k].name : k \in DOMAIN r.out} = {rem.name : rem \in Range(r.out)}
  BY DEF Range
<1> QED
  BY <1>1 DEF HasOnce, Visible

(* Before its first line a run has shown nothing (NoRun, Start).           *)
LEMMA NothingShown ==
    ASSUME NEW r, r.queued = {}, r.out = <<>>, r.sorted = <<>>
    PROVE  IsSequence(r.out) /\ IsSequence(r.sorted) /\ Shown(r) = {} /\ ~HasOnce(r)
<1>1. Range(r.out) = {} /\ Range(r.sorted) = {}
  BY DEF Range
<1>2. r.out \in Seq({}) /\ r.sorted \in Seq({})
  OBVIOUS
<1>3. Shown(r) = {} /\ Visible(r) = {}
  BY <1>1 DEF Shown, Visible
<1> QED
  BY <1>1, <1>2, <1>3, HasOnceMeans DEF IsSequence

(* No run goes on: nothing is queued, issued or sorted.                     *)
LEMMA NoRunShape ==
    /\ IsRun(NoRun) /\ NoRun.mode = "none" /\ NoRun.OnceDate = -1
    /\ NoRun.queued = {} /\ NoRun.out = <<>> /\ NoRun.sorted = <<>>
BY DEF NoRun, IsRun

(* When no run goes on, only the history and the timestamp matter.         *)
LEMMA RunReset ==
    ASSUME run' = NoRun, IsSeen(seen'), seen'.once <= 1,
           today' \in Nat \ {0}, stamp' \in Nat, seen'.once >= 1 => stamp' = today'
    PROVE  OnceInv'
<1>1. /\ IsRun(run') /\ run'.mode = "none" /\ run'.OnceDate = -1
      /\ run'.queued = {} /\ run'.out = <<>> /\ run'.sorted = <<>>
  BY NoRunShape
<1>2. IsSequence(run'.out) /\ IsSequence(run'.sorted) /\ Shown(run') = {}
  BY <1>1, NothingShown
<1>3. Shapes'
  BY <1>1, <1>2 DEF Shapes
<1> QED
  BY <1>1, <1>2, <1>3 DEF OnceInv, OnceIfNotToday, StampedWhenKnown, StampedWhenSeen, FirstOrNone, OnceADay

-----------------------------------------------------------------------------
(* A line of the file. *)

(* What a line may do to a run, as far as ONCE goes: nothing, or it shows  *)
(* the reminder t of the line and has asked for the timestamp.             *)
LineKeeps == /\ IsRun(run') /\ run.mode = "reading" /\ run'.mode = "reading" /\ run'.opt = run.opt
             /\ IsSequence(run'.out) /\ IsSequence(run'.sorted) /\ Visible(run) \subseteq Visible(run')
             /\ UNCHANGED <<OnceFile, today>>

ShowsNothing == UNCHANGED stamp /\ run'.OnceDate = run.OnceDate /\ Shown(run') = Shown(run)

Shows(name) == /\ run'.OnceDate = GetOnceDate(Rem[name])
               /\ stamp' = IF AsksOnceFile(Rem[name]) THEN today ELSE stamp
               /\ \/ Shown(run') \subseteq Shown(run)
                  \/ /\ Shown(run') \subseteq Shown(run) \cup {name}
                     /\ ~AlreadyIssued(Rem[name], run'.OnceDate, today, run.opt)

(* A line that only adds to the purged file, and perhaps to the OMIT       *)
(* context (Purging, PurgeLine).                                           *)
LEMMA SilentLine ==
    ASSUME IsRun(run), run.mode = "reading", IsSequence(run.out), IsSequence(run.sorted),
           UNCHANGED <<OnceFile, today, stamp>>, NEW omits, NEW purged,
           \/ run' = NextLine([run EXCEPT !.purged = purged])
           \/ run' = NextLine([run EXCEPT !.omits = omits, !.purged = purged])
    PROVE  LineKeeps /\ ShowsNothing
<1>1. PICK o : run' = [mode |-> run.mode, opt |-> run.opt, line |-> run.line + 1, OnceDate |-> run.OnceDate,
              omits |-> o, contexts |-> Append(run.contexts, run.omits),
              DidMsgReminder |-> run.DidMsgReminder, queued |-> run.queued,
              came |-> run.came, sorted |-> run.sorted, out |-> run.out, purged |-> purged]
  <2>1. CASE run' = NextLine([run EXCEPT !.purged = purged])
    <3> WITNESS run.omits
    <3> QED
      BY <2>1 DEF IsRun, NextLine
  <2>2. CASE run' = NextLine([run EXCEPT !.omits = omits, !.purged = purged])
    <3> WITNESS omits
    <3> QED
      BY <2>2 DEF IsRun, NextLine
  <2> QED
    BY <2>1, <2>2
<1>2. /\ IsRun(run') /\ run'.mode = run.mode /\ run'.opt = run.opt /\ run'.OnceDate = run.OnceDate
      /\ run'.out = run.out /\ run'.sorted = run.sorted /\ run'.queued = run.queued
  BY <1>1 DEF IsRun
<1> QED
  BY <1>2 DEF LineKeeps, ShowsNothing, Visible, Shown

(* A reminder is issued, waits to be sorted, or does not come at all.      *)
LEMMA Triggered ==
    ASSUME NEW r, IsRun(r), IsSequence(r.out), IsSequence(r.sorted), NEW l, NEW t, NEW d
    PROVE  LET s == TriggerReminder(r, l, t, d)
           IN  /\ IsRun(s) /\ s.mode = r.mode /\ s.opt = r.opt /\ s.OnceDate = r.OnceDate /\ s.queued = r.queued
               /\ IsSequence(s.out) /\ IsSequence(s.sorted)
               /\ Visible(r) \subseteq Visible(s) /\ Shown(s) \subseteq Shown(r) \cup {l.name}
<1> DEFINE rem    == Issued(l, t, d)
           banner == r.DidMsgReminder \/ (IsMessage(t) /\ ~r.opt.NextMode)
           came   == Append(r.came, rem)
           out    == Append(r.out, rem)
           sorted == InsertIntoSortBuffer(r.sorted, rem, r.opt.sort[1])
           s      == TriggerReminder(r, l, t, d)
<1>1. \/ s = r
      \/ s = [r EXCEPT !.DidMsgReminder = banner]
      \/ s = [r EXCEPT !.DidMsgReminder = banner, !.came = came, !.sorted = sorted]
      \/ s = [r EXCEPT !.DidMsgReminder = banner, !.came = came, !.out = out]
  BY DEF TriggerReminder
<1>2. rem.name = l.name
  BY DEF Issued
<1>3. IsSequence(out) /\ Range(out) = Range(r.out) \cup {rem}
  BY AppendAdds
<1>4. IsSequence(sorted) /\ Range(sorted) \subseteq Range(r.sorted) \cup {rem}
  BY InsertAdds
<1> HIDE DEF rem, banner, came, out, sorted, s
<1>5. /\ IsRun(s) /\ s.mode = r.mode /\ s.opt = r.opt /\ s.OnceDate = r.OnceDate /\ s.queued = r.queued
      /\ s.out \in {r.out, out} /\ s.sorted \in {r.sorted, sorted}
  BY <1>1 DEF IsRun
<1>6. IsSequence(s.out) /\ IsSequence(s.sorted)
  BY <1>3, <1>4, <1>5
<1>7. /\ Range(r.out) \subseteq Range(s.out) /\ Range(s.out) \subseteq Range(r.out) \cup {rem}
      /\ Range(s.sorted) \subseteq Range(r.sorted) \cup {rem}
  BY <1>3, <1>4, <1>5
<1>8. Visible(r) \subseteq Visible(s) /\ Shown(s) \subseteq Shown(r) \cup {l.name}
  BY <1>2, <1>5, <1>7 DEF Visible, Shown
<1> QED
  BY <1>5, <1>6, <1>8 DEF s

(* A reminder is queued or issued only after the test of the timestamp.    *)
LEMMA AskedBefore ==
    ASSUME NEW t, NEW d, NEW once, NEW o, NEW c
    PROVE  /\ ShouldQueueReminder(t, d, once, today, run.opt) => ~AlreadyIssued(t, once, today, run.opt)
           /\ ShouldIssue(o, t, c, d, once, today, run.opt) => ~AlreadyIssued(t, once, today, run.opt)
BY Zenon DEF ShouldQueueReminder, ShouldIssue

MadeReady(r, omits, once, queued) == [r EXCEPT !.omits = omits, !.OnceDate = once, !.queued = queued]

(* A reminder that is ready to be issued (RemLine).                        *)
LEMMA Ready ==
    ASSUME NEW r, IsRun(r), NEW omits, NEW once, NEW queued
    PROVE  LET s == MadeReady(r, omits, once, queued)
           IN  /\ IsRun(s) /\ s.mode = r.mode /\ s.opt = r.opt /\ s.OnceDate = once
               /\ s.out = r.out /\ s.sorted = r.sorted /\ s.queued = queued
<1> DEFINE s0 == [r EXCEPT !.omits = omits]
           s1 == [s0 EXCEPT !.OnceDate = once]
           s  == [s1 EXCEPT !.queued = queued]
<1>1. /\ IsRun(s0) /\ s0.mode = r.mode /\ s0.opt = r.opt
      /\ s0.out = r.out /\ s0.sorted = r.sorted
  BY DEF IsRun
<1> HIDE DEF s0
<1>2. /\ IsRun(s1) /\ s1.mode = s0.mode /\ s1.opt = s0.opt /\ s1.OnceDate = once
      /\ s1.out = s0.out /\ s1.sorted = s0.sorted
  BY <1>1 DEF IsRun
<1> HIDE DEF s1
<1>3. /\ IsRun(s) /\ s.mode = s1.mode /\ s.opt = s1.opt /\ s.OnceDate = s1.OnceDate
      /\ s.out = s1.out /\ s.sorted = s1.sorted /\ s.queued = queued
  BY <1>2 DEF IsRun
<1> HIDE DEF s
<1>4. /\ IsRun(s) /\ s.mode = r.mode /\ s.opt = r.opt /\ s.OnceDate = once
      /\ s.out = r.out /\ s.sorted = r.sorted /\ s.queued = queued
  BY <1>1, <1>2, <1>3
<1> QED
  BY <1>4 DEF s, s1, s0, MadeReady

(* A reminder that is neither refused nor purged (RemLine).                *)
LEMMA ReminderShown ==
    ASSUME NEW name, NEW l, l.name = name, NEW d, IsRun(run), IsSequence(run.out), IsSequence(run.sorted),
           RemLine(l, Rem[name], d)
    PROVE  /\ IsRun(run') /\ run'.mode = run.mode /\ run'.opt = run.opt
           /\ IsSequence(run'.out) /\ IsSequence(run'.sorted) /\ Visible(run) \subseteq Visible(run')
           /\ Shows(name)
<1> DEFINE t      == Rem[name]
           once   == GetOnceDate(t)
           omits  == WithOmit(t, d)
           goes   == ShouldQueueReminder(t, d, once, today, run.opt)
           queued == IF goes THEN run.queued \cup {name} ELSE run.queued
           ready  == MadeReady(run, omits, once, queued)
           issue  == ShouldIssue(omits, t, complete[name], d, once, today, run.opt)
           shown  == IF issue /\ ~todo_filtered(t, run.opt) THEN TriggerReminder(ready, l, t, d) ELSE ready
<1>1. run' = NextLine(shown) /\ stamp' = IF AsksOnceFile(t) THEN today ELSE stamp
  BY Zenon DEF RemLine, MadeReady
<1>2. /\ IsRun(ready) /\ ready.mode = run.mode /\ ready.opt = run.opt /\ ready.OnceDate = once
      /\ ready.out = run.out /\ ready.sorted = run.sorted /\ ready.queued = queued
  BY Ready
<1>3. (goes \/ issue) => ~AlreadyIssued(t, once, today, run.opt)
  BY AskedBefore
<1> HIDE DEF t, once, omits, goes, ready, issue
<1>4. /\ IsRun(shown) /\ shown.mode = run.mode /\ shown.opt = run.opt /\ shown.OnceDate = once
      /\ IsSequence(shown.out) /\ IsSequence(shown.sorted)
      /\ Visible(ready) \subseteq Visible(shown)
      /\ Shown(shown) \subseteq IF issue THEN Shown(ready) \cup {name} ELSE Shown(ready)
  BY <1>2, Triggered
<1>5. /\ Visible(run) \subseteq Visible(ready)
      /\ Shown(ready) \subseteq IF goes THEN Shown(run) \cup {name} ELSE Shown(run)
  BY <1>2 DEF Visible, Shown
<1> HIDE DEF shown, queued
<1>6. /\ IsRun(run') /\ run'.mode = shown.mode /\ run'.opt = shown.opt /\ run'.OnceDate = shown.OnceDate
      /\ run'.out = shown.out /\ run'.sorted = shown.sorted /\ run'.queued = shown.queued
  BY <1>1, <1>4 DEF NextLine, IsRun
<1>7. Visible(run') = Visible(shown) /\ Shown(run') = Shown(shown)
  BY <1>6 DEF Visible, Shown
<1>8. \/ Shown(run') \subseteq Shown(run)
      \/ Shown(run') \subseteq Shown(run) \cup {name} /\ ~AlreadyIssued(t, once, today, run.opt)
  BY <1>3, <1>4, <1>5, <1>7
<1>9. Shows(name)
  BY <1>1, <1>4, <1>6, <1>8 DEF Shows, t, once
<1> QED
  BY <1>4, <1>5, <1>6, <1>7, <1>9

(* A line does one or the other (ReadLine).                                *)
LEMMA LineRead ==
    ASSUME Shapes, ReadLine
    PROVE  LineKeeps /\ (ShowsNothing \/ \E name \in DOMAIN Rem : Shows(name))
<1> DEFINE l == file[run.line]
<1>1. /\ IsRun(run) /\ run.mode = "reading" /\ IsSequence(run.out) /\ IsSequence(run.sorted)
      /\ UNCHANGED <<OnceFile, today>>
  BY DEF Shapes, ReadLine
<1>2. ASSUME NEW echo, Purging(echo) PROVE LineKeeps /\ ShowsNothing
  <2>1. run' = NextLine([run EXCEPT !.purged = run.purged \o echo]) /\ UNCHANGED stamp
    BY <1>2 DEF Purging
  <2> DEFINE purged == run.purged \o echo
  <2> HIDE DEF purged
  <2>2. run' = NextLine([run EXCEPT !.purged = purged])
    BY <2>1 DEF purged
  <2> QED
    BY <1>1, <2>1, <2>2, SilentLine
<1>3. ASSUME OtherLine(l) PROVE LineKeeps /\ ShowsNothing
  BY <1>2, <1>3 DEF OtherLine
<1>4. ASSUME RefusedLine(l, Rem[l.name]) PROVE LineKeeps /\ ShowsNothing
  BY <1>2, <1>4 DEF RefusedLine
<1>5. ASSUME NEW d, NoDate(l, Rem[l.name], d) \/ NoRoom(l, Rem[l.name], d) PROVE LineKeeps /\ ShowsNothing
  BY <1>2, <1>5 DEF NoDate, NoRoom
<1>6. ASSUME NEW d, PurgeLine(l, Rem[l.name], d) PROVE LineKeeps /\ ShowsNothing
  <2>1. PICK omits, purged : run' = NextLine([run EXCEPT !.omits = omits, !.purged = purged])
    BY <1>6 DEF PurgeLine
  <2>2. UNCHANGED stamp
    BY <1>6 DEF PurgeLine
  <2> QED
    BY <1>1, <2>1, <2>2, SilentLine
<1>7. ASSUME NEW d, RemLine(l, Rem[l.name], d) PROVE LineKeeps /\ Shows(l.name)
  <2> DEFINE name == l.name
  <2>1. RemLine(l, Rem[name], d)
    BY <1>7
  <2>2. l.name = name
    OBVIOUS
  <2> HIDE DEF l, name
  <2>3. /\ IsRun(run') /\ run'.mode = run.mode /\ run'.opt = run.opt
        /\ IsSequence(run'.out) /\ IsSequence(run'.sorted) /\ Visible(run) \subseteq Visible(run')
        /\ Shows(name)
    BY <1>1, <2>1, <2>2, ReminderShown
  <2> QED
    BY <1>1, <2>3 DEF LineKeeps, name
<1>8. \/ OtherLine(l) \/ RefusedLine(l, Rem[l.name])
      \/ \E d : NoDate(l, Rem[l.name], d) \/ NoRoom(l, Rem[l.name], d)
      \/ \E d : PurgeLine(l, Rem[l.name], d)
      \/ l.name \in DOMAIN Rem /\ \E d : RemLine(l, Rem[l.name], d)
  <2> HIDE DEF l
  <2>1. \/ OtherLine(l) 
        \/ IsReminder(l) /\ RefusedLine(l, Rem[l.name])
        \/ IsReminder(l) /\ \E d : \/ NoDate(l, Rem[l.name], d) \/ NoRoom(l, Rem[l.name], d)
                                   \/ PurgeLine(l, Rem[l.name], d) \/ RemLine(l, Rem[l.name], d)
    BY Zenon DEF ReadLine, l
  <2> QED
    BY Zenon, <2>1 DEF IsReminder
<1> HIDE DEF l
<1> QED
  BY Zenon, <1>3, <1>4, <1>5, <1>6, <1>7, <1>8

(* ... and preserves the invariant.                                        *)
LEMMA LinePreserves ==
    ASSUME OnceInv, ReadLine, IsSeen(seen'),
           seen'.once = IF HasOnce(run') /\ ~HasOnce(run) THEN Used(seen.once) ELSE seen.once
    PROVE  OnceInv'
<1>1. LineKeeps /\ (ShowsNothing \/ \E name \in DOMAIN Rem : Shows(name))
  BY LineRead DEF OnceInv
<1>2. /\ today \in Nat \ {0} /\ stamp \in Nat /\ run.OnceDate \in Nat \cup {-1}
      /\ seen.once \in Nat /\ seen.once <= 1 /\ run.mode = "reading"
      /\ run.OnceDate >= 0 => stamp = today
      /\ ~OnceFile => run.OnceDate >= 0
  BY <1>1 DEF OnceInv, Shapes, IsSeen, OnceADay, StampedWhenKnown, LineKeeps
<1>3. run'.OnceDate \in {run.OnceDate, stamp} /\ stamp' \in {stamp, today}
  BY <1>1 DEF ShowsNothing, Shows, GetOnceDate
<1>4. Shapes'
  BY <1>1, <1>2, <1>3 DEF Shapes, LineKeeps
<1>5. OnceIfNotToday'
  <2> SUFFICES ASSUME ~IgnoreOnce(run'.opt), NEW name \in Shown(run'), Rem[name].once
               PROVE  run'.OnceDate >= 0 /\ run'.OnceDate # today'
    BY DEF OnceIfNotToday
  <2>1. run'.opt = run.opt /\ today' = today
    BY <1>1 DEF LineKeeps
  <2>2. ASSUME name \in Shown(run) PROVE run.OnceDate >= 0 /\ run.OnceDate # today
    BY <2>1, <2>2 DEF OnceInv, OnceIfNotToday
  <2>3. CASE ShowsNothing
    BY <2>1, <2>2, <2>3 DEF ShowsNothing
  <2>4. ASSUME NEW n, Shows(n) PROVE run'.OnceDate >= 0 /\ run'.OnceDate # today
    <3>1. CASE name \in Shown(run)
      BY <1>2, <2>2, <2>4, <3>1 DEF Shows, GetOnceDate
    <3>2. CASE name \notin Shown(run)
      <4>1. name = n /\ ~AlreadyIssued(Rem[n], run'.OnceDate, today, run.opt)
        BY <2>4, <3>2 DEF Shows
      <4> QED
        BY <1>2, <2>1, <2>4, <4>1 DEF AlreadyIssued, Shows, GetOnceDate
    <3> QED
      BY <3>1, <3>2
  <2> QED
    BY <1>1, <2>1, <2>3, <2>4
<1>6. StampedWhenKnown'
  <2>1. ASSUME run'.OnceDate >= 0 PROVE stamp' = today
    <3>1. CASE run.OnceDate >= 0
      BY <1>1, <1>2, <3>1 DEF ShowsNothing, Shows
    <3>2. CASE run.OnceDate < 0
      <4>1. PICK n : Shows(n)
        BY <1>1, <1>2, <2>1, <3>2 DEF ShowsNothing
      <4>2. OnceFile /\ Rem[n].once /\ ~IgnoreOnce(run.opt)
        BY <1>2, <2>1, <3>2, <4>1 DEF Shows, GetOnceDate
      <4> QED
        BY <3>2, <4>1, <4>2 DEF Shows, AsksOnceFile
    <3> QED
      BY <1>2, <3>1, <3>2
  <2>2. ~OnceFile' => run'.OnceDate >= 0
    BY <1>1, <1>2, <1>3 DEF LineKeeps
  <2> QED
    BY <1>1, <2>1, <2>2 DEF StampedWhenKnown, LineKeeps
<1>7. HasOnce(run) => HasOnce(run')
  BY <1>1, HasOnceMeans DEF LineKeeps
<1>8. ASSUME ~HasOnce(run), run'.OnceDate >= 0, run'.OnceDate # today PROVE seen.once = 0
  <2>1. CASE run'.OnceDate = run.OnceDate
    BY <1>2, <1>8, <2>1 DEF OnceInv, FirstOrNone
  <2>2. CASE run'.OnceDate # run.OnceDate
    <3>1. run'.OnceDate = stamp
      BY <1>3, <2>2
    <3> QED
      BY <1>2, <1>8, <3>1 DEF OnceInv, StampedWhenSeen
  <2> QED
    BY <2>1, <2>2
<1>9. FirstOrNone'
  BY <1>1, <1>7, <1>8 DEF FirstOrNone, LineKeeps
<1>10. ASSUME HasOnce(run'), ~HasOnce(run) PROVE run'.OnceDate >= 0 /\ run'.OnceDate # today /\ seen'.once = 1
  <2>1. run'.OnceDate >= 0 /\ run'.OnceDate # today
    <3>1. PICK name \in Visible(run') : Rem[name].once /\ ~IgnoreOnce(run'.opt)
      BY <1>10, HasOnceMeans
    <3>2. name \in Shown(run')
      BY DEF Visible, Shown
    <3> QED
      BY <1>1, <1>5, <3>1, <3>2 DEF OnceIfNotToday, LineKeeps
  <2> QED
    BY <1>8, <1>10, <2>1 DEF Used
<1>11. StampedWhenSeen' /\ OnceADay'
  <2>1. CASE HasOnce(run') /\ ~HasOnce(run)
    <3>1. stamp' = today'
      BY <1>1, <1>6, <1>10, <2>1 DEF StampedWhenKnown, LineKeeps
    <3> QED
      BY <1>10, <2>1, <3>1 DEF StampedWhenSeen, OnceADay
  <2>2. CASE ~(HasOnce(run') /\ ~HasOnce(run))
    <3>1. seen'.once = seen.once /\ (seen.once >= 1 => stamp = today)
      BY <2>2 DEF OnceInv, StampedWhenSeen
    <3> QED
      BY <1>1, <1>2, <1>3, <3>1 DEF StampedWhenSeen, OnceADay, LineKeeps
  <2> QED
    BY <2>1, <2>2
<1> QED
  BY <1>4, <1>5, <1>6, <1>9, <1>11 DEF OnceInv

-----------------------------------------------------------------------------
(* The other steps. *)

(* A run begins (Start): it knows the timestamp at once, or asks later.    *)
LEMMA StartPreserves ==
    ASSUME OnceInv, NEW opt, Start(opt), seen' = [seen EXCEPT !.used = Used(@)]
    PROVE  OnceInv'
<1>1. /\ today \in Nat \ {0} /\ stamp \in Nat /\ IsSeen(seen) /\ seen.once <= 1
      /\ seen.once >= 1 => stamp = today
      /\ today' = today /\ OnceFile' = OnceFile
  BY DEF OnceInv, Shapes, OnceADay, StampedWhenSeen, Start
<1>2. IsSeen(seen') /\ seen'.once = seen.once
  BY <1>1 DEF IsSeen
<1>3. stamp' = IF OnceFile THEN stamp ELSE today
  BY DEF Start
<1>4. /\ IsRun(run') /\ run'.mode = "reading" /\ run'.OnceDate = IF OnceFile THEN -1 ELSE stamp
      /\ run'.queued = {} /\ run'.out = <<>> /\ run'.sorted = <<>>
  BY NoRunShape DEF Start, IsRun
<1>5. IsSequence(run'.out) /\ IsSequence(run'.sorted) /\ Shown(run') = {} /\ ~HasOnce(run')
  BY <1>4, NothingShown
<1>6. Shapes'
  BY <1>1, <1>2, <1>3, <1>4, <1>5 DEF Shapes
<1>7. OnceIfNotToday'
  BY <1>5 DEF OnceIfNotToday
<1>8. StampedWhenKnown'
  BY <1>1, <1>3, <1>4 DEF StampedWhenKnown
<1>9. StampedWhenSeen' /\ OnceADay'
  BY <1>1, <1>2, <1>3 DEF StampedWhenSeen, OnceADay
<1>10. FirstOrNone'
  <2> SUFFICES ASSUME run'.OnceDate >= 0, run'.OnceDate # today PROVE seen.once = 0
    BY <1>1, <1>2 DEF FirstOrNone
  <2>1. stamp # today
    BY <1>4
  <2> QED
    BY <1>1, <2>1 DEF IsSeen
<1> QED
  BY <1>6, <1>7, <1>8, <1>9, <1>10 DEF OnceInv

(* What was sorted is issued at the end of the file (Finish).              *)
LEMMA FinishPreserves ==
    ASSUME OnceInv, Finish, IsSeen(seen'),
           seen'.once = IF HasOnce(run') /\ ~HasOnce(run) THEN Used(seen.once) ELSE seen.once
    PROVE  OnceInv'
<1>1. /\ today \in Nat \ {0} /\ stamp \in Nat /\ run.OnceDate \in Nat \cup {-1} /\ IsRun(run)
      /\ IsSequence(run.out) /\ IsSequence(run.sorted)
      /\ seen.once \in Nat /\ seen.once <= 1 /\ run.mode = "reading"
      /\ UNCHANGED <<OnceFile, stamp, today>>
  BY DEF OnceInv, Shapes, IsSeen, OnceADay, Finish
<1> DEFINE out == run.out \o run.sorted
<1>2. /\ IsRun(run') /\ run'.mode = "over" /\ run'.opt = run.opt /\ run'.OnceDate = run.OnceDate
      /\ run'.queued = run.queued /\ run'.sorted = run.sorted /\ run'.out = out
  <2>1. run' = [run EXCEPT !.mode = "over", !.out = out]
    BY DEF Finish
  <2> HIDE DEF out
  <2> QED
    BY <1>1, <2>1 DEF IsRun
<1>3. IsSequence(out) /\ Range(out) \subseteq Range(run.out) \cup Range(run.sorted)
  <2> DEFINE S == Range(run.out) \cup Range(run.sorted)
  <2>1. run.out \in Seq(S) /\ run.sorted \in Seq(S)
    BY <1>1 DEF IsSequence
  <2>2. out \in Seq(S)
    BY <2>1
  <2> HIDE DEF out
  <2> QED
    BY <2>2 DEF IsSequence, Range
<1> HIDE DEF out
<1>4. Shown(run') \subseteq Shown(run) /\ Visible(run') \subseteq Shown(run)
  BY <1>2, <1>3 DEF Shown, Visible
<1>5. Shapes'
  BY <1>1, <1>2, <1>3 DEF Shapes
<1>6. OnceIfNotToday' /\ StampedWhenKnown' /\ FirstOrNone'
  BY <1>1, <1>2, <1>4 DEF OnceInv, OnceIfNotToday, StampedWhenKnown, FirstOrNone
<1>7. CASE HasOnce(run') /\ ~HasOnce(run)
  <2>1. PICK name \in Visible(run') : Rem[name].once /\ ~IgnoreOnce(run'.opt)
    BY <1>7, HasOnceMeans
  <2>2. run.OnceDate >= 0 /\ run.OnceDate # today
    BY <1>2, <1>4, <2>1 DEF OnceInv, OnceIfNotToday
  <2>3. seen.once = 0 /\ stamp = today
    BY <1>1, <1>7, <2>2 DEF OnceInv, FirstOrNone, StampedWhenKnown
  <2>4. StampedWhenSeen' /\ OnceADay'
    BY <1>1, <1>7, <2>3 DEF StampedWhenSeen, OnceADay, Used
  <2> QED
    BY <1>5, <1>6, <2>4 DEF OnceInv
<1>8. CASE ~(HasOnce(run') /\ ~HasOnce(run))
  BY <1>1, <1>5, <1>6, <1>8 DEF OnceInv, StampedWhenSeen, OnceADay
<1> QED
  BY <1>7, <1>8

(* A run is killed (Killed): what it has issued counts unless it was       *)
(* writing the timestamp.                                                  *)
LEMMA KilledPreserves ==
    ASSUME OnceInv, Killed,
           seen' = [seen EXCEPT !.used = 2, !.once = IF stamp' = stamp THEN @ ELSE 0]
    PROVE  OnceInv'
<1>1. /\ today \in Nat \ {0} /\ stamp \in Nat /\ IsSeen(seen) /\ seen.once <= 1
      /\ seen.once >= 1 => stamp = today
      /\ today' = today /\ run' = NoRun /\ stamp' \in {stamp, 0}
  BY DEF OnceInv, Shapes, OnceADay, StampedWhenSeen, Killed
<1>2. IsSeen(seen') /\ seen'.once = IF stamp' = stamp THEN seen.once ELSE 0
  BY <1>1 DEF IsSeen
<1> QED
  BY <1>1, <1>2, RunReset DEF IsSeen

(* The user marks a task as complete or takes the purged file: without     *)
(* $OnceFile this touches the timestamp (Touched).                         *)
LEMMA EditPreserves ==
    ASSUME OnceInv, run' = NoRun, Touched, UNCHANGED <<OnceFile, today>>,
           IsSeen(seen'), seen'.once = seen.once
    PROVE  OnceInv'
<1>1. /\ today \in Nat \ {0} /\ stamp \in Nat /\ seen.once <= 1
      /\ seen.once >= 1 => stamp = today
  BY DEF OnceInv, Shapes, OnceADay, StampedWhenSeen
<1>2. stamp' = IF OnceFile THEN stamp ELSE today
  BY DEF Touched
<1> QED
  BY <1>1, <1>2, RunReset

(* The next day comes (NextDayComes): nothing has been issued on it.       *)
LEMMA NextDayPreserves ==
    ASSUME OnceInv, NextDayComes, seen' = SeenNothing(seen.owed)
    PROVE  OnceInv'
<1>1. /\ today \in Nat \ {0} /\ stamp \in Nat /\ today' = today + 1 /\ stamp' = stamp /\ run' = NoRun
  BY DEF OnceInv, Shapes, NextDayComes
<1>2. IsSeen(seen') /\ seen'.once = 0
  BY DEF SeenNothing, IsSeen
<1> QED
  BY <1>1, <1>2, RunReset

-----------------------------------------------------------------------------
(* The theorem. *)

(* At first there is no history, and no run (HInit).                       *)
LEMMA InitOnceInv == HInit => OnceInv
<1> SUFFICES ASSUME HInit PROVE OnceInv
  OBVIOUS
<1>1. /\ run = NoRun /\ stamp = 0 /\ today = FirstDay /\ FirstDay \in Nat \ {0}
      /\ seen = SeenNothing({})
  BY ReminderRunAssumption DEF HInit, Init
<1>2. IsSeen(seen) /\ seen.once = 0
  BY <1>1 DEF SeenNothing, IsSeen
<1>3. /\ IsRun(run) /\ run.mode = "none" /\ run.OnceDate = -1
      /\ run.queued = {} /\ run.out = <<>> /\ run.sorted = <<>>
  BY <1>1, NoRunShape
<1>4. IsSequence(run.out) /\ IsSequence(run.sorted) /\ Shown(run) = {}
  BY <1>3, NothingShown
<1> QED
  BY <1>1, <1>2, <1>3, <1>4
  DEF OnceInv, Shapes, OnceIfNotToday, StampedWhenKnown, StampedWhenSeen, FirstOrNone, OnceADay

(* Every step preserves the invariant (HNext), action by action.           *)
LEMMA NextOnceInv == OnceInv /\ [HNext]_hvars => OnceInv'
<1> SUFFICES ASSUME OnceInv, [HNext]_hvars PROVE OnceInv'
  OBVIOUS
<1>0. IsSeen(seen)
  BY DEF OnceInv, Shapes
<1>1. CASE (\E opt \in Options : Start(opt)) /\ seen' = [seen EXCEPT !.used = Used(@)]
  BY <1>1, StartPreserves
<1>2. CASE /\ ReadLine \/ Finish
           /\ seen' = [seen EXCEPT !.once = IF HasOnce(run') /\ ~HasOnce(run) THEN Used(@) ELSE @,
                                   !.owed = IF run.mode = "reading" /\ run'.mode = "over" /\ Plain
                                            THEN {[name |-> r.name, date |-> r.date] : r \in Owed} ELSE @]
  <2> DEFINE once == IF HasOnce(run') /\ ~HasOnce(run) THEN Used(seen.once) ELSE seen.once
  <2>1. once \in Nat
    BY <1>0 DEF IsSeen, Used
  <2> HIDE DEF once
  <2>2. PICK owed : seen' = [seen EXCEPT !.once = once, !.owed = owed]
    BY <1>2 DEF once
  <2>3. IsSeen(seen') /\ seen'.once = once
    BY <1>0, <2>1, <2>2 DEF IsSeen
  <2> QED
    BY <1>2, <2>3, LinePreserves, FinishPreserves DEF once
<1>3. CASE Killed /\ seen' = [seen EXCEPT !.used = 2, !.once = IF stamp' = stamp THEN @ ELSE 0]
  BY <1>3, KilledPreserves
<1>4. CASE /\ \E name \in DOMAIN Rem : Complete(name)
           /\ seen' = [seen EXCEPT !.used = 2, !.owed = {r \in @ : complete[r.name] = complete'[r.name]}]
  <2>1. run' = NoRun /\ Touched /\ UNCHANGED <<OnceFile, today>>
    BY <1>4 DEF Complete
  <2>2. IsSeen(seen') /\ seen'.once = seen.once
    BY <1>0, <1>4 DEF IsSeen
  <2> QED
    BY <2>1, <2>2, EditPreserves
<1>5. CASE TakePurged /\ seen' = [seen EXCEPT !.used = 2]
  <2>1. run' = NoRun /\ Touched /\ UNCHANGED <<OnceFile, today>>
    BY <1>5 DEF TakePurged
  <2>2. IsSeen(seen') /\ seen'.once = seen.once
    BY <1>0, <1>5 DEF IsSeen
  <2> QED
    BY <2>1, <2>2, EditPreserves
<1>6. CASE NextDayComes /\ seen' = SeenNothing(seen.owed)
  BY <1>6, NextDayPreserves
<1>7. CASE UNCHANGED hvars
  BY <1>7 DEF hvars, vars, OnceInv, Shapes, OnceIfNotToday, Shown, StampedWhenKnown, StampedWhenSeen,
              FirstOrNone, HasOnce, OnceADay
<1> QED
  BY <1>1, <1>2, <1>3, <1>4, <1>5, <1>6, <1>7 DEF HNext

(* Whatever the script, its triggers and the options of the runs are, and  *)
(* wherever runs are killed, at most one run of a day issues or queues     *)
(* reminders with ONCE (GetOnceDate, GetOnceDateFromFile).                 *)
THEOREM OnceOnlyOnceADay == HSpec => []OnceADay
<1>1. OnceInv => OnceADay
  BY DEF OnceInv
<1> QED
  BY <1>1, InitOnceInv, NextOnceInv, PTL DEF HSpec

-----------------------------------------------------------------------------
(* The sort buffer (InsertIntoSortBuffer, CompareRems of sort.c).          *)

\* What a reminder must have to be sorted.
Sortable(rem) == rem.date \in Int /\ rem.time \in Int /\ rem.priority \in Int

(* The first key that differs counts (CompareRems, one key after another). *)
LEMMA PrecedesMeans ==
    ASSUME NEW k, NEW l
    PROVE  Precedes(k, l) <=> \/ k[1] < l[1]
                              \/ k[1] = l[1] /\ k[2] < l[2]
                              \/ k[1] = l[1] /\ k[2] = l[2] /\ k[3] < l[3]
                              \/ k[1] = l[1] /\ k[2] = l[2] /\ k[3] = l[3] /\ k[4] < l[4]
<1> DEFINE At(i) == k[i] < l[i] /\ \A j \in 1 .. i - 1 : k[j] = l[j]
<1>1. \A i \in 1 .. 4 : i = 1 \/ i = 2 \/ i = 3 \/ i = 4
  OBVIOUS
<1>2. /\ 1 .. 1 - 1 = {} /\ 1 .. 2 - 1 = {1} /\ 1 .. 3 - 1 = {1, 2} /\ 1 .. 4 - 1 = {1, 2, 3}
      /\ {1, 2, 3, 4} \subseteq 1 .. 4
  OBVIOUS
<1>3. Precedes(k, l) <=> At(1) \/ At(2) \/ At(3) \/ At(4)
  <2> HIDE DEF At
  <2>1. Precedes(k, l) <=> \E i \in 1 .. 4 : At(i)
    BY DEF Precedes, At
  <2> QED
    BY <1>1, <1>2, <2>1, Zenon
<1>4. /\ At(1) <=> k[1] < l[1]
      /\ At(2) <=> k[1] = l[1] /\ k[2] < l[2]
      /\ At(3) <=> k[1] = l[1] /\ k[2] = l[2] /\ k[3] < l[3]
      /\ At(4) <=> k[1] = l[1] /\ k[2] = l[2] /\ k[3] = l[3] /\ k[4] < l[4]
  BY <1>2
<1> QED
  BY <1>3, <1>4

IsKey(k) == k = <<k[1], k[2], k[3], k[4]>> /\ \A i \in 1 .. 4 : k[i] \in Int

(* The order of the keys is linear.                                        *)
LEMMA KeysAreOrdered ==
    ASSUME NEW k, NEW l, IsKey(k), IsKey(l)
    PROVE  /\ Precedes(k, l) \/ Precedes(l, k) \/ k = l
           /\ ~(Precedes(k, l) /\ Precedes(l, k)) /\ (k = l => ~Precedes(k, l))
           /\ \A m : IsKey(m) /\ Precedes(m, k) /\ ~Precedes(l, k) => Precedes(m, l)
<1>1. /\ k[1] \in Int /\ k[2] \in Int /\ k[3] \in Int /\ k[4] \in Int
      /\ l[1] \in Int /\ l[2] \in Int /\ l[3] \in Int /\ l[4] \in Int
  BY DEF IsKey
<1>2. k[1] = l[1] /\ k[2] = l[2] /\ k[3] = l[3] /\ k[4] = l[4] => k = l
  BY DEF IsKey
<1> DEFINE k1 == k[1]  k2 == k[2]  k3 == k[3]  k4 == k[4]
           l1 == l[1]  l2 == l[2]  l3 == l[3]  l4 == l[4]
<1>3. /\ Precedes(k, l) \/ Precedes(l, k) \/ k = l
      /\ ~(Precedes(k, l) /\ Precedes(l, k)) /\ (k = l => ~Precedes(k, l))
  BY <1>1, <1>2, PrecedesMeans
<1>4. ASSUME NEW m, IsKey(m), Precedes(m, k), ~Precedes(l, k) PROVE Precedes(m, l)
  <2>1. m[1] \in Int /\ m[2] \in Int /\ m[3] \in Int /\ m[4] \in Int
    BY <1>4 DEF IsKey
  <2> QED
    BY <1>1, <1>4, <2>1, PrecedesMeans
<1> QED
  BY <1>3, <1>4

(* The rank of a reminder is such a key.                                   *)
LEMMA KeyIsKey ==
    ASSUME NEW rem, Sortable(rem), NEW by
    PROVE  IsKey(Key(rem, by))
<1> DEFINE k1 == Ranked(rem.date, by.date)
           k2 == IF (rem.time = NO_TIME) = by.untimed_first THEN 0 ELSE 1
           k3 == Ranked(rem.time, by.time)
           k4 == Ranked(rem.priority, by.prio)
<1>1. k1 \in Int /\ k2 \in Int /\ k3 \in Int /\ k4 \in Int
  BY DEF Sortable, Ranked
<1>2. Key(rem, by) = <<k1, k2, k3, k4>>
  BY DEF Key
<1> HIDE DEF k1, k2, k3, k4
<1> QED
  BY <1>1, <1>2 DEF IsKey

(* Compare orders numbers as their ranks are.                              *)
LEMMA CompareIsRanked ==
    ASSUME NEW x \in Int, NEW y \in Int, NEW direction \in {"ascend", "descend"}
    PROVE  /\ Compare(x, y, direction) > 0 <=> Ranked(x, direction) < Ranked(y, direction)
           /\ Compare(x, y, direction) = 0 <=> x = y
           /\ x = y <=> Ranked(x, direction) = Ranked(y, direction)
BY DEF Compare, After, Ranked

(* ... and so does CompareTimes: reminders without a time first or last.   *)
LEMMA TimesAreRanked ==
    ASSUME NEW x \in Int, NEW y \in Int, NEW by \in Directions
    PROVE  LET untimed(z) == IF (z = NO_TIME) = by.untimed_first THEN 0 ELSE 1
               less(a, b) == Ranked(a, by.time) < Ranked(b, by.time)
           IN  /\ CompareTimes(x, y, by) > 0 <=> \/ untimed(x) < untimed(y)
                                                 \/ untimed(x) = untimed(y) /\ less(x, y)
               /\ CompareTimes(x, y, by) = 0 <=> x = y
<1>1. by.time \in {"ascend", "descend"} /\ by.untimed_first \in BOOLEAN
  BY DEF Directions
<1> DEFINE direction == by.time
           c == Compare(x, y, direction)
           r == Ranked(x, direction)
           s == Ranked(y, direction)
<1>2. (c > 0 <=> r < s) /\ (c = 0 <=> x = y)
  BY <1>1, CompareIsRanked
<1>3. CompareTimes(x, y, by) =
        CASE x = NO_TIME /\ y # NO_TIME -> IF by.untimed_first THEN 1 ELSE -1
          [] x # NO_TIME /\ y = NO_TIME -> IF by.untimed_first THEN -1 ELSE 1
          [] OTHER -> c
  BY DEF CompareTimes
<1> DEFINE z == CompareTimes(x, y, by)
<1> HIDE DEF c, z
<1>4. CASE x = NO_TIME /\ y # NO_TIME
  BY <1>1, <1>3, <1>4 DEF z
<1>5. CASE x # NO_TIME /\ y = NO_TIME
  BY <1>1, <1>3, <1>5 DEF z
<1>6. CASE (x = NO_TIME) = (y = NO_TIME)
  <2>1. z = c
    BY <1>3, <1>6 DEF z
  <2> QED
    BY <1>2, <1>6, <2>1 DEF z
<1> QED
  BY <1>4, <1>5, <1>6

(* CompareRems: a goes before b when its key does.                         *)
LEMMA ComparesKeys ==
    ASSUME NEW a, NEW b, Sortable(a), Sortable(b), NEW by \in Directions
    PROVE  CompareRems(a, b, by) > 0 <=> Precedes(Key(a, by), Key(b, by))
<1> DEFINE k == Key(a, by)
           l == Key(b, by)
           d == Compare(a.date, b.date, by.date)
           t == CompareTimes(a.time, b.time, by)
           p == Compare(a.priority, b.priority, by.prio)
<1>1. by.date \in {"ascend", "descend"} /\ by.prio \in {"ascend", "descend"}
  BY DEF Directions
<1>2. /\ k[1] = Ranked(a.date, by.date) /\ l[1] = Ranked(b.date, by.date)
      /\ k[2] = IF (a.time = NO_TIME) = by.untimed_first THEN 0 ELSE 1
      /\ l[2] = IF (b.time = NO_TIME) = by.untimed_first THEN 0 ELSE 1
      /\ k[3] = Ranked(a.time, by.time) /\ l[3] = Ranked(b.time, by.time)
      /\ k[4] = Ranked(a.priority, by.prio) /\ l[4] = Ranked(b.priority, by.prio)
  BY DEF Key
<1>3. /\ d > 0 <=> k[1] < l[1]
      /\ a.date = b.date <=> k[1] = l[1]
  BY <1>1, <1>2, CompareIsRanked DEF Sortable
<1>4. /\ t > 0 <=> k[2] < l[2] \/ (k[2] = l[2] /\ k[3] < l[3])
      /\ t = 0 <=> a.time = b.time
  BY <1>2, TimesAreRanked DEF Sortable
<1>5. p > 0 <=> k[4] < l[4]
  BY <1>1, <1>2, CompareIsRanked DEF Sortable
<1>6. a.time = b.time <=> k[2] = l[2] /\ k[3] = l[3]
  <2>1. by.time \in {"ascend", "descend"}
    BY DEF Directions
  <2> QED
    BY <1>2, <2>1, CompareIsRanked DEF Sortable
<1>7. CompareRems(a, b, by) = CASE a.date # b.date -> d
                                [] a.date = b.date /\ t # 0 -> t
                                [] OTHER -> p
  BY DEF CompareRems
<1>8. /\ k[1] \in Int /\ k[2] \in Int /\ k[3] \in Int /\ k[4] \in Int
      /\ l[1] \in Int /\ l[2] \in Int /\ l[3] \in Int /\ l[4] \in Int
  BY KeyIsKey DEF IsKey
<1> HIDE DEF k, l, d, t, p
<1>9. Precedes(k, l) <=> \/ k[1] < l[1]
                         \/ k[1] = l[1] /\ k[2] < l[2]
                         \/ k[1] = l[1] /\ k[2] = l[2] /\ k[3] < l[3]
                         \/ k[1] = l[1] /\ k[2] = l[2] /\ k[3] = l[3] /\ k[4] < l[4]
  BY PrecedesMeans
<1>10. CompareRems(a, b, by) > 0 <=> Precedes(k, l)
  <2>1. CASE a.date # b.date
    BY <1>3, <1>7, <1>8, <1>9, <2>1
  <2>2. CASE a.date = b.date /\ t # 0
    BY <1>3, <1>4, <1>6, <1>7, <1>8, <1>9, <2>2
  <2>3. CASE a.date = b.date /\ t = 0
    BY <1>3, <1>4, <1>5, <1>6, <1>7, <1>8, <1>9, <2>3
  <2> QED
    BY <2>1, <2>2, <2>3
<1> QED
  BY <1>10 DEF k, l

\* came[i] goes before came[j], and where the reminder came[i] is in the end.
Earlier(came, by, i, j) ==
    \/ Precedes(Key(came[i], by), Key(came[j], by))
    \/ Key(came[i], by) = Key(came[j], by) /\ i < j

Place(came, by, i) == 1 + Cardinality({j \in DOMAIN came : Earlier(came, by, j, i)})

\* The reminders of came, and those of queue are the same ones in their order.
Sorts(queue, came, by) ==
    LET n == Len(came)
    IN  /\ came \in Seq(Range(came)) /\ \A i \in 1 .. n : Sortable(came[i])
        /\ queue \in Seq(Range(came)) /\ Len(queue) = n
        /\ \A i \in 1 .. n : Place(came, by, i) \in 1 .. n /\ queue[Place(came, by, i)] = came[i]
        /\ \A p \in 1 .. n : \E i \in 1 .. n : Place(came, by, i) = p
        /\ \A i, j \in 1 .. n : /\ Place(came, by, i) = Place(came, by, j) => i = j
                                /\ Place(came, by, i) < Place(came, by, j) => Earlier(came, by, i, j)

(* A reminder more: it comes after those that do not go after it, and only *)
(* those that go after it move.                                            *)
LEMMA PlacesMove ==
    ASSUME NEW came, came \in Seq(Range(came)), NEW rem, NEW by,
           \A i \in 1 .. Len(came) : Sortable(came[i]), Sortable(rem)
    PROVE  LET n     == Len(came)
               later(i) == Precedes(Key(rem, by), Key(came[i], by))
           IN  /\ \A i, j \in 1 .. n : Earlier(Append(came, rem), by, i, j) <=> Earlier(came, by, i, j)
               /\ \A i \in 1 .. n : /\ Earlier(Append(came, rem), by, n + 1, i) <=> later(i)
                                    /\ Earlier(Append(came, rem), by, i, n + 1) <=> ~later(i)
                                    /\ Place(Append(came, rem), by, i) = IF later(i) THEN Place(came, by, i) + 1
                                                                         ELSE Place(came, by, i)
                                    /\ Place(came, by, i) \in Nat
               /\ Place(Append(came, rem), by, n + 1) = 1 + Cardinality({i \in 1 .. n : ~later(i)})
<1> DEFINE n == Len(came)
           more == Append(came, rem)
           later(i) == Precedes(Key(rem, by), Key(came[i], by))
<1>1. n \in Nat /\ DOMAIN came = 1 .. n /\ DOMAIN more = 1 .. n + 1
  OBVIOUS
<1>2. more[n + 1] = rem /\ \A i \in 1 .. n : more[i] = came[i]
  OBVIOUS
<1> HIDE DEF n, more
<1>3. \A i, j \in 1 .. n : Earlier(more, by, i, j) <=> Earlier(came, by, i, j)
  BY <1>2 DEF Earlier
<1>4. \A i \in 1 .. n : Earlier(more, by, n + 1, i) <=> later(i)
  <2> TAKE i \in 1 .. n
  <2>1. ~(n + 1 < i)
    BY <1>1
  <2> QED
    BY <1>2, <2>1 DEF Earlier
<1>5. \A i \in 1 .. n : Earlier(more, by, i, n + 1) <=> ~later(i)
  <2> TAKE i \in 1 .. n
  <2> DEFINE k == Key(rem, by)
             l == Key(came[i], by)
  <2>1. IsKey(k) /\ IsKey(l)
    BY KeyIsKey DEF n
  <2>2. i < n + 1
    BY <1>1
  <2>3. Earlier(more, by, i, n + 1) <=> Precedes(l, k) \/ l = k
    BY <1>2, <2>2 DEF Earlier
  <2> HIDE DEF k, l
  <2>4. (Precedes(l, k) \/ l = k) <=> ~Precedes(k, l)
    BY <2>1, KeysAreOrdered
  <2> QED
    BY <2>3, <2>4 DEF k, l
<1>6. n + 1 \notin 1 .. n /\ 1 .. n + 1 = (1 .. n) \cup {n + 1}
  BY <1>1
<1>7. ASSUME NEW i \in 1 .. n
      PROVE  /\ Place(more, by, i) = IF later(i) THEN Place(came, by, i) + 1 ELSE Place(came, by, i)
             /\ Place(came, by, i) \in Nat
  <2> DEFINE S == {j \in 1 .. n : Earlier(came, by, j, i)}
             T == {j \in 1 .. n + 1 : Earlier(more, by, j, i)}
  <2>1. T = IF later(i) THEN S \cup {n + 1} ELSE S
    BY <1>3, <1>4, <1>6
  <2>2. IsFiniteSet(S) /\ Cardinality(S) \in Nat
    <3>1. IsFiniteSet(1 .. n) /\ S \in SUBSET (1 .. n)
      BY <1>1, FS_Interval
    <3> HIDE DEF S
    <3> QED
      BY <3>1, FS_Subset, FS_CardinalityType
  <2>3. n + 1 \notin S
    BY <1>6
  <2>4. Place(came, by, i) = 1 + Cardinality(S) /\ Place(more, by, i) = 1 + Cardinality(T)
    BY <1>1 DEF Place
  <2> HIDE DEF S, T, later
  <2>5. Cardinality(T) = IF later(i) THEN Cardinality(S) + 1 ELSE Cardinality(S)
    <3>1. Cardinality(S \cup {n + 1}) = Cardinality(S) + 1
      BY <2>2, <2>3, FS_AddElement
    <3> QED
      BY <2>1, <3>1
  <2> DEFINE a == Cardinality(S)
             b == Cardinality(T)
  <2>6. /\ Place(more, by, i) = 1 + b /\ Place(came, by, i) = 1 + a /\ a \in Nat
        /\ b = IF later(i) THEN a + 1 ELSE a
    BY <2>2, <2>4, <2>5
  <2> HIDE DEF a, b
  <2> QED
    BY <2>6
<1>8. Place(more, by, n + 1) = 1 + Cardinality({i \in 1 .. n : ~later(i)})
  <2>1. ~Earlier(more, by, n + 1, n + 1)
    <3> DEFINE k == Key(rem, by)
    <3>1. IsKey(k)
      BY KeyIsKey
    <3>2. ~Precedes(k, k)
      BY <3>1, KeysAreOrdered
    <3>3. ~(n + 1 < n + 1)
      BY <1>1
    <3> QED
      BY <1>2, <3>2, <3>3 DEF Earlier
  <2>2. {j \in 1 .. n + 1 : Earlier(more, by, j, n + 1)} = {i \in 1 .. n : ~later(i)}
    BY <1>5, <1>6, <2>1
  <2> QED
    BY <1>1, <2>2 DEF Place
<1> HIDE DEF later
<1>9. \A i \in 1 .. n : /\ Earlier(more, by, n + 1, i) <=> later(i)
                        /\ Earlier(more, by, i, n + 1) <=> ~later(i)
                        /\ Place(more, by, i) = IF later(i) THEN Place(came, by, i) + 1 ELSE Place(came, by, i)
                        /\ Place(came, by, i) \in Nat
  BY <1>4, <1>5, <1>7
<1> QED
  BY <1>3, <1>8, <1>9 DEF n, more, later

(* An element put into a sequence before its element k.                    *)
LEMMA PutBefore ==
    ASSUME NEW S, NEW a \in Seq(S), NEW e \in S, NEW k \in 1 .. Len(a) + 1
    PROVE  LET b == SubSeq(a, 1, k - 1) \o <<e>> \o SubSeq(a, k, Len(a))
           IN  /\ b \in Seq(S) /\ Len(b) = Len(a) + 1
               /\ \A i \in 1 .. Len(a) + 1 : b[i] = IF i < k THEN a[i] ELSE IF i = k THEN e ELSE a[i - 1]
<1> DEFINE N     == Len(a)
           left  == SubSeq(a, 1, k - 1)
           right == SubSeq(a, k, N)
           low   == left \o <<e>>
           b     == low \o right
<1>0. N \in Nat /\ k \in 1 .. N + 1 /\ DOMAIN a = 1 .. N
  OBVIOUS
<1> HIDE DEF N
<1>1. left \in Seq(S) /\ Len(left) = k - 1 /\ \A i \in 1 .. k - 1 : left[i] = a[i]
  BY <1>0 DEF N
<1>2. right \in Seq(S) /\ Len(right) = N - k + 1 /\ \A i \in 1 .. N - k + 1 : right[i] = a[k + i - 1]
  BY SMTT(30), <1>0, SubSeqProperties DEF N
<1>3. /\ low \in Seq(S) /\ Len(low) = k
      /\ (\A i \in 1 .. k - 1 : low[i] = a[i]) /\ low[k] = e
  <2> HIDE DEF left
  <2>1. <<e>> \in Seq(S) /\ Len(<<e>>) = 1 /\ <<e>>[1] = e
    OBVIOUS
  <2>2. /\ low \in Seq(S) /\ Len(low) = Len(left) + 1
        /\ \A i \in 1 .. Len(left) + 1 :
             low[i] = IF i <= Len(left) THEN left[i] ELSE <<e>>[i - Len(left)]
    BY <1>1, <2>1, ConcatProperties
  <2> HIDE DEF low
  <2>3. low \in Seq(S) /\ Len(low) = k
    BY <1>0, <1>1, <2>2
  <2>4. \A i \in 1 .. k : low[i] = IF i <= k - 1 THEN left[i] ELSE <<e>>[i - (k - 1)]
    BY <1>0, <1>1, <2>2
  <2>5. \A i \in 1 .. k - 1 : low[i] = a[i]
    BY <1>0, <1>1, <2>4
  <2>6. low[k] = e
    <3>1. k \in 1 .. k /\ ~(k <= k - 1) /\ k - (k - 1) = 1
      BY <1>0
    <3> QED
      BY <2>1, <2>4, <3>1
  <2> QED
    BY <2>3, <2>5, <2>6
<1> HIDE DEF right, low
<1>4. /\ b \in Seq(S) /\ Len(b) = Len(low) + Len(right)
      /\ \A i \in 1 .. Len(low) + Len(right) :
           b[i] = IF i <= Len(low) THEN low[i] ELSE right[i - Len(low)]
  BY <1>2, <1>3, ConcatProperties
<1> HIDE DEF b
<1>5. b \in Seq(S) /\ Len(b) = N + 1
  BY <1>0, <1>2, <1>3, <1>4
<1>6. ASSUME NEW i \in 1 .. N + 1
      PROVE  b[i] = IF i < k THEN a[i] ELSE IF i = k THEN e ELSE a[i - 1]
  <2>1. i \in 1 .. Len(low) + Len(right)
    BY <1>0, <1>2, <1>3
  <2>2. b[i] = IF i <= k THEN low[i] ELSE right[i - k]
    BY <1>3, <1>4, <2>1
  <2>3. CASE i < k
    BY <1>0, <1>3, <2>2, <2>3
  <2>4. CASE i = k
    BY <1>0, <1>3, <2>2, <2>4
  <2>5. CASE i > k
    <3>1. i - k \in 1 .. N - k + 1 /\ k + (i - k) - 1 = i - 1
      BY <1>0, <2>5
    <3>2. right[i - k] = a[i - 1]
      BY <1>2, <3>1
    <3> QED
      BY <1>0, <2>2, <2>5, <3>2
  <2> QED
    BY <1>0, <2>3, <2>4, <2>5
<1> QED
  BY <1>5, <1>6 DEF N, b, low, left, right

(* Of the places 1 .. n those up to m are taken by m elements.             *)
LEMMA CountsPlaces ==
    ASSUME NEW n \in Nat, NEW m \in 0 .. n, NEW place \in [1 .. n -> 1 .. n],
           \A i, j \in 1 .. n : place[i] = place[j] => i = j,
           \A p \in 1 .. n : \E i \in 1 .. n : place[i] = p
    PROVE  Cardinality({i \in 1 .. n : place[i] <= m}) = m
<1> DEFINE S == {i \in 1 .. n : place[i] <= m}
           g == [i \in S |-> place[i]]
<1>1. g \in Injection(S, 1 .. m)
  <2>1. \A i \in S : g[i] \in 1 .. m
    OBVIOUS
  <2>2. g \in [S -> 1 .. m]
    <3> HIDE DEF S
    <3> QED
      BY <2>1
  <2>3. \A i, j \in S : g[i] = g[j] => i = j
    OBVIOUS
  <2> HIDE DEF g, S
  <2> QED
    BY <2>2, <2>3 DEF Injection, IsInjective
<1>2. g \in Surjection(S, 1 .. m)
  <2>1. ASSUME NEW p \in 1 .. m PROVE \E i \in S : g[i] = p
    <3>1. PICK i \in 1 .. n : place[i] = p
      OBVIOUS
    <3>2. i \in S
      BY <3>1
    <3> QED
      BY <3>1, <3>2
  <2>2. g \in [S -> 1 .. m]
    BY <1>1 DEF Injection
  <2> HIDE DEF g, S
  <2> QED
    BY <2>1, <2>2 DEF Surjection
<1>3. IsFiniteSet(1 .. m) /\ Cardinality(1 .. m) = m
  BY FS_Interval
<1> HIDE DEF g, S
<1>4. Cardinality(S) = Cardinality(1 .. m)
  BY <1>1, <1>2, <1>3, FS_Injection
<1> QED
  BY <1>3, <1>4 DEF S

(* InsertIntoSortBuffer keeps the buffer sorted, whatever was in it.       *)
LEMMA InsertSorts ==
    ASSUME NEW queue, NEW came, NEW by \in Directions, Sorts(queue, came, by), NEW rem, Sortable(rem)
    PROVE  Sorts(InsertIntoSortBuffer(queue, rem, by), Append(came, rem), by)
<1> DEFINE n == Len(came)
           more == Append(came, rem)
           S == Range(more)
           later(i) == Precedes(Key(rem, by), Key(came[i], by))
           place(i) == Place(came, by, i)
           places == {n + 1} \cup {p \in 1 .. n : CompareRems(rem, queue[p], by) > 0}
           k == Min(places)
           b == SubSeq(queue, 1, k - 1) \o <<rem>> \o SubSeq(queue, k, n)
<1>1. /\ n \in Nat /\ came \in Seq(Range(came)) /\ queue \in Seq(Range(came)) /\ Len(queue) = n
      /\ DOMAIN queue = 1 .. n /\ DOMAIN came = 1 .. n
      /\ \A i \in 1 .. n : Sortable(came[i])
  BY DEF Sorts
<1>2. /\ \A i \in 1 .. n : place(i) \in 1 .. n /\ queue[place(i)] = came[i]
      /\ \A p \in 1 .. n : \E i \in 1 .. n : place(i) = p
      /\ \A i, j \in 1 .. n : /\ place(i) = place(j) => i = j
                              /\ place(i) < place(j) => Earlier(came, by, i, j)
  BY DEF Sorts
<1>3. /\ DOMAIN more = 1 .. n + 1 /\ Len(more) = n + 1 /\ more[n + 1] = rem
      /\ \A i \in 1 .. n : more[i] = came[i]
  BY <1>1
<1>4. Range(came) \subseteq S /\ rem \in S /\ more \in Seq(S)
  <2> HIDE DEF more, n
  <2>1. \A i \in 1 .. n : i \in 1 .. n + 1
    BY <1>1
  <2>2. n + 1 \in 1 .. n + 1
    BY <1>1
  <2>3. Range(came) \subseteq S /\ rem \in S
    BY <1>1, <1>3, <2>1, <2>2 DEF Range
  <2> HIDE DEF S
  <2>4. came \in Seq(S)
    BY <1>1, <2>3
  <2> QED
    BY <2>3, <2>4 DEF more
<1>5. InsertIntoSortBuffer(queue, rem, by) = b
  BY <1>1 DEF InsertIntoSortBuffer
<1> HIDE DEF S, more
<1>6. k \in 1 .. n + 1 /\ (\A p \in 1 .. n : p \in places => p >= k) /\ (k <= n => k \in places)
  <2>1. places \in SUBSET Nat /\ places # {} /\ \A p \in places : p \in 1 .. n + 1
    <3> HIDE DEF n
    <3> QED
      BY <1>1
  <2> HIDE DEF places
  <2>2. k \in places /\ \A p \in places : k <= p
    BY <2>1, MinIsMember
  <2> HIDE DEF k, n
  <2> QED
    BY <1>1, <2>1, <2>2
<1>7. \A i \in 1 .. n : place(i) \in places <=> later(i)
  <2> TAKE i \in 1 .. n
  <2>1. CompareRems(rem, came[i], by) > 0 <=> later(i)
    BY <1>1, ComparesKeys
  <2>2. place(i) # n + 1 /\ place(i) \in 1 .. n /\ queue[place(i)] = came[i]
    BY <1>1, <1>2
  <2> HIDE DEF place, later, n
  <2> QED
    BY <2>1, <2>2
<1> HIDE DEF k, places
<1>8. \A i \in 1 .. n : later(i) <=> place(i) >= k
  <2> SUFFICES ASSUME NEW i \in 1 .. n PROVE later(i) <=> place(i) >= k
    BY Zenon
  <2>0. place(i) \in 1 .. n
    BY <1>2
  <2>1. later(i) => place(i) >= k
    BY <1>6, <1>7, <2>0
  <2>2. ASSUME place(i) >= k PROVE later(i)
    <3>1. k \in 1 .. n
      <4> HIDE DEF n, place
      <4> QED
        BY <1>1, <1>6, <2>0, <2>2
    <3>2. PICK j \in 1 .. n : place(j) = k
      BY <1>2, <3>1
    <3>3. later(j)
      <4>1. k <= n
        BY <1>1, <3>1
      <4>2. place(j) \in places
        BY <1>6, <3>2, <4>1
      <4> QED
        BY <1>7, <4>2
    <3>4. CASE place(i) = k
      BY <1>2, <3>2, <3>3, <3>4
    <3>5. CASE place(i) # k
      <4>1. place(j) < place(i)
        <5> HIDE DEF n, place
        <5> QED
          BY <1>1, <1>6, <2>0, <2>2, <3>2, <3>5
      <4>2. Earlier(came, by, j, i)
        BY <1>2, <4>1
      <4> DEFINE x == Key(came[j], by)
                 y == Key(came[i], by)
                 z == Key(rem, by)
      <4>3. IsKey(x) /\ IsKey(y) /\ IsKey(z)
        BY <1>1, KeyIsKey
      <4>4. Precedes(x, y) \/ x = y
        BY <4>2 DEF Earlier
      <4>5. Precedes(z, x)
        BY <3>3
      <4> HIDE DEF x, y, z
      <4>6. ~Precedes(y, x)
        BY <4>3, <4>4, KeysAreOrdered
      <4>7. Precedes(z, y)
        BY <4>3, <4>5, <4>6, KeysAreOrdered
      <4> QED
        BY <4>7 DEF y, z
    <3> QED
      BY <3>4, <3>5
  <2> QED
    BY <2>1, <2>2
<1>9. /\ \A i, j \in 1 .. n : Earlier(more, by, i, j) <=> Earlier(came, by, i, j)
      /\ \A i \in 1 .. n : /\ Earlier(more, by, n + 1, i) <=> later(i)
                           /\ Earlier(more, by, i, n + 1) <=> ~later(i)
                           /\ Place(more, by, i) = IF later(i) THEN place(i) + 1 ELSE place(i)
      /\ Place(more, by, n + 1) = 1 + Cardinality({i \in 1 .. n : ~later(i)})
  BY <1>1, PlacesMove DEF more
<1>10. Cardinality({i \in 1 .. n : ~later(i)}) = k - 1
  <2> DEFINE f == [i \in 1 .. n |-> place(i)]
             m == k - 1
  <2> HIDE DEF later
  <2>1. f \in [1 .. n -> 1 .. n]
    BY <1>2
  <2>2. /\ \A i, j \in 1 .. n : f[i] = f[j] => i = j
        /\ \A p \in 1 .. n : \E i \in 1 .. n : f[i] = p
        /\ \A i \in 1 .. n : f[i] = place(i)
    BY <1>2
  <2>3. m \in 0 .. n
    <3> HIDE DEF n
    <3> QED
      BY <1>1, <1>6
  <2>4. \A i \in 1 .. n : ~later(i) <=> f[i] <= m
    <3> TAKE i \in 1 .. n
    <3>1. f[i] = place(i) /\ place(i) \in 1 .. n /\ (later(i) <=> place(i) >= k)
      BY <1>2, <1>8, <2>2
    <3> HIDE DEF f, place, n
    <3> QED
      BY <1>1, <1>6, <3>1
  <2> HIDE DEF f, m
  <2>5. Cardinality({i \in 1 .. n : f[i] <= m}) = m
    BY <1>1, <2>1, <2>2, <2>3, CountsPlaces
  <2>6. {i \in 1 .. n : ~later(i)} = {i \in 1 .. n : f[i] <= m}
    BY <2>4
  <2> QED
    BY <2>5, <2>6 DEF m
<1> DEFINE new(i) == Place(more, by, i)
<1>11. /\ new(n + 1) = k
       /\ \A i \in 1 .. n : new(i) = IF place(i) >= k THEN place(i) + 1 ELSE place(i)
  <2>1. new(n + 1) = k
    <3> DEFINE c == Cardinality({i \in 1 .. n : ~later(i)})
    <3>1. new(n + 1) = 1 + c /\ c = k - 1
      BY <1>9, <1>10
    <3> HIDE DEF c, new
    <3> QED
      BY <1>6, <3>1
  <2> HIDE DEF later
  <2>2. \A i \in 1 .. n : new(i) = IF place(i) >= k THEN place(i) + 1 ELSE place(i)
    BY <1>8, <1>9
  <2> QED
    BY <2>1, <2>2
<1> HIDE DEF new, place, later, n
<1>12. \A i \in 1 .. n + 1 : i \in 1 .. n \/ i = n + 1
  BY <1>1
<1>13. /\ b \in Seq(S) /\ Len(b) = n + 1
       /\ \A i \in 1 .. n + 1 : b[i] = IF i < k THEN queue[i] ELSE IF i = k THEN rem ELSE queue[i - 1]
  <2>1. queue \in Seq(S) /\ k \in 1 .. Len(queue) + 1
    BY <1>1, <1>4, <1>6
  <2> QED
    BY <1>1, <1>4, <2>1, PutBefore
<1> HIDE DEF b
<1>14. \A i \in 1 .. n + 1 : new(i) \in 1 .. n + 1 /\ b[new(i)] = more[i]
  <2>1. ASSUME NEW i \in 1 .. n PROVE new(i) \in 1 .. n + 1 /\ b[new(i)] = more[i]
    <3>1. place(i) \in 1 .. n /\ queue[place(i)] = came[i] /\ more[i] = came[i]
      BY <1>2, <1>3
    <3>2. new(i) = IF place(i) >= k THEN place(i) + 1 ELSE place(i)
      BY <1>11
    <3> DEFINE p == place(i)
               q == new(i)
    <3> HIDE DEF p, q
    <3>3. p \in 1 .. n /\ q = (IF p >= k THEN p + 1 ELSE p)
      BY <3>1, <3>2 DEF p, q
    <3>4. q \in 1 .. n + 1
      BY <1>1, <3>3
    <3>5. b[q] = IF q < k THEN queue[q] ELSE IF q = k THEN rem ELSE queue[q - 1]
      BY <1>13, <3>4
    <3>6. b[q] = queue[p]
      <4>1. CASE p >= k
        <5>1. q = p + 1 /\ ~(q < k) /\ q # k /\ q - 1 = p
          BY <1>6, <3>3, <4>1
        <5> QED
          BY <3>5, <5>1
      <4>2. CASE ~(p >= k)
        <5>1. q = p /\ q < k
          BY <1>6, <3>3, <4>2
        <5> QED
          BY <3>5, <5>1
      <4> QED
        BY <4>1, <4>2
    <3> QED
      BY <3>1, <3>4, <3>6 DEF p, q
  <2>2. new(n + 1) \in 1 .. n + 1 /\ b[new(n + 1)] = more[n + 1]
    BY <1>1, <1>3, <1>6, <1>11, <1>13
  <2> QED
    BY <1>12, <2>1, <2>2
<1>15. \A p \in 1 .. n + 1 : \E i \in 1 .. n + 1 : new(i) = p
  <2> SUFFICES ASSUME NEW p \in 1 .. n + 1 PROVE \E i \in 1 .. n + 1 : new(i) = p
    OBVIOUS
  <2>1. n + 1 \in 1 .. n + 1 /\ \A i \in 1 .. n : i \in 1 .. n + 1
    BY <1>1
  <2>2. CASE p = k
    BY <1>11, <2>1, <2>2
  <2>3. CASE p < k
    <3>1. p \in 1 .. n
      BY <1>1, <1>6, <2>3
    <3>2. PICK i \in 1 .. n : place(i) = p
      BY <1>2, <3>1
    <3>3. new(i) = p
      BY <1>6, <1>11, <2>3, <3>2
    <3> QED
      BY <2>1, <3>3
  <2>4. CASE p > k
    <3>1. p - 1 \in 1 .. n /\ p - 1 >= k
      BY <1>1, <1>6, <2>4
    <3>2. PICK i \in 1 .. n : place(i) = p - 1
      BY <1>2, <3>1
    <3>3. new(i) = p
      BY <1>6, <1>11, <3>1, <3>2
    <3> QED
      BY <2>1, <3>3
  <2> QED
    BY <1>1, <1>6, <2>2, <2>3, <2>4
<1>16. ASSUME NEW i \in 1 .. n + 1, NEW j \in 1 .. n + 1
       PROVE  (new(i) = new(j) => i = j) /\ (new(i) < new(j) => Earlier(more, by, i, j))
  <2>1. CASE i \in 1 .. n /\ j \in 1 .. n
    <3>1. /\ place(i) \in 1 .. n /\ place(j) \in 1 .. n
          /\ place(i) = place(j) => i = j
          /\ place(i) < place(j) => Earlier(more, by, i, j)
      BY <1>2, <1>9, <2>1
    <3>2. /\ new(i) = IF place(i) >= k THEN place(i) + 1 ELSE place(i)
          /\ new(j) = IF place(j) >= k THEN place(j) + 1 ELSE place(j)
      BY <1>11, <2>1
    <3>3. (new(i) = new(j) => place(i) = place(j)) /\ (new(i) < new(j) => place(i) < place(j))
      BY <1>1, <1>6, <3>1, <3>2
    <3> QED
      BY <3>1, <3>3
  <2>2. CASE i \in 1 .. n /\ j = n + 1
    <3>1. place(i) \in 1 .. n /\ new(i) = (IF place(i) >= k THEN place(i) + 1 ELSE place(i)) /\ new(j) = k
      BY <1>2, <1>11, <2>2
    <3>2. new(i) # new(j) /\ (new(i) < new(j) => ~(place(i) >= k))
      BY <1>1, <1>6, <3>1
    <3>3. ~(place(i) >= k) => Earlier(more, by, i, j)
      BY <1>8, <1>9, <2>2
    <3> QED
      BY <3>2, <3>3
  <2>3. CASE i = n + 1 /\ j \in 1 .. n
    <3>1. place(j) \in 1 .. n /\ new(j) = (IF place(j) >= k THEN place(j) + 1 ELSE place(j)) /\ new(i) = k
      BY <1>2, <1>11, <2>3
    <3>2. new(i) # new(j) /\ (new(i) < new(j) => place(j) >= k)
      BY <1>1, <1>6, <3>1
    <3>3. place(j) >= k => Earlier(more, by, i, j)
      BY <1>8, <1>9, <2>3
    <3> QED
      BY <3>2, <3>3
  <2>4. CASE i = n + 1 /\ j = n + 1
    BY <1>6, <1>11, <2>4
  <2> QED
    BY <1>12, <2>1, <2>2, <2>3, <2>4
<1>17. \A i \in 1 .. n + 1 : Sortable(more[i])
  BY <1>1, <1>3, <1>12
<1>18. Sorts(b, more, by)
  BY <1>3, <1>4, <1>13, <1>14, <1>15, <1>16, <1>17 DEF Sorts, S, new
<1> QED
  BY <1>5, <1>18 DEF more

(* The buffer is then what was asked for.                                  *)
LEMMA SortsStably ==
    ASSUME NEW queue, NEW came, NEW by, Sorts(queue, came, by)
    PROVE  IsStableSort(queue, came, by)
<1>1. came \in Seq(Range(came)) /\ DOMAIN came = 1 .. Len(came)
  BY DEF Sorts
<1> QED
  BY <1>1 DEF Sorts, IsStableSort, Place, Earlier

-----------------------------------------------------------------------------
(* The dates that reminders have are numbers.                              *)

(* NextTriggerDate: tasks too have a day as their next date.               *)
LEMMA NextTriggerDateIsADay ==
    ASSUME NEW o, NEW t, IsTrigger(t), t.rep # 0 => FullDate(t), NEW c, NEW start \in Nat
    PROVE  LET r == NextTriggerDate(o, t, c, start) IN r.date \in Int /\ r.next \in Nat
<1> DEFINE Right(r) == r.date \in Int /\ r.next \in Nat
           r == NextTriggerDate(o, t, c, start)
           from == ScanStart(o, t, start)
<1>1. Right(No(Expired))
  <2>1. No(Expired).date = Expired /\ No(Expired).next = 0
    BY DEF No
  <2> QED
    BY <2>1 DEF Expired
<1>2. Right(GetNextTriggerDate(o, t, start))
  BY NextDateIsRight
<1>3. Right(FromStart(o, t, from))
  <2>1. from \in Nat \cup {Failed}
    BY ScanStartsOnADay
  <2> HIDE DEF from
  <2> QED
    BY <2>1, FromStartIsRight
<1>4. r \in {GetNextTriggerDate(o, t, start), No(Expired), FromStart(o, t, from)}
  BY DEF NextTriggerDate
<1> HIDE DEF r, Right, from
<1>5. Right(r)
  BY <1>1, <1>2, <1>3, <1>4
<1> QED
  BY <1>5 DEF r, Right

\* What one attempt makes of the date found for a start of the scan.
TriedFrom(o, t, c, start, days, now, at, f) ==
    LET r == NextTriggerDate(o, t, c, at[2])
    IN  CASE r.date \in {Expired, Failed} -> r.date
          [] r.date >= 0 /\ MovedBack(t, r.date, start, days, now) ->
                IF r.next <= at[3] THEN Expired ELSE f[<<at[1] - 1, at[2] + 1, r.next>>]
          [] OTHER ->
                IF r.date + days >= start /\ ~SkippedDate(o, t, r.date) THEN r.date
                ELSE IF IsSimple(t) \/ NextStart(o, t, r, at[2]) <= at[2] THEN Expired
                ELSE f[<<at[1] - 1, NextStart(o, t, r, at[2]), at[3]>>]

ScansFrom(o, t, c, start, days, now, f) ==
    f = [at \in (0 .. TRIG_ATTEMPTS) \X Nat \X Nat |->
            IF at[1] = 0 THEN Failed ELSE TriedFrom(o, t, c, start, days, now, at, f)]

(* ComputeTriggerNoAdjustDuration returns a date, or that there is none.   *)
LEMMA ComputesADate ==
    ASSUME NEW o, NEW t, IsRem(t), NEW c, NEW start \in Int, NEW days \in Nat, NEW now
    PROVE  ComputeTriggerNoAdjustDuration(o, t, c, start, days, now) \in Int
<1> DEFINE N == TRIG_ATTEMPTS
           D == Nat \X Nat
           S == [D -> Int]
           none == [q \in D |-> Failed]
           r(n) == NextTriggerDate(o, t, c, n)
           Onward(n) == NextStart(o, t, r(n), n)
           At(n, latest, F) ==
               CASE r(n).date \in {Expired, Failed} -> r(n).date
                 [] r(n).date >= 0 /\ MovedBack(t, r(n).date, start, days, now) ->
                       IF r(n).next <= latest THEN Expired ELSE F[<<n + 1, r(n).next>>]
                 [] OTHER ->
                       IF r(n).date + days >= start /\ ~SkippedDate(o, t, r(n).date) THEN r(n).date
                       ELSE IF IsSimple(t) \/ Onward(n) <= n THEN Expired
                       ELSE F[<<Onward(n), latest>>]
           step == [p \in (1 .. N) \X S |-> [q \in D |-> At(q[1], q[2], p[2])]]
           scan == CHOOSE f : ScansFrom(o, t, c, start, days, now, f)
           date == ComputeTriggerNoAdjustDuration(o, t, c, start, days, now)
<1>1. N \in Nat
  BY TriggersAssumption
<1>2. CASE ~(Computable(o, t) /\ start - days >= 0)
  <2>1. date = Failed
    BY <1>2, Zenon DEF ComputeTriggerNoAdjustDuration
  <2> QED
    BY <2>1 DEF Failed
<1>3. CASE Computable(o, t) /\ start - days >= 0
  <2>1. \A n \in Nat : r(n).date \in Int /\ r(n).next \in Nat /\ Onward(n) \in Nat
    <3> TAKE n \in Nat
    <3>1. IsTrigger(t) /\ (t.rep # 0 => FullDate(t))
      BY <1>3 DEF Computable, IsRem
    <3>2. r(n).date \in Int /\ r(n).next \in Nat
      BY <3>1, NextTriggerDateIsADay
    <3> HIDE DEF r
    <3>3. NextStart(o, t, r(n), n) \in Nat
      BY <3>2 DEF NextStart
    <3> QED
      BY <3>2, <3>3
  <2> HIDE DEF r, Onward
  <2>2. none \in S /\ step \in [(1 .. N) \X S -> S]
    <3>1. \A n \in Nat, latest \in Nat, F \in S : At(n, latest, F) \in Int
      <4> TAKE n \in Nat, latest \in Nat, F \in S
      <4>1. r(n).date \in Int /\ r(n).next \in Nat /\ Onward(n) \in Nat
        BY <2>1
      <4>2. F[<<n + 1, r(n).next>>] \in Int /\ F[<<Onward(n), latest>>] \in Int
        BY <4>1
      <4>3. At(n, latest, F) \in {r(n).date, Expired, F[<<n + 1, r(n).next>>], F[<<Onward(n), latest>>]}
        BY DEF Expired, Failed
      <4> HIDE DEF At
      <4> QED
        BY <4>1, <4>2, <4>3 DEF Expired
    <3> HIDE DEF At
    <3>2. \A F \in S : [q \in D |-> At(q[1], q[2], F)] \in S
      <4> TAKE F \in S
      <4>1. \A q \in D : At(q[1], q[2], F) \in Int
        BY <3>1
      <4> HIDE DEF D
      <4> QED
        BY <4>1
    <3> HIDE DEF S, D
    <3>3. step \in [(1 .. N) \X S -> S]
      BY <3>2
    <3> QED
      BY <3>3 DEF S, Failed
  <2> HIDE DEF At
  <2>3. PICK f : Computes(f, N, S, none, step)
    <3> HIDE DEF N, S, none, step
    <3> QED
      BY <1>1, <2>2, LoopComputes, Zenon
  <2>4. f \in [0 .. N -> S] /\ f[0] = none /\ \A i \in 1 .. N : f[i] = [q \in D |-> At(q[1], q[2], f[i - 1])]
    <3>1. f \in [0 .. N -> S] /\ f[0] = none /\ \A i \in 1 .. N : f[i] = step[<<i, f[i - 1]>>]
      BY <2>3, Zenon DEF Computes
    <3>2. \A i \in 1 .. N : f[i - 1] \in S
      <4> HIDE DEF S, N
      <4>1. \A i \in 1 .. N : i - 1 \in 0 .. N
        BY <1>1
      <4> QED
        BY <3>1, <4>1
    <3> HIDE DEF S
    <3>3. \A i \in 1 .. N : step[<<i, f[i - 1]>>] = [q \in D |-> At(q[1], q[2], f[i - 1])]
      BY <3>2
    <3> QED
      BY <3>1, <3>3
  <2> DEFINE E == (0 .. N) \X Nat \X Nat
             g == [at \in E |-> f[at[1]][<<at[2], at[3]>>]]
  <2>5. \A i \in 0 .. N, n \in Nat, latest \in Nat : g[<<i, n, latest>>] = f[i][<<n, latest>>]
    <3> TAKE i \in 0 .. N, n \in Nat, latest \in Nat
    <3>1. <<i, n, latest>> \in E
      OBVIOUS
    <3> DEFINE x == <<i, n, latest>>
    <3>2. x[1] = i /\ x[2] = n /\ x[3] = latest
      OBVIOUS
    <3>3. g[x] = f[x[1]][<<x[2], x[3]>>]
      <4> HIDE DEF x, E
      <4> QED
        BY <3>1 DEF x
    <3> QED
      BY <3>2, <3>3
  <2>6. ScansFrom(o, t, c, start, days, now, g)
    <3>1. ASSUME NEW at \in E
          PROVE  f[at[1]][<<at[2], at[3]>>] =
                   IF at[1] = 0 THEN Failed ELSE TriedFrom(o, t, c, start, days, now, at, g)
      <4> DEFINE i == at[1]
                 n == at[2]
                 latest == at[3]
      <4>1. i \in 0 .. N /\ n \in Nat /\ latest \in Nat
        OBVIOUS
      <4> HIDE DEF g, E
      <4>2. CASE i = 0
        BY <2>4, <4>1, <4>2
      <4>3. CASE i # 0
        <5>1. i \in 1 .. N /\ i - 1 \in 0 .. N
          BY <1>1, <4>1, <4>3
        <5>2. f[i][<<n, latest>>] = At(n, latest, f[i - 1])
          <6> HIDE DEF i, n, latest
          <6>1. f[i] = [q \in D |-> At(q[1], q[2], f[i - 1])]
            BY <2>4, <5>1, Zenon
          <6>2. <<n, latest>> \in D /\ <<n, latest>>[1] = n /\ <<n, latest>>[2] = latest
            BY <4>1
          <6> DEFINE q0 == <<n, latest>>
          <6>3. f[i][q0] = At(q0[1], q0[2], f[i - 1])
            <7> HIDE DEF q0, D
            <7> QED
              BY <6>1, <6>2 DEF q0
          <6> QED
            BY <6>2, <6>3
        <5>3. n + 1 \in Nat /\ r(n).next \in Nat /\ Onward(n) \in Nat
          BY <2>1, <4>1
        <5>4. /\ g[<<i - 1, n + 1, r(n).next>>] = f[i - 1][<<n + 1, r(n).next>>]
              /\ g[<<i - 1, Onward(n), latest>>] = f[i - 1][<<Onward(n), latest>>]
          <6> HIDE DEF i, n, latest
          <6> QED
            BY <2>5, <4>1, <5>1, <5>3
        <5> HIDE DEF i, n, latest
        <5>5. TriedFrom(o, t, c, start, days, now, at, g) = At(n, latest, f[i - 1])
          BY <5>4, Zenon DEF TriedFrom, At, Onward, r, i, n, latest
        <5> QED
          BY <4>3, <5>2, <5>5 DEF i, n, latest
      <4> QED
        BY <4>2, <4>3
    <3> DEFINE h == [at \in E |-> IF at[1] = 0 THEN Failed ELSE TriedFrom(o, t, c, start, days, now, at, g)]
    <3>2. g = h
      <4> DEFINE u(at) == f[at[1]][<<at[2], at[3]>>]
                 v(at) == IF at[1] = 0 THEN Failed ELSE TriedFrom(o, t, c, start, days, now, at, g)
      <4>1. \A at \in E : u(at) = v(at)
        BY <3>1
      <4>2. g = [at \in E |-> u(at)] /\ h = [at \in E |-> v(at)]
        BY Zenon
      <4> HIDE DEF u, v, g, h, E
      <4> QED
        BY <4>1, <4>2
    <3> QED
      BY <3>2, Zenon DEF ScansFrom
  <2>7. ScansFrom(o, t, c, start, days, now, scan)
    <3> HIDE DEF g
    <3> QED
      BY <2>6, Zenon
  <2>8. date = scan[<<N, start - days, 0>>]
    <3>1. scan = CHOOSE f_1 : f_1 = [at \in (0 .. TRIG_ATTEMPTS) \X Nat \X Nat |->
                     IF at[1] = 0 THEN Failed ELSE TriedFrom(o, t, c, start, days, now, at, f_1)]
      BY Zenon DEF ScansFrom
    <3> QED
      BY <1>3, <3>1, Zenon DEF ComputeTriggerNoAdjustDuration, TriedFrom
  <2> HIDE DEF scan, date
  <2> DEFINE Done == {i \in Nat : \A n, latest \in Nat : scan[<<i, n, latest>>] \in Int}
  <2>9. \A i \in 0 .. N, n, latest \in Nat :
           scan[<<i, n, latest>>] = IF i = 0 THEN Failed
                                  ELSE TriedFrom(o, t, c, start, days, now, <<i, n, latest>>, scan)
    <3>1. \A i \in 0 .. N, n, latest \in Nat : <<i, n, latest>> \in E /\ <<i, n, latest>>[1] = i
      OBVIOUS
    <3> HIDE DEF E
    <3>2. \A at \in E : scan[at] = IF at[1] = 0 THEN Failed ELSE TriedFrom(o, t, c, start, days, now, at, scan)
      BY <2>7, Zenon DEF ScansFrom, E
    <3> QED
      BY <3>1, <3>2
  <2>10. 0 \in Done
    BY <1>1, <2>9 DEF Failed
  <2>11. ASSUME NEW i \in 1 .. N, i - 1 \in Done PROVE i \in Done
    <3> SUFFICES ASSUME NEW n \in Nat, NEW latest \in Nat PROVE scan[<<i, n, latest>>] \in Int
      BY <1>1
    <3>1. i \in 0 .. N /\ i # 0
      BY <1>1
    <3> DEFINE at == <<i, n, latest>>
    <3>2. at[1] = i /\ at[2] = n /\ at[3] = latest
      OBVIOUS
    <3>3. scan[at] = TriedFrom(o, t, c, start, days, now, at, scan)
      BY <2>9, <3>1
    <3>4. r(n).date \in Int /\ n + 1 \in Nat /\ r(n).next \in Nat /\ Onward(n) \in Nat
      BY <2>1
    <3>5. scan[<<i - 1, n + 1, r(n).next>>] \in Int /\ scan[<<i - 1, Onward(n), latest>>] \in Int
      BY <2>11, <3>4
    <3> HIDE DEF at
    <3>6. scan[at] \in {r(n).date, Expired, scan[<<i - 1, n + 1, r(n).next>>], scan[<<i - 1, Onward(n), latest>>]}
      BY <3>2, <3>3 DEF TriedFrom, r, Onward
    <3> HIDE DEF Done
    <3>7. scan[at] \in Int
      BY <3>4, <3>5, <3>6 DEF Expired
    <3> QED
      BY <3>7 DEF at
  <2> HIDE DEF Done
  <2>12. 0 .. N \subseteq Done
    BY <1>1, <2>10, <2>11, UpTo
  <2>13. N \in Done /\ start - days \in Nat /\ 0 \in Nat
    BY <1>1, <1>3, <2>12
  <2> QED
    BY <2>8, <2>13 DEF Done, date
<1> QED
  BY <1>2, <1>3

(* ... and so does ComputeTrigger, for the first day of the event or a     *)
(* later one.                                                              *)
LEMMA ComputesTheDate ==
    ASSUME NEW o, NEW t, IsRem(t), NEW c, NEW start \in Int, NEW now
    PROVE  ComputeDate(o, t, c, start, now) \in Int
<1> DEFINE dates == [days \in {0, t.duration_days} |-> ComputeTriggerNoAdjustDuration(o, t, c, start, days, now)]
<1>1. \A days \in {0, t.duration_days} : days \in Nat
  BY DEF IsRem
<1>2. \A days \in {0, t.duration_days} : dates[days] \in Int
  BY <1>1, ComputesADate
<1> HIDE DEF dates
<1>3. FromOrBegun(dates, t, start) \in Int
  BY <1>2 DEF FromOrBegun
<1> QED
  BY <1>3 DEF ComputeDate, dates

\* What DoSatRemind makes of the date found from a day on.
Satisfied(o, t, c, now, at, f) ==
    LET date == ComputeDate(o, t, c, at[2], now)
    IN  IF date = Failed /\ Computable(o, t) /\ at[2] >= t.duration_days THEN GivenUp
        ELSE IF date \in {Expired, Failed} \/ date % 7 \in t.sat THEN date
        ELSE f[<<at[1] - 1, IF date + t.duration_days < at[2] THEN at[2] + 1 ELSE date + t.duration_days + 1>>]

Satisfies(o, t, c, now, f) ==
    f = [at \in (0 .. MaxSatIter) \X Int |-> IF at[1] = 0 THEN Failed ELSE Satisfied(o, t, c, now, at, f)]

(* DoSatRemind too returns a date, or that there is none.                  *)
LEMMA SatisfiesOnADate ==
    ASSUME NEW o, NEW t, IsRem(t), NEW c, NEW start \in Int, NEW now
    PROVE  DoSatRemind(o, t, c, start, now) \in Int
<1> DEFINE N == MaxSatIter
           S == [Int -> Int]
           none == [n \in Int |-> Failed]
           date(n) == ComputeDate(o, t, c, n, now)
           Onward(n) == IF date(n) + t.duration_days < n THEN n + 1 ELSE date(n) + t.duration_days + 1
           At(n, F) == IF date(n) = Failed /\ Computable(o, t) /\ n >= t.duration_days THEN GivenUp
                       ELSE IF date(n) \in {Expired, Failed} \/ date(n) % 7 \in t.sat THEN date(n)
                       ELSE F[Onward(n)]
           step == [p \in (1 .. N) \X S |-> [n \in Int |-> At(n, p[2])]]
           search == CHOOSE f : Satisfies(o, t, c, now, f)
<1>1. N \in Nat
  BY TriggersAssumption
<1>2. \A n \in Int : date(n) \in Int /\ Onward(n) \in Int
  <2> TAKE n \in Int
  <2>1. date(n) \in Int /\ t.duration_days \in Int
    BY ComputesTheDate DEF IsRem
  <2> HIDE DEF date
  <2> QED
    BY <2>1
<1> HIDE DEF date, Onward
<1>3. none \in S /\ step \in [(1 .. N) \X S -> S]
  <2>1. \A n \in Int, F \in S : At(n, F) \in Int
    BY <1>2 DEF GivenUp
  <2> HIDE DEF At
  <2>2. \A F \in S : [n \in Int |-> At(n, F)] \in S
    BY <2>1
  <2> HIDE DEF S
  <2>3. step \in [(1 .. N) \X S -> S]
    BY <2>2
  <2> QED
    BY <2>3 DEF S, Failed
<1> HIDE DEF At
<1>4. PICK f : Computes(f, N, S, none, step)
  <2> HIDE DEF N, S, none, step
  <2> QED
    BY <1>1, <1>3, LoopComputes, Zenon
<1>5. f \in [0 .. N -> S] /\ f[0] = none /\ \A i \in 1 .. N : f[i] = [n \in Int |-> At(n, f[i - 1])]
  <2>1. f \in [0 .. N -> S] /\ f[0] = none /\ \A i \in 1 .. N : f[i] = step[<<i, f[i - 1]>>]
    BY <1>4, Zenon DEF Computes
  <2>2. \A i \in 1 .. N : f[i - 1] \in S
    <3> HIDE DEF S, N
    <3>1. \A i \in 1 .. N : i - 1 \in 0 .. N
      BY <1>1
    <3> QED
      BY <2>1, <3>1
  <2> HIDE DEF S
  <2>3. \A i \in 1 .. N : step[<<i, f[i - 1]>>] = [n \in Int |-> At(n, f[i - 1])]
    BY <2>2
  <2> QED
    BY <2>1, <2>3
<1> DEFINE E == (0 .. N) \X Int
           g == [at \in E |-> f[at[1]][at[2]]]
<1>6. \A i \in 0 .. N, n \in Int : g[<<i, n>>] = f[i][n]
  <2> TAKE i \in 0 .. N, n \in Int
  <2> DEFINE x == <<i, n>>
  <2>1. x \in E /\ x[1] = i /\ x[2] = n
    OBVIOUS
  <2>2. g[x] = f[x[1]][x[2]]
    <3> HIDE DEF x, E
    <3> QED
      BY <2>1
  <2> QED
    BY <2>1, <2>2
<1>7. Satisfies(o, t, c, now, g)
  <2>1. ASSUME NEW at \in E
        PROVE  f[at[1]][at[2]] = IF at[1] = 0 THEN Failed ELSE Satisfied(o, t, c, now, at, g)
    <3> DEFINE i == at[1]
               n == at[2]
    <3>1. i \in 0 .. N /\ n \in Int
      OBVIOUS
    <3> HIDE DEF g, E
    <3>2. CASE i = 0
      BY <1>5, <3>1, <3>2
    <3>3. CASE i # 0
      <4>1. i \in 1 .. N /\ i - 1 \in 0 .. N
        BY <1>1, <3>1, <3>3
      <4>2. f[i][n] = At(n, f[i - 1])
        <5> HIDE DEF i, n, S
        <5>1. f[i] = [k \in Int |-> At(k, f[i - 1])] /\ n \in Int
          BY <1>5, <3>1, <4>1, Zenon
        <5> QED
          BY <5>1
      <4>3. g[<<i - 1, Onward(n)>>] = f[i - 1][Onward(n)]
        <5> HIDE DEF i, n
        <5> QED
          BY <1>2, <1>6, <3>1, <4>1
      <4> HIDE DEF i, n
      <4>4. Satisfied(o, t, c, now, at, g) = At(n, f[i - 1])
        BY <4>3, Zenon DEF Satisfied, At, Onward, date, i, n
      <4> QED
        BY <3>3, <4>2, <4>4 DEF i, n
    <3> QED
      BY <3>2, <3>3
  <2> DEFINE u(at) == f[at[1]][at[2]]
             v(at) == IF at[1] = 0 THEN Failed ELSE Satisfied(o, t, c, now, at, g)
             h == [at \in E |-> v(at)]
  <2>2. \A at \in E : u(at) = v(at)
    BY <2>1
  <2>3. g = [at \in E |-> u(at)]
    BY Zenon
  <2>4. g = h
    <3> HIDE DEF u, v, g, E
    <3> QED
      BY <2>2, <2>3
  <2> QED
    BY <2>4, Zenon DEF Satisfies
<1>8. Satisfies(o, t, c, now, search)
  <2> HIDE DEF g
  <2> QED
    BY <1>7, Zenon
<1>9. DoSatRemind(o, t, c, start, now) = search[<<N, start>>]
  <2>1. search = CHOOSE f_1 : f_1 = [at \in (0 .. MaxSatIter) \X Int |->
                     IF at[1] = 0 THEN Failed ELSE Satisfied(o, t, c, now, at, f_1)]
    BY Zenon DEF Satisfies
  <2> QED
    BY <2>1, Zenon DEF DoSatRemind, Satisfied
<1> HIDE DEF search
<1> DEFINE Done == {i \in Nat : \A n \in Int : search[<<i, n>>] \in Int}
<1>10. \A i \in 0 .. N, n \in Int :
          search[<<i, n>>] = IF i = 0 THEN Failed ELSE Satisfied(o, t, c, now, <<i, n>>, search)
  <2>1. \A i \in 0 .. N, n \in Int : <<i, n>> \in E /\ <<i, n>>[1] = i
    OBVIOUS
  <2> HIDE DEF E
  <2>2. \A at \in E : search[at] = IF at[1] = 0 THEN Failed ELSE Satisfied(o, t, c, now, at, search)
    BY <1>8, Zenon DEF Satisfies, E
  <2> QED
    BY <2>1, <2>2
<1>11. 0 \in Done
  BY <1>1, <1>10 DEF Failed
<1>12. ASSUME NEW i \in 1 .. N, i - 1 \in Done PROVE i \in Done
  <2> SUFFICES ASSUME NEW n \in Int PROVE search[<<i, n>>] \in Int
    BY <1>1
  <2>1. i \in 0 .. N /\ i # 0
    BY <1>1
  <2> DEFINE at == <<i, n>>
  <2>2. at[1] = i /\ at[2] = n
    OBVIOUS
  <2>3. search[at] = Satisfied(o, t, c, now, at, search)
    BY <1>10, <2>1
  <2>4. date(n) \in Int /\ Onward(n) \in Int
    BY <1>2
  <2>5. search[<<i - 1, Onward(n)>>] \in Int
    BY <1>12, <2>4
  <2> HIDE DEF at
  <2>6. search[at] \in {GivenUp, date(n), search[<<i - 1, Onward(n)>>]}
    BY <2>2, <2>3 DEF Satisfied, date, Onward
  <2> HIDE DEF Done
  <2>7. search[at] \in Int
    BY <2>4, <2>5, <2>6 DEF GivenUp
  <2> QED
    BY <2>7 DEF at
<1> HIDE DEF Done
<1>13. 0 .. N \subseteq Done
  BY <1>1, <1>11, <1>12, UpTo
<1>14. N \in Done
  BY <1>1, <1>13
<1> QED
  BY <1>9, <1>14 DEF Done

(* A day from which to look for a date is a number (get_scanfrom).         *)
LEMMA LooksFromADay ==
    ASSUME NEW t, IsRem(t), NEW c \in Int, NEW day \in Int
    PROVE  get_scanfrom(t, c, day) \in Int
<1>1. t.from \in Int /\ t.scanfrom \in Int
  BY DEF IsRem
<1>2. get_raw_scanfrom(t, day) \in Int
  BY <1>1 DEF get_raw_scanfrom
<1>3. \A d \in Int : NotComplete(c, d) \in Int
  BY DEF NotComplete
<1> DEFINE raw == get_raw_scanfrom(t, day)
<1>4. get_scanfrom(t, c, day) \in {NotComplete(c, t.from), NotComplete(c, raw), c + 1, 0, day}
  BY DEF get_scanfrom
<1> HIDE DEF raw
<1> QED
  BY <1>1, <1>2, <1>3, <1>4 DEF raw

(* The date and time a reminder has on a day are numbers (DoRem).          *)
LEMMA TriggerIsADate ==
    ASSUME NEW o, NEW t, IsRem(t), NEW c \in Int, NEW day \in Int
    PROVE  Trigger(o, t, c, day).date \in Int /\ Trigger(o, t, c, day).time \in Int
<1> DEFINE start == get_scanfrom(t, c, EnterTimezone(t, day))
           date == IF t.sat = {} THEN ComputeDate(o, t, c, start, day) ELSE DoSatRemind(o, t, c, start, day)
           at == AdjustTriggerForDuration(start, date, t)
           ours == AdjustTriggerForTimeZone(t, at)
<1>1. t.ttime \in Int /\ t.offset \in Int
  BY DEF IsRem
<1>2. EnterTimezone(t, day) \in Int
  BY DEF EnterTimezone
<1>3. start \in Int
  BY <1>2, LooksFromADay
<1> HIDE DEF start
<1>4. date \in Int
  BY <1>3, ComputesTheDate, SatisfiesOnADate
<1> HIDE DEF date
<1>5. at.date \in Int /\ at.time \in Int
  BY <1>1, <1>3, <1>4 DEF AdjustTriggerForDuration
<1> HIDE DEF at
<1>6. ours.date \in Int /\ ours.time \in Int
  <2> DEFINE moment == MINUTES_PER_DAY * at.date + t.ttime - t.offset
  <2>1. moment \in Int
    BY <1>1, <1>5 DEF MINUTES_PER_DAY
  <2>2. ours = at \/ ours = [date |-> moment \div MINUTES_PER_DAY, time |-> moment % MINUTES_PER_DAY]
    BY Zenon DEF AdjustTriggerForTimeZone
  <2> HIDE DEF moment, ours
  <2>3. moment \div MINUTES_PER_DAY \in Int /\ moment % MINUTES_PER_DAY \in Int
    BY <2>1 DEF MINUTES_PER_DAY
  <2> QED
    BY <1>5, <2>2, <2>3
<1>7. Trigger(o, t, c, day) = [date |-> ours.date, time |-> ours.time,
                               expired |-> at.date = Expired, failed |-> at.date \in {Failed, GivenUp}]
  BY Zenon DEF Trigger, TriggerFrom, Outcome, start, date, at
<1> HIDE DEF ours
<1> QED
  BY <1>6, <1>7

-----------------------------------------------------------------------------
(* The invariant of the sort buffer. *)

IsSorting(opt) == opt.sort # <<>> /\ ~opt.NextMode

\* What came can be sorted ...
SortableCame == \A k \in DOMAIN run.came : Sortable(run.came[k])

\* ... and is, in the buffer while the file is read and in what is issued in the end.
BufferSorted ==
    run.mode # "none" /\ IsSorting(run.opt) =>
        /\ run.mode = "reading" => run.out = <<>> /\ Sorts(run.sorted, run.came, run.opt.sort[1])
        /\ run.mode = "over" => Sorts(run.out, run.came, run.opt.sort[1])

SortInv ==
    /\ IsRun(run) /\ run.mode \in {"none", "reading", "over"}
    /\ today \in Int
    /\ complete = [name \in DOMAIN Rem |-> complete[name]] /\ \A name \in DOMAIN Rem : complete[name] \in Int
    /\ run.mode # "none" => run.opt \in Options
    /\ IsSequence(run.came) /\ SortableCame /\ BufferSorted

(* An empty buffer is sorted.                                              *)
LEMMA EmptySorts == \A by : Sorts(<<>>, <<>>, by)
<1> TAKE by
<1>1. Len(<<>>) = 0 /\ Range(<<>>) = {} /\ 1 .. 0 = {} /\ <<>> \in Seq({})
  BY DEF Range
<1> QED
  BY <1>1 DEF Sorts

(* A reminder more in the buffer.                                          *)
LEMMA EmptyCame ==
    ASSUME NEW r, r.came = <<>>
    PROVE  IsSequence(r.came) /\ \A k \in DOMAIN r.came : Sortable(r.came[k])
<1>1. Range(<<>>) = {} /\ <<>> \in Seq({}) /\ DOMAIN <<>> = {}
  BY DEF Range
<1> QED
  BY <1>1 DEF IsSequence

\* As far as the buffer goes a line does nothing, or a reminder comes.
Untouched(r, s) == s.mode = r.mode /\ s.opt = r.opt /\ s.came = r.came /\ s.sorted = r.sorted /\ s.out = r.out

Comes(r, s, rem) ==
    /\ s.mode = r.mode /\ s.opt = r.opt /\ s.came = Append(r.came, rem)
    /\ IsSorting(r.opt) => /\ s.sorted = InsertIntoSortBuffer(r.sorted, rem, r.opt.sort[1])
                           /\ s.out = r.out

(* TriggerReminder, as far as the buffer goes.                             *)
LEMMA TriggeredComes ==
    ASSUME NEW r, IsRun(r), NEW l, NEW t, NEW d
    PROVE  LET s == TriggerReminder(r, l, t, d)
           IN  IsRun(s) /\ (Untouched(r, s) \/ Comes(r, s, Issued(l, t, d)))
<1> DEFINE rem    == Issued(l, t, d)
           banner == r.DidMsgReminder \/ (IsMessage(t) /\ ~r.opt.NextMode)
           came   == Append(r.came, rem)
           out    == Append(r.out, rem)
           sorted == InsertIntoSortBuffer(r.sorted, rem, r.opt.sort[1])
           s      == TriggerReminder(r, l, t, d)
<1>1. \/ s = r
      \/ s = [r EXCEPT !.DidMsgReminder = banner]
      \/ s = [r EXCEPT !.DidMsgReminder = banner, !.came = came, !.sorted = sorted]
      \/ s = [r EXCEPT !.DidMsgReminder = banner, !.came = came, !.out = out] /\ ~IsSorting(r.opt)
  BY DEF TriggerReminder, IsSorting
<1> HIDE DEF rem, banner, came, out, sorted, s
<1>2. /\ IsRun(s) /\ s.mode = r.mode /\ s.opt = r.opt
      /\ \/ s.came = r.came /\ s.sorted = r.sorted /\ s.out = r.out
         \/ s.came = came /\ s.sorted = sorted /\ s.out = r.out
         \/ s.came = came /\ ~IsSorting(r.opt)
  BY <1>1 DEF IsRun
<1> QED
  BY <1>2 DEF Untouched, Comes, s, came, sorted, rem

(* A line that only adds to the purged file (Purging, PurgeLine).          *)
LEMMA SilentLineTouchesNothing ==
    ASSUME IsRun(run), NEW omits, NEW purged,
           \/ run' = NextLine([run EXCEPT !.purged = purged])
           \/ run' = NextLine([run EXCEPT !.omits = omits, !.purged = purged])
    PROVE  IsRun(run') /\ Untouched(run, run')
<1> DEFINE s1 == [run EXCEPT !.purged = purged]
           s2 == [run EXCEPT !.omits = omits, !.purged = purged]
<1>1. IsRun(s1) /\ Untouched(run, s1) /\ IsRun(s2) /\ Untouched(run, s2)
  BY DEF IsRun, Untouched
<1> HIDE DEF s1, s2
<1>2. \A s : IsRun(s) => IsRun(NextLine(s)) /\ Untouched(s, NextLine(s))
  BY DEF IsRun, NextLine, Untouched
<1>3. run' = NextLine(s1) \/ run' = NextLine(s2)
  BY DEF s1, s2
<1> QED
  BY <1>1, <1>2, <1>3 DEF Untouched

(* A reminder that is neither refused nor purged (RemLine).                *)
LEMMA ReminderComes ==
    ASSUME NEW name, NEW l, l.name = name, NEW d, IsRun(run), RemLine(l, Rem[name], d)
    PROVE  IsRun(run') /\ (Untouched(run, run') \/ Comes(run, run', Issued(l, Rem[name], d)))
<1> DEFINE t      == Rem[name]
           once   == GetOnceDate(t)
           omits  == WithOmit(t, d)
           queued == IF ShouldQueueReminder(t, d, once, today, run.opt)
                     THEN run.queued \cup {name} ELSE run.queued
           ready  == MadeReady(run, omits, once, queued)
           issue  == ShouldIssue(omits, t, complete[name], d, once, today, run.opt)
           shown  == IF issue /\ ~todo_filtered(t, run.opt) THEN TriggerReminder(ready, l, t, d) ELSE ready
           rem    == Issued(l, t, d)
<1>1. run' = NextLine(shown)
  BY Zenon DEF RemLine, MadeReady
<1> HIDE DEF queued, omits, once
<1>2. IsRun(ready) /\ Untouched(run, ready)
  BY DEF MadeReady, IsRun, Untouched
<1> HIDE DEF ready, issue, t
<1>3. IsRun(shown) /\ (Untouched(ready, shown) \/ Comes(ready, shown, rem))
  <2>1. IsRun(ready) /\ Untouched(ready, ready)
    BY <1>2 DEF Untouched
  <2>2. IsRun(TriggerReminder(ready, l, t, d))
        /\ (Untouched(ready, TriggerReminder(ready, l, t, d)) \/ Comes(ready, TriggerReminder(ready, l, t, d), rem))
    BY <1>2, TriggeredComes
  <2> QED
    BY <2>1, <2>2
<1> HIDE DEF shown, rem
<1>4. IsRun(NextLine(shown)) /\ Untouched(shown, NextLine(shown))
  BY <1>3 DEF IsRun, NextLine, Untouched
<1>5. Untouched(run, run') \/ Comes(run, run', rem)
  BY <1>1, <1>2, <1>3, <1>4 DEF Untouched, Comes
<1> QED
  BY <1>1, <1>4, <1>5 DEF rem, t

(* What comes can be sorted: its date and time are numbers (Trigger).      *)
LEMMA IssuedIsSortable ==
    ASSUME NEW l, l.name \in DOMAIN Rem, today \in Int, complete[l.name] \in Int
    PROVE  Sortable(Issued(l, Rem[l.name], DateOf(l, Rem[l.name])))
<1> DEFINE t == Rem[l.name]
           d == DateOf(l, t)
<1>1. IsRem(t)
  BY RemAssumption
<1>2. d = Trigger(run.omits, t, complete[l.name], today)
  BY DEF DateOf
<1>3. d.date \in Int /\ d.time \in Int
  BY <1>1, <1>2, TriggerIsADate
<1>4. t.priority \in Int
  BY <1>1 DEF IsRem
<1> HIDE DEF d, t
<1>5. Sortable(Issued(l, t, d))
  BY <1>3, <1>4 DEF Issued, Sortable
<1> QED
  BY <1>5 DEF d, t

(* A line of the file (ReadLine).                                          *)
LEMMA LineComes ==
    ASSUME SortInv, ReadLine
    PROVE  IsRun(run') /\ (Untouched(run, run') \/ \E rem : Sortable(rem) /\ Comes(run, run', rem))
<1> DEFINE l == file[run.line]
           Right == IsRun(run') /\ (Untouched(run, run') \/ \E rem : Sortable(rem) /\ Comes(run, run', rem))
<1>1. IsRun(run) /\ today \in Int /\ \A name \in DOMAIN Rem : complete[name] \in Int
  BY DEF SortInv
<1>2. ASSUME NEW echo, Purging(echo) PROVE Right
  <2> DEFINE purged == run.purged \o echo
  <2>1. run' = NextLine([run EXCEPT !.purged = purged])
    BY <1>2 DEF Purging
  <2> HIDE DEF purged
  <2> QED
    BY <1>1, <2>1, SilentLineTouchesNothing
<1> HIDE DEF Right
<1>3. ASSUME OtherLine(l) PROVE Right
  BY <1>2, <1>3 DEF OtherLine
<1>4. ASSUME RefusedLine(l, Rem[l.name]) PROVE Right
  BY <1>2, <1>4 DEF RefusedLine
<1>5. ASSUME NEW d, NoDate(l, Rem[l.name], d) \/ NoRoom(l, Rem[l.name], d) PROVE Right
  BY <1>2, <1>5 DEF NoDate, NoRoom
<1>6. ASSUME NEW d, PurgeLine(l, Rem[l.name], d) PROVE Right
  <2>1. PICK omits, purged : run' = NextLine([run EXCEPT !.omits = omits, !.purged = purged])
    BY <1>6 DEF PurgeLine
  <2> QED
    BY <1>1, <2>1, SilentLineTouchesNothing DEF Right
<1>7. ASSUME l.name \in DOMAIN Rem, NEW d, d = DateOf(l, Rem[l.name]), RemLine(l, Rem[l.name], d) PROVE Right
  <2> DEFINE name == l.name
  <2>1. Sortable(Issued(l, Rem[name], d))
    BY <1>1, <1>7, IssuedIsSortable
  <2>2. RemLine(l, Rem[name], d) /\ l.name = name
    BY <1>7
  <2> HIDE DEF l, name
  <2>3. IsRun(run') /\ (Untouched(run, run') \/ Comes(run, run', Issued(l, Rem[name], d)))
    BY <1>1, <2>2, ReminderComes
  <2> QED
    BY <2>1, <2>3 DEF Right
<1>8. \/ OtherLine(l) \/ RefusedLine(l, Rem[l.name])
      \/ \E d : NoDate(l, Rem[l.name], d) \/ NoRoom(l, Rem[l.name], d)
      \/ \E d : PurgeLine(l, Rem[l.name], d)
      \/ l.name \in DOMAIN Rem /\ \E d : d = DateOf(l, Rem[l.name]) /\ RemLine(l, Rem[l.name], d)
  <2> HIDE DEF l
  <2>1. \/ OtherLine(l)
        \/ IsReminder(l) /\ RefusedLine(l, Rem[l.name])
        \/ IsReminder(l) /\ \E d \in {DateOf(l, Rem[l.name])} :
                                  \/ NoDate(l, Rem[l.name], d) \/ NoRoom(l, Rem[l.name], d)
                                  \/ PurgeLine(l, Rem[l.name], d) \/ RemLine(l, Rem[l.name], d)
    BY Zenon DEF ReadLine, l
  <2> QED
    BY Zenon, <2>1 DEF IsReminder
<1> HIDE DEF l
<1>9. Right
  BY Zenon, <1>3, <1>4, <1>5, <1>6, <1>7, <1>8
<1> QED
  BY <1>9 DEF Right

(* ... preserves the invariant: the reminder is put where it belongs.      *)
LEMMA LineSorts ==
    ASSUME SortInv, ReadLine
    PROVE  SortInv'
<1>1. run.mode = "reading" /\ UNCHANGED <<complete, today>>
  BY DEF ReadLine
<1>2. IsRun(run') /\ (Untouched(run, run') \/ \E rem : Sortable(rem) /\ Comes(run, run', rem))
  BY LineComes
<1>3. /\ run.opt \in Options /\ IsSequence(run.came) /\ \A k \in DOMAIN run.came : Sortable(run.came[k])
      /\ IsSorting(run.opt) => run.out = <<>> /\ Sorts(run.sorted, run.came, run.opt.sort[1])
  BY <1>1 DEF SortInv, SortableCame, BufferSorted
<1>4. run'.mode = "reading" /\ run'.opt = run.opt
  BY <1>1, <1>2 DEF Untouched, Comes
<1>5. /\ IsSequence(run'.came) /\ \A k \in DOMAIN run'.came : Sortable(run'.came[k])
      /\ IsSorting(run.opt) => run'.out = <<>> /\ Sorts(run'.sorted, run'.came, run.opt.sort[1])
  <2>1. CASE Untouched(run, run')
    BY <1>3, <2>1 DEF Untouched
  <2>2. ASSUME NEW rem, Sortable(rem), Comes(run, run', rem)
        PROVE  /\ IsSequence(run'.came) /\ \A k \in DOMAIN run'.came : Sortable(run'.came[k])
               /\ IsSorting(run.opt) => run'.out = <<>> /\ Sorts(run'.sorted, run'.came, run.opt.sort[1])
    <3>1. run'.came = Append(run.came, rem)
      BY <2>2 DEF Comes
    <3>2. IsSequence(run'.came) /\ Range(run'.came) = Range(run.came) \cup {rem}
      BY <1>3, <3>1, AppendAdds
    <3>3. \A k \in DOMAIN run'.came : Sortable(run'.came[k])
      <4>1. \A x \in Range(run.came) \cup {rem} : Sortable(x)
        BY <1>3, <2>2 DEF Range
      <4>2. \A k \in DOMAIN run'.came : run'.came[k] \in Range(run'.came)
        BY DEF Range
      <4> QED
        BY <3>2, <4>1, <4>2
    <3>4. ASSUME IsSorting(run.opt)
          PROVE  run'.out = <<>> /\ Sorts(run'.sorted, run'.came, run.opt.sort[1])
      <4> DEFINE by == run.opt.sort[1]
      <4>1. by \in Directions
        BY <1>3, <3>4, OptionsAssumption DEF IsSorting
      <4>2. run'.out = <<>> /\ run'.sorted = InsertIntoSortBuffer(run.sorted, rem, by)
        BY <1>3, <2>2, <3>4 DEF Comes
      <4>3. Sorts(run.sorted, run.came, by)
        BY <1>3, <3>4
      <4> HIDE DEF by
      <4>4. Sorts(InsertIntoSortBuffer(run.sorted, rem, by), Append(run.came, rem), by)
        BY <2>2, <4>1, <4>3, InsertSorts
      <4> QED
        BY <3>1, <4>2, <4>4 DEF by
    <3> QED
      BY <3>2, <3>3, <3>4
  <2> QED
    BY <1>2, <2>1, <2>2
<1>6. SortableCame' /\ BufferSorted'
  BY <1>4, <1>5 DEF SortableCame, BufferSorted
<1> QED
  BY <1>1, <1>2, <1>3, <1>4, <1>5, <1>6 DEF SortInv

(* When no run goes on there is nothing to sort.                           *)
LEMMA ResetSorts ==
    ASSUME run' = NoRun, today' \in Int, complete' = [name \in DOMAIN Rem |-> complete'[name]],
           \A name \in DOMAIN Rem : complete'[name] \in Int
    PROVE  SortInv'
<1>1. IsRun(run') /\ run'.mode = "none" /\ run'.came = <<>>
  BY NoRunShape DEF NoRun
<1>2. IsSequence(run'.came) /\ SortableCame'
  BY <1>1, EmptyCame DEF SortableCame
<1>3. BufferSorted'
  BY <1>1 DEF BufferSorted
<1> QED
  BY <1>1, <1>2, <1>3 DEF SortInv

(* Every step preserves the invariant, action by action (HNext).           *)
LEMMA NextSortInv == SortInv /\ [HNext]_hvars => SortInv'
<1> SUFFICES ASSUME SortInv, [HNext]_hvars PROVE SortInv'
  OBVIOUS
<1>0. /\ IsRun(run) /\ today \in Int /\ complete = [name \in DOMAIN Rem |-> complete[name]]
      /\ \A name \in DOMAIN Rem : complete[name] \in Int
      /\ IsSequence(run.came) /\ \A k \in DOMAIN run.came : Sortable(run.came[k])
  BY DEF SortInv, SortableCame
<1>1. ASSUME NEW opt \in Options, Start(opt) PROVE SortInv'
  <2> DEFINE once == IF OnceFile THEN -1 ELSE stamp
  <2>1. run' = [NoRun EXCEPT !.mode = "reading", !.opt = opt, !.OnceDate = once] /\ UNCHANGED <<complete, today>>
    BY <1>1 DEF Start
  <2> HIDE DEF once
  <2>2. /\ IsRun(run') /\ run'.mode = "reading" /\ run'.opt = opt
        /\ run'.came = <<>> /\ run'.sorted = <<>> /\ run'.out = <<>>
    BY <2>1 DEF NoRun, IsRun
  <2>3. IsSequence(run'.came) /\ SortableCame'
    BY <2>2, EmptyCame DEF SortableCame
  <2>4. BufferSorted'
    BY <2>2, EmptySorts DEF BufferSorted
  <2> QED
    BY <1>0, <2>1, <2>2, <2>3, <2>4 DEF SortInv
<1>2. CASE ReadLine
  BY <1>2, LineSorts
<1>3. CASE Finish
  <2> DEFINE out == run.out \o run.sorted
  <2>1. run.mode = "reading" /\ run' = [run EXCEPT !.mode = "over", !.out = out] /\ UNCHANGED <<complete, today>>
    BY <1>3 DEF Finish
  <2> HIDE DEF out
  <2>2. IsRun(run') /\ run'.mode = "over" /\ run'.opt = run.opt /\ run'.came = run.came /\ run'.out = out
    BY <1>0, <2>1 DEF IsRun
  <2>3. IsSorting(run.opt) => run.out = <<>> /\ Sorts(run.sorted, run.came, run.opt.sort[1])
    BY <2>1 DEF SortInv, BufferSorted
  <2>4. ASSUME IsSorting(run.opt) PROVE Sorts(out, run.came, run.opt.sort[1])
    <3>1. run.sorted \in Seq(Range(run.came)) /\ run.out = <<>>
      BY <2>3, <2>4 DEF Sorts
    <3>2. out = run.sorted
      BY <3>1 DEF out
    <3> QED
      BY <2>3, <2>4, <3>2
  <2>5. SortableCame' /\ BufferSorted'
    BY <1>0, <2>2, <2>4 DEF SortableCame, BufferSorted
  <2>6. run.opt \in Options
    BY <2>1 DEF SortInv
  <2> QED
    BY <1>0, <2>1, <2>2, <2>5, <2>6 DEF SortInv
<1>4. CASE Killed
  BY <1>0, <1>4, ResetSorts DEF Killed
<1>5. ASSUME NEW name \in DOMAIN Rem, Complete(name) PROVE SortInv'
  <2>1. PICK k \in DOMAIN run.came : complete' = [complete EXCEPT ![name] = run.came[k].date]
    BY <1>5 DEF Complete
  <2>2. run' = NoRun /\ today' = today
    BY <1>5 DEF Complete
  <2> DEFINE date == run.came[k].date
  <2>3. date \in Int
    BY <1>0 DEF Sortable
  <2> HIDE DEF date
  <2>4. complete' = [n \in DOMAIN Rem |-> IF n = name THEN date ELSE complete[n]]
    BY <1>0, <2>1 DEF date
  <2>5. /\ complete' = [n \in DOMAIN Rem |-> complete'[n]]
        /\ \A n \in DOMAIN Rem : complete'[n] \in Int
    BY <1>0, <2>3, <2>4
  <2> QED
    BY <1>0, <2>2, <2>5, ResetSorts
<1>6. CASE TakePurged
  BY <1>0, <1>6, ResetSorts DEF TakePurged
<1>7. CASE NextDayComes
  BY <1>0, <1>7, ResetSorts DEF NextDayComes
<1>8. CASE UNCHANGED hvars
  BY <1>8 DEF hvars, vars, SortInv, SortableCame, BufferSorted
<1> QED
  BY <1>1, <1>2, <1>3, <1>4, <1>5, <1>6, <1>7, <1>8 DEF HNext

(* At first no run goes on (HInit).                                        *)
LEMMA InitSortInv == HInit => SortInv
<1> SUFFICES ASSUME HInit PROVE SortInv
  OBVIOUS
<1>1. /\ run = NoRun /\ today = FirstDay /\ FirstDay \in Int
      /\ complete = [name \in DOMAIN Rem |-> NO_DATE]
  BY ReminderRunAssumption DEF HInit, Init
<1>2. /\ complete = [name \in DOMAIN Rem |-> complete[name]]
      /\ \A name \in DOMAIN Rem : complete[name] \in Int
  BY <1>1 DEF NO_DATE
<1>3. IsRun(run) /\ run.mode = "none" /\ run.came = <<>>
  BY <1>1, NoRunShape DEF NoRun
<1>4. IsSequence(run.came) /\ SortableCame
  BY <1>3, EmptyCame DEF SortableCame
<1>5. BufferSorted
  BY <1>3 DEF BufferSorted
<1> QED
  BY <1>1, <1>2, <1>3, <1>4, <1>5 DEF SortInv

(* With option -g a run issues its reminders in the order asked for, and   *)
(* those that are equal as they came, whatever the script, its triggers    *)
(* and the directions of the sort are (InsertIntoSortBuffer, CompareRems). *)
THEOREM IssuedInTheOrderAskedFor == HSpec => []SortedStably
<1>1. SortInv => SortedStably
  BY SortsStably DEF SortInv, BufferSorted, IsSorting, SortedStably, Over
<1> QED
  BY <1>1, InitSortInv, NextSortInv, PTL DEF HSpec
=============================================================================
