-------------------------- MODULE DailyRun_proofs --------------------------
(***************************************************************************)
(* Theorems about the runs of a script from day to day, for every set of   *)
(* scripts, whatever their OMIT contexts and triggers.                     *)
(*                                                                         *)
(* A search that gives up (Failed) says nothing of a date: some theorems   *)
(* are about runs whose searches succeed, [](promised # Failed).           *)
(***************************************************************************)
EXTENDS DailyRun, Triggers_proofs, TLAPS

\* Each run computes its date and its announcement from the script and the day.
DailyInvariant ==
    /\ script \in Scripts
    /\ today \in Nat /\ today >= script.first
    /\ promised = Computed(script, today)
    /\ announced = IsAnnounced(script, promised, today)

(* The invariant is inductive.                                             *)
LEMMA DailyInvariantHolds == Spec => []DailyInvariant
<1>1. Init => DailyInvariant
  <2> SUFFICES ASSUME Init PROVE DailyInvariant
    OBVIOUS
  <2>1. script \in Scripts /\ script.first \in Nat
    BY DailyRunAssumption DEF Init
  <2>2. today \in Nat /\ today >= script.first
    <3>1. today = script.first
      BY DEF Init
    <3> QED
      BY <2>1, <3>1
  <2> QED
    BY <2>1, <2>2 DEF Init, DailyInvariant
<1>2. DailyInvariant /\ [Next]_vars => DailyInvariant'
  <2> SUFFICES ASSUME DailyInvariant, [Next]_vars PROVE DailyInvariant'
    OBVIOUS
  <2>1. CASE UNCHANGED vars
    <3>1. script' = script /\ today' = today /\ promised' = promised /\ announced' = announced
      BY <2>1 DEF vars
    <3> QED
      BY <3>1, Zenon DEF DailyInvariant
  <2>2. CASE Run
    <3>1. /\ script' = script /\ today' = today + 1
          /\ promised' = Computed(script, today') /\ announced' = IsAnnounced(script, promised', today')
      BY <2>2, Zenon DEF Run
    <3>2. script \in Scripts /\ script.first \in Nat /\ today \in Nat /\ today >= script.first
      BY DailyRunAssumption, Zenon DEF DailyInvariant
    <3>3. today' \in Nat /\ today' >= script.first
      <4> DEFINE a == script.first
      <4>1. a \in Nat
        BY <3>2
      <4>2. today >= a
        BY <3>2
      <4> HIDE DEF a
      <4>3. today' >= a /\ today' \in Nat
        BY <3>1, <3>2, <4>1, <4>2
      <4> QED
        BY <4>3 DEF a
    <3> QED
      BY <3>1, <3>2, <3>3, Zenon DEF DailyInvariant
  <2> QED
    BY <2>1, <2>2 DEF Next
<1> QED
  BY <1>1, <1>2, PTL DEF Spec

-----------------------------------------------------------------------------
(* The dates that are promised. *)

\* What a run promises is a day on which the reminder occurs, from today on.
PromisesAnOccurrence ==
    promised \in {Expired, Failed}
    \/ (promised \in Nat /\ promised >= today /\ Occurs(script.omits, script.trig, promised))

\* No day on which it occurs comes before the one that is promised.
PromisesTheFirst ==
    promised # Failed =>
        \A z \in Nat : z >= today /\ Occurs(script.omits, script.trig, z) => promised # Expired /\ promised <= z

(* DoRem: on every day of every script the date is one on which the        *)
(* reminder occurs, and it is not over.                                    *)
THEOREM PromisesOccurrences == Spec => []PromisesAnOccurrence
<1>1. DailyInvariant => PromisesAnOccurrence
  <2> SUFFICES ASSUME DailyInvariant PROVE PromisesAnOccurrence
    OBVIOUS
  <2>1. IsTrigger(script.trig) /\ today \in Nat /\ promised = ComputeTrigger(script.omits, script.trig, today)
    BY DailyRunAssumption, Zenon DEF DailyInvariant, Computed
  <2> QED
    BY <2>1, ComputesOnlyOccurrences, Zenon DEF PromisesAnOccurrence
<1> QED
  BY <1>1, DailyInvariantHolds, PTL

(* What the scripts are that the other theorems are about: the code is not *)
(* known to diverge from the meaning of their triggers, and their first    *)
(* run is not among the first days of the calendar, where BACK may lead    *)
(* to a day before 1 January 1990.                                         *)
Regular == \A s \in Scripts : ~Diverges(s.trig) /\ s.first >= Reach(s.trig)

(* How far BACK reaches is a number of days.                               *)
LEMMA ReachIsNat ==
    ASSUME NEW t, t.back \in Int
    PROVE  Reach(t) \in Nat
<1> DEFINE b == t.back
<1>1. b \in Int /\ MaxSatIter \in Nat
  BY TriggersAssumption
<1>2. Reach(t) = IF b < 0 THEN -b ELSE IF b = 0 THEN 0 ELSE MaxSteps(b)
  BY Zenon DEF Reach
<1> HIDE DEF b
<1>3. b > 0 => MaxSteps(b) \in Nat
  BY <1>1 DEF MaxSteps
<1> QED
  BY <1>1, <1>2, <1>3

(* No run of a regular script skips a day.                                 *)
LEMMA FirstIsPromised ==
    ASSUME Regular, DailyInvariant
    PROVE  PromisesTheFirst
<1>1. /\ IsTrigger(script.trig) /\ ~Diverges(script.trig) /\ today \in Nat
      /\ promised = ComputeTrigger(script.omits, script.trig, today)
  BY DailyRunAssumption, Zenon DEF DailyInvariant, Computed, Regular
<1>2. today >= Reach(script.trig)
  <2> DEFINE a == script.first
             r == Reach(script.trig)
  <2>1. a \in Nat /\ a >= r /\ today \in Nat /\ today >= a
    BY DailyRunAssumption, Zenon DEF DailyInvariant, Regular
  <2>2. r \in Nat
    BY <1>1, ReachIsNat, Zenon DEF IsTrigger
  <2> HIDE DEF a, r
  <2>3. today >= r
    BY <2>1, <2>2
  <2> QED
    BY <2>3 DEF r
<1> QED
  BY <1>1, <1>2, ComputesTheFirst, Zenon DEF PromisesTheFirst

(* The date that a run computes is the first day, from today on, on which  *)
(* the reminder occurs; if there is none the reminder has expired.         *)
THEOREM PromisesTheFirstDay ==
    ASSUME Regular
    PROVE  Spec => []PromisesTheFirst
<1>1. DailyInvariant => PromisesTheFirst
  BY FirstIsPromised
<1> QED
  BY <1>1, DailyInvariantHolds, PTL

(* A reminder triggers on the very days that satisfy its specification:    *)
(* on every run whose search succeeds, for every regular script.           *)
THEOREM TriggersUnlessFailed ==
    ASSUME Regular
    PROVE  Spec => [](promised # Failed => TriggersOnTheDay)
<1>1. PromisesTheFirst /\ PromisesAnOccurrence /\ DailyInvariant => (promised # Failed => TriggersOnTheDay)
  <2> SUFFICES ASSUME PromisesTheFirst, PromisesAnOccurrence, DailyInvariant, promised # Failed
               PROVE  TriggersOnTheDay
    OBVIOUS
  <2>1. today \in Nat /\ today \notin {Expired, Failed} /\ today >= today
    <3>1. today \in Nat
      BY DEF DailyInvariant
    <3> QED
      BY <3>1 DEF Expired, Failed
  <2>2. ASSUME promised = today
        PROVE  Occurs(script.omits, script.trig, today)
    BY <2>1, <2>2, Zenon DEF PromisesAnOccurrence
  <2>3. ASSUME Occurs(script.omits, script.trig, today)
        PROVE  promised = today
    <3>1. promised # Expired /\ promised <= today
      BY <2>1, <2>3, Zenon DEF PromisesTheFirst
    <3>2. promised \in Nat /\ promised >= today
      BY <3>1 DEF PromisesAnOccurrence
    <3> QED
      BY <2>1, <3>1, <3>2
  <2> QED
    BY <2>2, <2>3, Zenon DEF TriggersOnTheDay
<1> QED
  BY <1>1, DailyInvariantHolds, PromisesOccurrences, PromisesTheFirstDay, PTL

-----------------------------------------------------------------------------
(* From one day to the next. *)

\* The parts of the invariant that the step theorems use.
Promises == DailyInvariant /\ PromisesAnOccurrence /\ PromisesTheFirst /\ promised # Failed

(* What one run promises the run of the next day promises again.           *)
LEMMA NextRunAgrees ==
    ASSUME Promises, Promises', Run
    PROVE  /\ promised = Expired => promised' = Expired
           /\ promised >= today' => promised' = promised
           /\ promised > today => promised >= today'
<1> DEFINE O(z) == Occurs(script.omits, script.trig, z)
<1>1. script' = script /\ today' = today + 1 /\ today \in Nat /\ promised # Failed /\ promised' # Failed
  BY DEF Promises, Run, DailyInvariant
<1>2. promised # Expired => promised \in Nat /\ promised >= today /\ O(promised)
  BY <1>1 DEF Promises, PromisesAnOccurrence
<1>3. promised' # Expired => promised' \in Nat /\ promised' >= today' /\ O(promised')
  BY <1>1 DEF Promises, PromisesAnOccurrence
<1>4. \A z \in Nat : z >= today /\ O(z) => promised # Expired /\ promised <= z
  BY <1>1, Zenon DEF Promises, PromisesTheFirst
<1>5. \A z \in Nat : z >= today' /\ O(z) => promised' # Expired /\ promised' <= z
  BY <1>1, Zenon DEF Promises, PromisesTheFirst
<1> HIDE DEF O
<1>6. promised' # Expired => promised' >= today
  BY <1>1, <1>3
<1>7. promised = Expired => promised' = Expired
  BY <1>3, <1>4, <1>6, Zenon
<1>8. ASSUME promised >= today' PROVE promised' = promised
  <2>1. promised # Expired
    BY <1>1, <1>8 DEF Expired
  <2>2. promised' # Expired /\ promised' <= promised
    BY <1>2, <1>5, <1>8, <2>1, Zenon
  <2>3. promised <= promised'
    BY <1>3, <1>4, <1>6, <2>2, Zenon
  <2> QED
    BY <1>2, <1>3, <2>1, <2>2, <2>3
<1>9. ASSUME promised > today PROVE promised >= today'
  <2>1. promised # Expired
    BY <1>1, <1>9 DEF Expired
  <2> QED
    BY <1>1, <1>2, <1>9, <2>1
<1> QED
  BY <1>7, <1>8, <1>9

(* Fewer days are kept among fewer days.                                   *)
LEMMA KeptIsMonotonic ==
    ASSUME NEW o, NEW t, NEW a \in Int, NEW b \in Int
    PROVE  Kept(o, t, a + 1 .. b) \in Nat /\ Kept(o, t, a .. b) \in Nat /\ Kept(o, t, a + 1 .. b) <= Kept(o, t, a .. b)
<1> DEFINE A == {dse \in a + 1 .. b : ~Omitted(o, t, dse)}
           B == {dse \in a .. b : ~Omitted(o, t, dse)}
<1>1. IsFiniteSet(a .. b)
  BY FS_Interval
<1>2. B \in SUBSET (a .. b)
  OBVIOUS
<1>3. IsFiniteSet(B)
  BY <1>1, <1>2, FS_Subset, Zenon
<1>4. \A dse \in a + 1 .. b : dse \in a .. b
  OBVIOUS
<1>5. A \in SUBSET B
  BY <1>4, Zenon
<1>6. IsFiniteSet(A) /\ Cardinality(A) <= Cardinality(B)
  BY <1>3, <1>5, FS_Subset, Zenon
<1>7. Cardinality(A) \in Nat /\ Cardinality(B) \in Nat
  BY <1>3, <1>6, FS_CardinalityType, Zenon
<1> QED
  BY <1>6, <1>7, Zenon DEF Kept

(* ShouldTriggerReminder: once it warns of a date it does so until then.   *)
LEMMA WarningGoesOn ==
    ASSUME NEW o, NEW t, t.delta \in Int, NEW dse \in Nat, NEW day \in Nat, dse > day,
           ShouldTriggerReminder(o, t, dse, day)
    PROVE  ShouldTriggerReminder(o, t, dse, day + 1)
<1> DEFINE n == t.delta
           K(d) == Kept(o, t, d + 1 .. dse - 1)
           M == MaxSteps(n)
<1>1. n \in Int
  OBVIOUS
<1>2. dse + n <= day => dse + n <= day + 1
  BY <1>1
<1>3. M \in Int
  <2>1. MaxSatIter \in Nat
    BY TriggersAssumption
  <2> HIDE DEF n
  <2> QED
    BY <1>1, <2>1 DEF MaxSteps
<1>4. K(day + 1) \in Nat /\ K(day) \in Nat /\ K(day + 1) <= K(day)
  <2>1. day + 1 \in Int /\ dse - 1 \in Int
    OBVIOUS
  <2> QED
    BY <2>1, KeptIsMonotonic
<1>5. \A d : ShouldTriggerReminder(o, t, dse, d) <=>
               /\ dse >= d
               /\ IF n <= 0 THEN dse + n <= d ELSE dse = d \/ (dse - d < M /\ K(d) < n)
  BY Zenon DEF ShouldTriggerReminder
<1> HIDE DEF n, K, M
<1>6. IF n <= 0 THEN dse + n <= day ELSE dse - day < M /\ K(day) < n
  BY <1>5
<1>7. dse >= day + 1
  OBVIOUS
<1>8. n <= 0 => dse + n <= day + 1
  BY <1>2, <1>6
<1>9. ~(n <= 0) => dse - (day + 1) < M /\ K(day + 1) < n
  BY <1>1, <1>3, <1>4, <1>6
<1> QED
  BY <1>5, <1>7, <1>8, <1>9, Zenon

(* What a run promises the next one keeps: a reminder of a regular script  *)
(* whose searches succeed stays on its date until it is over, and does not *)
(* come back when it has expired.                                          *)
THEOREM PromisesAreKept ==
    ASSUME Regular
    PROVE  Spec /\ [](promised # Failed) => PromiseKept
<1>1. Promises /\ Promises' /\ [Next]_vars =>
        [ /\ promised = Expired => promised' = Expired
          /\ promised >= today' => promised' = promised ]_vars
  BY NextRunAgrees DEF Next
<1>2. DailyInvariant /\ PromisesAnOccurrence /\ PromisesTheFirst /\ promised # Failed => Promises
  BY DEF Promises
<1> QED
  BY <1>1, <1>2, DailyInvariantHolds, PromisesOccurrences, PromisesTheFirstDay, PTL DEF Spec, PromiseKept

(* A reminder that is announced in advance is announced every day until    *)
(* its date, and the date does not move.                                   *)
THEOREM AnnouncementsGoOn ==
    ASSUME Regular
    PROVE  Spec /\ [](promised # Failed) => AnnouncedUntilTheDay
<1>1. ASSUME Promises, Promises', Run, announced, promised > today
      PROVE  announced' /\ promised' = promised
  <2>1. promised' = promised
    BY <1>1, NextRunAgrees, Zenon
  <2>2. /\ script \in Scripts /\ script' = script /\ today \in Nat /\ today' = today + 1
        /\ announced = IsAnnounced(script, promised, today)
        /\ announced' = IsAnnounced(script, promised', today')
        /\ promised # Failed
    BY <1>1, Zenon DEF Promises, DailyInvariant, Run
  <2>3. promised # Expired /\ promised \in Nat
    <3>1. promised # Expired
      BY <1>1, <2>2 DEF Expired
    <3> QED
      BY <1>1, <2>2, <3>1 DEF Promises, PromisesAnOccurrence
  <2>4. script.trig.delta \in Int
    BY <2>2, DailyRunAssumption, Zenon DEF IsTrigger
  <2>5. ShouldTriggerReminder(script.omits, script.trig, promised, today)
    BY <1>1, <2>2, Zenon DEF IsAnnounced
  <2>6. ShouldTriggerReminder(script.omits, script.trig, promised, today + 1)
    BY <1>1, <2>2, <2>3, <2>4, <2>5, WarningGoesOn, Zenon
  <2>7. promised \notin {Expired, Failed}
    BY <2>2, <2>3
  <2> QED
    BY <2>1, <2>2, <2>6, <2>7, Zenon DEF IsAnnounced
<1>2. Promises /\ Promises' /\ [Next]_vars =>
        [announced /\ promised > today => announced' /\ promised' = promised]_vars
  BY <1>1, Zenon DEF Next
<1>3. DailyInvariant /\ PromisesAnOccurrence /\ PromisesTheFirst /\ promised # Failed => Promises
  BY DEF Promises
<1> QED
  BY <1>2, <1>3, DailyInvariantHolds, PromisesOccurrences, PromisesTheFirstDay, PTL DEF Spec, AnnouncedUntilTheDay

-----------------------------------------------------------------------------
(* Searches that cannot fail. *)

\* Scripts whose triggers name a date that exists, and move it nowhere.
Plain ==
    \A s \in Scripts :
        /\ IsPlain(s.trig) /\ ~Diverges(s.trig)
        /\ Computable(s.omits, s.trig) /\ ~BadDate(s.trig)

(* Plain scripts are regular: nothing leads before 1 January 1990.         *)
LEMMA PlainIsRegular ==
    ASSUME Plain
    PROVE  Regular
<1> SUFFICES ASSUME NEW s \in Scripts
             PROVE  ~Diverges(s.trig) /\ s.first >= Reach(s.trig)
  BY Zenon DEF Regular
<1>1. ~Diverges(s.trig) /\ s.trig.back = 0
  BY Zenon DEF Plain, IsPlain
<1>2. s.first \in Nat
  BY DailyRunAssumption
<1>3. Reach(s.trig) = 0
  <2>1. ~(s.trig.back < 0)
    BY <1>1
  <2> QED
    BY <1>1, <2>1, Zenon DEF Reach
<1> QED
  BY <1>1, <1>2, <1>3

(* The searches of plain scripts never fail.                               *)
LEMMA PlainSearchesSucceed ==
    ASSUME Plain
    PROVE  Spec => [](promised # Failed)
<1>1. DailyInvariant => promised # Failed
  <2> SUFFICES ASSUME DailyInvariant PROVE promised # Failed
    OBVIOUS
  <2>1. /\ IsTrigger(script.trig) /\ today \in Nat
        /\ promised = ComputeTrigger(script.omits, script.trig, today)
        /\ IsPlain(script.trig) /\ ~Diverges(script.trig)
        /\ Computable(script.omits, script.trig) /\ ~BadDate(script.trig)
    BY DailyRunAssumption, Zenon DEF DailyInvariant, Computed, Plain
  <2> QED
    BY <2>1, PlainSearchSucceeds, Zenon
<1> QED
  BY <1>1, DailyInvariantHolds, PTL

(* A plain reminder triggers on the very days that satisfy its             *)
(* specification, keeps its promises, and is announced until its day.      *)
THEOREM PlainScriptsAreExact ==
    ASSUME Plain
    PROVE  Spec => []TriggersOnTheDay /\ PromiseKept /\ AnnouncedUntilTheDay
<1>1. Regular
  BY PlainIsRegular
<1>2. Spec => [](promised # Failed)
  BY PlainSearchesSucceed
<1>3. Spec => [](promised # Failed => TriggersOnTheDay)
  BY <1>1, TriggersUnlessFailed
<1>4. Spec /\ [](promised # Failed) => PromiseKept
  BY <1>1, PromisesAreKept
<1>5. Spec /\ [](promised # Failed) => AnnouncedUntilTheDay
  BY <1>1, AnnouncementsGoOn
<1> QED
  BY <1>2, <1>3, <1>4, <1>5, PTL
=============================================================================
