--------------------------- MODULE WorkloadProofs ---------------------------
(***************************************************************************)
(* The theorems about Workload, for all periods, numbers of samples and    *)
(* costs, and however long and however often the process is held back.     *)
(***************************************************************************)
EXTENDS Workload, TLAPS

(* Before a command measures, and while it does. *)
Before == {"main", "validate", "enter", "pin"}
Measuring == {"begin", "remainder", "sleep", "resume", "report", "hog", "unit", "elapsed"}

Typed ==
    /\ cmd \in Commands /\ cost \in UnitCosts
    /\ pc \in Before \cup Measuring \cup Ended
    /\ class \in {"fair", "ext"}
    /\ now \in Nat /\ cputime \in Nat /\ done \in Nat /\ mark \in Nat /\ rest \in Nat /\ row \in Int
    /\ held \in Nat /\ seen \in Nat /\ timed \in Seq(Nat)

(* Which command may be where. *)
Commanded ==
    /\ pc \in {"sleep", "resume", "report"} => cmd.name \in {"sleep", "periodic"}
    /\ pc = "remainder" => cmd.name = "periodic"
    /\ pc = "hog" => cmd.name = "cpu-hog"
    /\ pc \in {"pin", "unit", "elapsed"} => cmd.name = "calibrate"
    /\ pc \in {"validate", "enter"} => cmd.name # "calibrate"

(* No more samples are taken than were asked for. *)
Counted == cmd.name \in {"sleep", "periodic"} =>
    /\ pc \in {"enter", "begin", "remainder", "sleep", "resume"} => done < cmd.samples
    /\ pc = "report" => done <= cmd.samples

(* SCHED_EXT is entered before there is anything to measure, or the        *)
(* command has failed.                                                     *)
InClass ==
    /\ pc \in Before \cup {"err"} => class = "fair" /\ done = 0 /\ cputime = 0
    /\ pc \in Measuring \cup {"ok"} => (cmd.sched_ext => class = "ext")

Basis == Typed /\ Commanded /\ Counted /\ InClass

LEMMA Command ==
    ASSUME Typed
    PROVE  /\ cmd.name \in {"sleep", "periodic", "cpu-hog", "calibrate"}
           /\ cmd.period \in Nat /\ cmd.samples \in Nat /\ cmd.sched_ext \in BOOLEAN
           /\ cmd.name = "calibrate" => ~cmd.sched_ext
           /\ cost \in Nat /\ cost > 0
  BY CommandsAssumption, CostAssumption DEF Typed

LEMMA Larger ==
    ASSUME NEW a \in Int, NEW b \in Int
    PROVE  Max({a, b}) = IF a >= b THEN a ELSE b
  BY DEF Max

LEMMA InitBasis == Init => Basis
  BY DEF Init, Basis, Typed, Commanded, Counted, InClass, Before, Measuring, Ended

LEMMA StepBasis == Basis /\ [Next]_vars => Basis'
<1> SUFFICES ASSUME Basis, [Next]_vars  PROVE Basis'
  OBVIOUS
<1>1. /\ cmd.name \in {"sleep", "periodic", "cpu-hog", "calibrate"}
      /\ cmd.period \in Nat /\ cmd.samples \in Nat /\ cmd.sched_ext \in BOOLEAN
      /\ cmd.name = "calibrate" => ~cmd.sched_ext
      /\ cost \in Nat
  BY Command DEF Basis
<1> USE <1>1 DEF Basis, Typed, Commanded, Counted, InClass, Before, Measuring, Ended,
        machine, measured, history, Begin
<1>2. CASE UNCHANGED vars
  BY <1>2 DEF vars
<1>3. CASE Main \/ Validate \/ PinCpu
  BY <1>3 DEF Main, Validate, PinCpu
<1>4. CASE Enter
  BY <1>4 DEF Enter
<1>5. CASE SleepStart \/ PeriodicStart \/ HogStart \/ CalibrateStart
  <2>1. <<held>> \in Seq(Nat)
    OBVIOUS
  <2>2. /\ UNCHANGED <<machine, class, now, cputime, done, row, held, seen>>
        /\ pc = "begin" /\ timed' = <<held>> /\ mark' \in Nat /\ rest' \in Nat
        /\ \/ cmd.name = "sleep" /\ pc' = "sleep"
           \/ cmd.name = "periodic" /\ pc' = "remainder"
           \/ cmd.name = "cpu-hog" /\ pc' = "hog"
           \/ cmd.name = "calibrate" /\ pc' = "unit"
    BY <1>5 DEF SleepStart, PeriodicStart, HogStart, CalibrateStart, Clock
  <2> QED  BY <2>1, <2>2
<1>6. CASE Remainder \/ Sleep
  <2>1. Max({0, mark - now}) \in Nat
    BY Larger
  <2>2. CASE Remainder
    BY <2>1, <2>2 DEF Remainder
  <2>3. CASE Sleep
    BY <2>3 DEF Sleep
  <2> QED  BY <1>6, <2>2, <2>3
<1>7. CASE Sample
  <2>1. Lateness \in Int
    BY Larger DEF Lateness
  <2> QED  BY <1>7, <2>1 DEF Sample
<1>8. CASE Report
  <2>1. /\ pc = "report" /\ UNCHANGED <<cmd, cost, class, now, cputime, done, rest, row, history>>
        /\ mark' \in Nat
    BY <1>8 DEF Report
  <2>2. \/ pc' = "ok"
        \/ pc' = "begin" /\ done < cmd.samples
        \/ pc' = "remainder" /\ done < cmd.samples /\ cmd.name = "periodic"
    BY <1>8 DEF Report
  <2> QED  BY <2>1, <2>2
<1>9. CASE HogRound
  BY <1>9 DEF HogRound, Work
<1>10. CASE WorkUnit
  BY <1>10 DEF WorkUnit, Work
<1>11. CASE Calibrated
  <2>1. cputime - mark >= Limit => (done * Second) \div (cputime - mark) \in Int
    BY TimeAssumption
  <2> QED  BY <1>11, <2>1 DEF Calibrated, Clock
<1>12. CASE HeldBack
  BY <1>12 DEF HeldBack
<1> QED
  BY <1>2, <1>3, <1>4, <1>5, <1>6, <1>7, <1>8, <1>9, <1>10, <1>11, <1>12 DEF Next

LEMMA Base == Spec => []Basis
  BY InitBasis, StepBasis, PTL DEF Spec

(* A command that cannot enter its class measures nothing in another. *)
THEOREM ClassOfMeasurement == Spec => []MeasuresInClass
<1>1. Basis => MeasuresInClass
  BY DEF Basis, Typed, InClass, MeasuresInClass, Before, Measuring, Ended
<1> QED  BY <1>1, Base, PTL

-----------------------------------------------------------------------------
(* How long this sleep has lasted beyond what was asked is how long the    *)
(* process was held back since it began.                                   *)
SleepInv == cmd.name = "sleep" =>
    /\ pc \in {"sleep", "resume"} => Len(timed) = 1
    /\ pc = "sleep" => timed[1] <= held /\ now - mark = held - timed[1] /\ rest = cmd.period
    /\ pc = "resume" => timed[1] <= held /\ now - mark - cmd.period = held - timed[1]
    /\ pc = "report" => row = seen - timed[1]

LEMMA StepSleep == Basis /\ SleepInv /\ [Next]_vars => SleepInv'
<1> SUFFICES ASSUME Basis, SleepInv, [Next]_vars, cmd.name = "sleep"  PROVE SleepInv'
  BY DEF SleepInv, vars, Next, Main, Validate, Enter, SleepStart, PeriodicStart, Begin,
         Remainder, Sleep, Sample, Report, HogStart, HogRound, PinCpu, CalibrateStart, WorkUnit,
         Calibrated, HeldBack, machine
<1>1. /\ cmd.period \in Nat /\ cmd.samples \in Nat /\ done \in Nat
      /\ now \in Nat /\ mark \in Nat /\ held \in Nat /\ seen \in Nat
      /\ timed \in Seq(Nat) /\ (Len(timed) = 1 => timed[1] \in Nat)
      /\ pc \notin {"remainder", "hog", "pin", "unit", "elapsed"}
  BY Command DEF Basis, Typed, Commanded
<1> USE <1>1 DEF SleepInv, machine, measured, history
<1>2. CASE UNCHANGED vars
  BY <1>2 DEF vars
<1>3. CASE Main \/ Validate \/ Enter \/ Report
  <2>1. pc' \notin {"sleep", "resume", "report"}
    <3>1. CASE Report
      BY <3>1 DEF Report, Basis, Counted
    <3> QED  BY <1>3, <3>1 DEF Main, Validate, Enter
  <2> QED  BY <2>1
<1>4. CASE SleepStart
  BY <1>4 DEF SleepStart, Begin
<1>5. CASE Sleep
  BY <1>5 DEF Sleep
<1>6. CASE Sample
  <2>1. now - mark - cmd.period \in Int /\ now - mark - cmd.period >= 0
    BY <1>6 DEF Sample
  <2>2. Lateness = now - mark - cmd.period
    BY <2>1, Larger DEF Lateness
  <2> QED  BY <1>6, <2>2 DEF Sample
<1>7. CASE HeldBack
  <2>1. /\ UNCHANGED <<cmd, pc, mark, rest, row, timed, seen>>
        /\ now' = now + 1 /\ held' = held + 1
    BY <1>7 DEF HeldBack
  <2>2. CASE pc \in {"sleep", "resume"}
    <3>1. timed' = timed /\ timed[1] \in Nat /\ Len(timed) = 1 /\ timed[1] <= held
      BY <2>1, <2>2
    <3>2. now - mark = held - timed[1] => now' - mark = held' - timed[1]
      BY <2>1, <3>1
    <3>3. now - mark - cmd.period = held - timed[1] => now' - mark - cmd.period = held' - timed[1]
      BY <2>1, <3>1
    <3> QED  BY <2>1, <2>2, <3>1, <3>2, <3>3
  <2>3. CASE pc \notin {"sleep", "resume"}
    BY <2>1, <2>3
  <2> QED  BY <2>2, <2>3
<1> QED
  BY <1>2, <1>3, <1>4, <1>5, <1>6, <1>7
     DEF Next, PeriodicStart, Remainder, HogStart, CalibrateStart, Begin, HogRound, PinCpu,
         WorkUnit, Calibrated

(* Each sleep is measured by itself, whatever happens between two sleeps. *)
THEOREM EachSleepAlone == Spec => []SleepIndependent
<1>1. Init => SleepInv
  BY DEF Init, SleepInv
<1>2. SleepInv => SleepIndependent
  BY DEF SleepInv, SleepIndependent
<1> QED  BY <1>1, <1>2, StepSleep, Base, PTL DEF Spec

-----------------------------------------------------------------------------
(* What is left of the delay since reading j at the last of the readings in*)
(* s, one every p, when the process has been held back for h; and the most *)
(* that is left of any.                                                    *)
Left(p, h, s, j) == h - s[j] - (Len(s) - j) * p

Backlog(p, h, s, b) ==
    /\ \E j \in DOMAIN s : b = Left(p, h, s, j)
    /\ \A j \in DOMAIN s : Left(p, h, s, j) <= b

LEMMA LeftIsInt ==
    ASSUME NEW p \in Nat, NEW h \in Nat, NEW s \in Seq(Nat), NEW j \in DOMAIN s
    PROVE  Left(p, h, s, j) \in Int
<1>1. s[j] \in Nat /\ Len(s) - j \in Int
  OBVIOUS
<1>2. (Len(s) - j) * p \in Int
  BY <1>1
<1> QED  BY <1>1, <1>2 DEF Left

(* Time in which the process is held back is added to the backlog.         *)
LEMMA HeldLonger ==
    ASSUME NEW p \in Nat, NEW h \in Nat, NEW s \in Seq(Nat), NEW b \in Int, Backlog(p, h, s, b)
    PROVE  Backlog(p, h + 1, s, b + 1)
<1>1. ASSUME NEW j \in DOMAIN s  PROVE Left(p, h + 1, s, j) = Left(p, h, s, j) + 1
  <2>1. s[j] \in Nat /\ (Len(s) - j) * p \in Int
    OBVIOUS
  <2> QED  BY <2>1 DEF Left
<1>2. \A j \in DOMAIN s : Left(p, h, s, j) \in Int /\ Left(p, h, s, j) <= b
  BY LeftIsInt DEF Backlog
<1>3. \A j \in DOMAIN s : Left(p, h + 1, s, j) <= b + 1
  BY <1>1, <1>2
<1>4. PICK j \in DOMAIN s : b = Left(p, h, s, j)
  BY DEF Backlog
<1>5. b + 1 = Left(p, h + 1, s, j)
  BY <1>1, <1>4
<1> QED  BY <1>3, <1>5 DEF Backlog

(* Another reading of the clock: a period has passed since each of the     *)
(* others, and nothing was held back since this one.                       *)
LEMMA Reading ==
    ASSUME NEW p \in Nat, NEW h \in Nat, NEW s \in Seq(Nat), NEW b \in Int, Backlog(p, h, s, b)
    PROVE  Backlog(p, h, Append(s, h), IF b >= p THEN b - p ELSE 0)
<1> DEFINE n == Len(s)
           t == Append(s, h)
           late == IF b >= p THEN b - p ELSE 0
<1>1. /\ n \in Nat /\ DOMAIN s = 1..n /\ DOMAIN t = 1..(n + 1) /\ Len(t) = n + 1
      /\ t[n + 1] = h /\ \A j \in DOMAIN s : t[j] = s[j] /\ s[j] \in Nat
  OBVIOUS
<1>2. Left(p, h, t, n + 1) = 0
  BY <1>1 DEF Left
<1>3. ASSUME NEW j \in DOMAIN s  PROVE Left(p, h, t, j) = Left(p, h, s, j) - p
  <2>1. j \in Int /\ s[j] \in Nat
    BY <1>1
  <2>2. (n + 1 - j) * p = (n - j) * p + p /\ (n - j) * p \in Int
    BY <1>1, <2>1
  <2>3. Left(p, h, t, j) = h - s[j] - (n + 1 - j) * p
    BY <1>1 DEF Left
  <2>4. Left(p, h, s, j) = h - s[j] - (n - j) * p
    BY DEF Left
  <2> HIDE DEF n, t
  <2> QED  BY <2>1, <2>2, <2>3, <2>4
<1> HIDE DEF t, n
<1>4. \A j \in DOMAIN s : Left(p, h, s, j) \in Int /\ Left(p, h, s, j) <= b
  BY LeftIsInt DEF Backlog
<1>5. \A j \in DOMAIN t : Left(p, h, t, j) <= late
  <2>1. \A j \in DOMAIN s : Left(p, h, t, j) <= late
    BY <1>3, <1>4
  <2>2. \A j \in DOMAIN t : j \in DOMAIN s \/ j = n + 1
    BY <1>1
  <2>3. 0 <= late
    OBVIOUS
  <2> QED  BY <1>2, <2>1, <2>2, <2>3
<1>6. \E j \in DOMAIN t : late = Left(p, h, t, j)
  <2>1. CASE b >= p
    <3>1. PICK j \in DOMAIN s : b = Left(p, h, s, j)
      BY DEF Backlog
    <3>2. j \in DOMAIN t /\ late = Left(p, h, t, j)
      BY <1>1, <1>3, <2>1, <3>1
    <3> QED  BY <3>2
  <2>2. CASE ~(b >= p)
    <3>1. n + 1 \in DOMAIN t
      BY <1>1
    <3> QED  BY <1>2, <2>2, <3>1
  <2> QED  BY <2>1, <2>2
<1> QED  BY <1>5, <1>6 DEF Backlog, t

(* The greatest of what is left is the backlog.                            *)
LEMMA BacklogIsMax ==
    ASSUME NEW p \in Nat, NEW h \in Nat, NEW s \in Seq(Nat), NEW b \in Nat, Backlog(p, h, s, b)
    PROVE  b = Max({0} \cup {h - s[j] - (Len(s) - j) * p : j \in DOMAIN s})
<1> DEFINE S == {0} \cup {Left(p, h, s, j) : j \in DOMAIN s}
<1>1. \A j \in DOMAIN s : Left(p, h, s, j) \in Int /\ Left(p, h, s, j) <= b
  BY LeftIsInt DEF Backlog
<1>2. b \in S
  BY DEF Backlog
<1>3. \A y \in S : y \in Int /\ b >= y
  <2>1. ASSUME NEW y \in S  PROVE y \in Int /\ b >= y
    <3>1. CASE y = 0
      BY <3>1
    <3>2. CASE \E j \in DOMAIN s : y = Left(p, h, s, j)
      BY <1>1, <3>2
    <3> QED  BY <3>1, <3>2
  <2> QED  BY <2>1
<1> HIDE DEF S
<1>4. \A x \in S : (\A y \in S : x >= y) => x = b
  BY <1>2, <1>3
<1>5. Max(S) = b
  BY <1>2, <1>3, <1>4 DEF Max
<1> QED  BY <1>5 DEF S, Left

(* By how much periodic is late is the backlog, at each of its steps.      *)
PeriodicInv == cmd.name = "periodic" =>
    /\ pc \in {"remainder", "sleep", "resume", "report"} =>
          Len(timed) > 0 /\ timed[Len(timed)] <= held
    /\ pc = "remainder" => Backlog(cmd.period, held, timed, now - mark + cmd.period)
    /\ pc = "sleep" => Backlog(cmd.period, held, timed, now + rest - mark)
    /\ pc \in {"resume", "report"} => Backlog(cmd.period, held, timed, now - mark)
    /\ pc = "report" => row >= 0 /\ Backlog(cmd.period, seen, timed, row)

LEMMA StepPeriodic == Basis /\ PeriodicInv /\ [Next]_vars => PeriodicInv'
<1> SUFFICES ASSUME Basis, PeriodicInv, [Next]_vars, cmd.name = "periodic"  PROVE PeriodicInv'
  BY DEF PeriodicInv, vars, Next, Main, Validate, Enter, SleepStart, PeriodicStart, Begin,
         Remainder, Sleep, Sample, Report, HogStart, HogRound, PinCpu, CalibrateStart, WorkUnit,
         Calibrated, HeldBack, machine
<1>1. /\ cmd.period \in Nat /\ cmd.samples \in Nat /\ done \in Nat
      /\ now \in Nat /\ mark \in Nat /\ rest \in Nat /\ held \in Nat /\ seen \in Nat
      /\ timed \in Seq(Nat) /\ Len(timed) \in Nat /\ row \in Int
      /\ \A j \in DOMAIN timed : timed[j] \in Nat
      /\ pc \notin {"hog", "pin", "unit", "elapsed"}
  BY Command DEF Basis, Typed, Commanded
<1>2. pc \in {"remainder", "sleep", "resume", "report"} => Len(timed) \in DOMAIN timed
  BY <1>1 DEF PeriodicInv
<1>3. CASE UNCHANGED vars
  BY <1>3 DEF vars, machine, measured, history, PeriodicInv
<1>4. CASE Main \/ Validate \/ Enter
  BY <1>4 DEF Main, Validate, Enter, PeriodicInv, machine
<1>5. CASE PeriodicStart
  <2>1. /\ pc' = "remainder" /\ timed' = <<held>> /\ mark' = now + cmd.period
        /\ UNCHANGED <<cmd, held, now>>
    BY <1>5 DEF PeriodicStart, Begin, machine
  <2>2. Len(<<held>>) = 1 /\ DOMAIN <<held>> = {1} /\ <<held>>[1] = held
    OBVIOUS
  <2>3. Left(cmd.period, held, <<held>>, 1) = 0
    BY <1>1, <2>2 DEF Left
  <2>4. Backlog(cmd.period, held, <<held>>, 0)
    BY <2>2, <2>3 DEF Backlog
  <2>5. now - (now + cmd.period) + cmd.period = 0
    BY <1>1
  <2> QED  BY <1>1, <2>1, <2>2, <2>4, <2>5 DEF PeriodicInv
<1>6. CASE Remainder
  <2>1. /\ pc = "remainder" /\ pc' = "sleep" /\ timed' = Append(timed, held)
        /\ rest' = (IF mark >= now THEN mark - now ELSE 0)
        /\ UNCHANGED <<cmd, now, held, mark>>
    <3>1. Max({0, mark - now}) = IF 0 >= mark - now THEN 0 ELSE mark - now
      BY <1>1, Larger
    <3>2. rest' = Max({0, mark - now})
      BY <1>6 DEF Remainder
    <3>3. rest' = (IF mark >= now THEN mark - now ELSE 0)
      BY <1>1, <3>1, <3>2
    <3> QED  BY <1>6, <3>3 DEF Remainder, machine
  <2> DEFINE b == now - mark + cmd.period
  <2>2. b \in Int /\ now + rest' - mark = IF b >= cmd.period THEN b - cmd.period ELSE 0
    BY <1>1, <2>1
  <2>3. Backlog(cmd.period, held, timed, b)
    BY <2>1 DEF PeriodicInv
  <2>4. Backlog(cmd.period, held, Append(timed, held), now + rest' - mark)
    <3> HIDE DEF b
    <3> QED  BY <1>1, <2>2, <2>3, Reading
  <2>5. Len(timed') > 0 /\ timed'[Len(timed')] = held
    BY <1>1, <2>1
  <2> QED  BY <1>1, <2>1, <2>4, <2>5 DEF PeriodicInv
<1>10. CASE Sleep
  <2>1. /\ pc = "sleep" /\ pc' = "resume" /\ now' = now + rest
        /\ UNCHANGED <<cmd, timed, held, mark>>
    BY <1>10 DEF Sleep, machine, measured, history
  <2>2. Backlog(cmd.period, held, timed, now' - mark)
    <3>1. now' - mark = now + rest - mark
      BY <1>1, <2>1
    <3> QED  BY <2>1, <3>1 DEF PeriodicInv
  <2>3. cmd' = cmd /\ timed' = timed /\ held' = held /\ mark' = mark
    BY <2>1
  <2>4. Len(timed) > 0 /\ timed[Len(timed)] <= held
    BY <2>1 DEF PeriodicInv
  <2> QED  BY <2>1, <2>2, <2>3, <2>4 DEF PeriodicInv
<1>7. CASE Sample
  <2>1. /\ pc = "resume" /\ pc' = "report" /\ row' = Lateness /\ seen' = held
        /\ UNCHANGED <<cmd, now, mark, held, timed>>
    BY <1>7 DEF Sample, machine
  <2>2. Backlog(cmd.period, held, timed, now - mark)
    BY <2>1 DEF PeriodicInv
  <2>3. now - mark >= 0
    <3>1. (Len(timed) - Len(timed)) * cmd.period = 0
      BY <1>1
    <3>2. Left(cmd.period, held, timed, Len(timed)) = held - timed[Len(timed)]
      BY <1>1, <1>2, <2>1, <3>1 DEF Left
    <3>3. Left(cmd.period, held, timed, Len(timed)) <= now - mark
      BY <1>2, <2>1, <2>2 DEF Backlog
    <3> QED  BY <1>1, <1>2, <2>1, <3>2, <3>3 DEF PeriodicInv
  <2>4. Lateness = now - mark
    BY <1>1, <2>3, Larger DEF Lateness
  <2> QED  BY <2>1, <2>2, <2>3, <2>4 DEF PeriodicInv
<1>8. CASE Report
  <2>1. /\ pc = "report" /\ mark' = mark + cmd.period
        /\ UNCHANGED <<cmd, now, held, timed>>
        /\ pc' \in {"ok", "remainder"}
    BY <1>1, <1>8 DEF Report, machine, history, Basis, Counted
  <2>2. now - (mark + cmd.period) + cmd.period = now - mark
    BY <1>1
  <2> QED  BY <2>1, <2>2 DEF PeriodicInv
<1>9. CASE HeldBack
  <2>1. /\ UNCHANGED <<cmd, pc, mark, rest, row, timed, seen>>
        /\ now' = now + 1 /\ held' = held + 1
    BY <1>9 DEF HeldBack, machine, measured
  <2>2. pc = "remainder" => Backlog(cmd.period, held + 1, timed, now' - mark + cmd.period)
    <3>1. now' - mark + cmd.period = (now - mark + cmd.period) + 1 /\ now - mark + cmd.period \in Int
      BY <1>1, <2>1
    <3> QED  BY <1>1, <3>1, HeldLonger DEF PeriodicInv
  <2>3. pc \in {"resume", "report"} => Backlog(cmd.period, held + 1, timed, now' - mark)
    <3>1. now' - mark = (now - mark) + 1 /\ now - mark \in Int
      BY <1>1, <2>1
    <3> QED  BY <1>1, <3>1, HeldLonger DEF PeriodicInv
  <2>4. pc \in {"remainder", "sleep", "resume", "report"} => timed[Len(timed)] <= held + 1
    BY <1>1, <1>2 DEF PeriodicInv
  <2>5. pc = "sleep" => Backlog(cmd.period, held + 1, timed, now' + rest - mark)
    <3>1. now' + rest - mark = (now + rest - mark) + 1 /\ now + rest - mark \in Int
      BY <1>1, <2>1
    <3> QED  BY <1>1, <3>1, HeldLonger DEF PeriodicInv
  <2> QED  BY <2>1, <2>2, <2>3, <2>4, <2>5 DEF PeriodicInv
<1> QED
  BY <1>1, <1>3, <1>4, <1>5, <1>6, <1>7, <1>8, <1>9, <1>10
     DEF Next, SleepStart, HogStart, CalibrateStart, Begin, HogRound, PinCpu, WorkUnit, Calibrated

(* periodic reports every delay until its schedule has caught up, and none *)
(* for longer, for any period and any delays.                              *)
THEOREM EachDelayOnce == Spec => []LateIsBacklog
<1>1. Init => PeriodicInv
  BY DEF Init, PeriodicInv
<1>2. Basis /\ PeriodicInv => LateIsBacklog
  <2> SUFFICES ASSUME Basis, PeriodicInv, cmd.name = "periodic", pc = "report"
               PROVE  LateIsBacklog
    BY DEF LateIsBacklog
  <2>1. /\ cmd.period \in Nat /\ seen \in Nat /\ timed \in Seq(Nat) /\ row \in Nat
        /\ Backlog(cmd.period, seen, timed, row)
    BY Command DEF PeriodicInv, Basis, Typed
  <2> QED  BY <2>1, BacklogIsMax DEF LateIsBacklog
<1> QED  BY <1>1, <1>2, StepPeriodic, Base, PTL DEF Spec

-----------------------------------------------------------------------------
(* A fraction that is expanded has the same quotient.                      *)
LEMMA Expanded ==
    ASSUME NEW d \in Nat \ {0}, NEW c \in Nat \ {0}, NEW s \in Nat
    PROVE  (d * s) \div (d * c) = s \div c
<1> DEFINE q == s \div c
           r == s % c
<1>1. q \in Int /\ r \in 0..(c - 1) /\ s = c * q + r
  OBVIOUS
<1> HIDE DEF q, r
<1>2. d * s = (d * c) * q + d * r
  BY <1>1
<1>3. d * c \in Nat \ {0} /\ d * r \in Nat /\ d * r < d * c
  BY <1>1
<1>4. ASSUME NEW a \in Int, NEW b \in Nat \ {0}, NEW e \in Nat, e < b, a = b * q + e
      PROVE  a \div b = q
  BY <1>1, <1>4
<1> QED  BY <1>1, <1>2, <1>3, <1>4 DEF q

(* The clock that is read is that of the work alone.                       *)
CalibrateInv == cmd.name = "calibrate" =>
    /\ pc \in Before \cup {"begin"} => done = 0
    /\ pc \in {"unit", "elapsed"} => cputime - mark = done * cost
    /\ pc = "elapsed" => done > 0
    /\ pc = "ok" => row = Second \div cost

LEMMA StepCalibrate == Basis /\ CalibrateInv /\ [Next]_vars => CalibrateInv'
<1> SUFFICES ASSUME Basis, CalibrateInv, [Next]_vars, cmd.name = "calibrate"
             PROVE  CalibrateInv'
  BY DEF CalibrateInv, vars, Next, Main, Validate, Enter, SleepStart, PeriodicStart, Begin,
         Remainder, Sleep, Sample, Report, HogStart, HogRound, PinCpu, CalibrateStart, WorkUnit,
         Calibrated, HeldBack, machine
<1>1. /\ done \in Nat /\ cputime \in Nat /\ mark \in Nat /\ cost \in Nat \ {0}
      /\ pc \notin {"validate", "enter", "remainder", "sleep", "resume", "report", "hog"}
  BY Command DEF Basis, Typed, Commanded
<1> USE DEF CalibrateInv, Before, machine, measured, history
<1>2. CASE UNCHANGED vars
  BY <1>2 DEF vars
<1>3. CASE Main \/ PinCpu
  BY <1>3 DEF Main, PinCpu, Basis, InClass, Ended
<1>4. CASE CalibrateStart
  <2>1. cputime - cputime = 0 * cost
    BY <1>1
  <2> QED  BY <1>1, <1>4, <2>1 DEF CalibrateStart, Begin, Clock
<1>5. CASE WorkUnit
  <2>1. (done + 1) * cost = done * cost + cost
    BY <1>1
  <2> QED  BY <1>1, <1>5, <2>1 DEF WorkUnit, Work
<1>6. CASE Calibrated
  <2>1. cputime - mark = done * cost /\ done \in Nat \ {0}
    BY <1>1, <1>6 DEF Calibrated
  <2>2. (done * Second) \div (cputime - mark) = Second \div cost
    BY <1>1, <2>1, TimeAssumption, Expanded
  <2> QED  BY <1>6, <2>1, <2>2 DEF Calibrated, Clock
<1>7. CASE HeldBack
  BY <1>7 DEF HeldBack
<1> QED
  BY <1>1, <1>2, <1>3, <1>4, <1>5, <1>6, <1>7
     DEF Next, Validate, Enter, SleepStart, PeriodicStart, Begin, Remainder, Sleep, Sample, Report,
         HogStart, HogRound

(* The calibrated rate does not depend on how the process was held back,   *)
(* nor on by how much the last unit went over the limit.                   *)
THEOREM RateOfWork == Spec => []RateIsOfCpuTime
<1>1. Init => CalibrateInv
  BY DEF Init, CalibrateInv
<1>2. CalibrateInv => RateIsOfCpuTime
  BY DEF CalibrateInv, RateIsOfCpuTime
<1> QED  BY <1>1, <1>2, StepCalibrate, Base, PTL DEF Spec
=============================================================================
