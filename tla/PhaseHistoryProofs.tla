--------------------------- MODULE PhaseHistoryProofs ---------------------------
(***************************************************************************)
(* What the recorded history of an enrollment guarantees, for any program, *)
(* people and instants.                                                    *)
(***************************************************************************)
EXTENDS PhaseHistory, EnrollmentsProofs, WellFoundedInduction

\* Every row and request names an enrollment that exists.
Referenced ==
  /\ \A i \in DOMAIN lifecycle : lifecycle[i].enrollment \in DOMAIN enrollments
  /\ \A i \in DOMAIN phaseEvents : phaseEvents[i].enrollment \in DOMAIN enrollments
  /\ \A i \in DOMAIN signoffs : signoffs[i].enrollment \in DOMAIN enrollments
  /\ \A u \in Signers :
       signing[u].enrollment # 0 => signing[u].enrollment \in DOMAIN enrollments

\* Rows carry instants the clock has shown, lifecycle rows in their order, and
\* the phase events of an enrollment take effect in theirs.
Clocked ==
  /\ \A i \in DOMAIN lifecycle : lifecycle[i].at <= clock
  /\ \A i, j \in DOMAIN lifecycle : i < j => lifecycle[i].at <= lifecycle[j].at
  /\ \A i \in DOMAIN signoffs : signoffs[i].at <= clock
  /\ \A i \in DOMAIN phaseEvents : phaseEvents[i].recorded <= clock
  /\ \A i, j \in DOMAIN phaseEvents :
       i < j /\ phaseEvents[i].enrollment = phaseEvents[j].enrollment =>
         phaseEvents[i].effective <= phaseEvents[j].effective

Sound == TypeOK /\ Referenced /\ Clocked

(***************************************************************************)
(* The newest of some rows.                                                *)
(***************************************************************************)
LEMMA OldestExists ==
  ASSUME NEW T, T \subseteq Nat, T # {}
  PROVE  \E m \in T : \A k \in T : m <= k
<1> DEFINE R == {ss \in Nat \X Nat : ss[1] < ss[2]}
<1>1. IsWellFoundedOn(R, Nat)
  BY NatLessThanWellFounded DEF OpToRel
<1>2. PICK m \in T : \A k \in T : ~(<<k, m>> \in R)
  <2> HIDE DEF R
  <2> QED BY <1>1, WFMin
<1>3. ASSUME NEW k \in T PROVE m <= k
  <2>1. k \in Nat /\ m \in Nat
    OBVIOUS
  <2>2. <<k, m>> \notin R
    BY <1>2
  <2>3. ~(k < m)
    BY <2>1, <2>2
  <2> QED BY <2>1, <2>3
<1> QED BY <1>3

LEMMA NewestExists ==
  ASSUME NEW n \in Nat, NEW S \in SUBSET (1..n), S # {}
  PROVE  \E i \in S : \A j \in S : j <= i
<1> DEFINE T == {n - i : i \in S}
<1>1. T \subseteq Nat /\ T # {}
  <2>1. \A i \in S : n - i \in Nat
    OBVIOUS
  <2> QED BY <2>1
<1>2. PICK m \in T : \A k \in T : m <= k
  <2> HIDE DEF T
  <2> QED BY <1>1, OldestExists
<1>3. PICK i \in S : m = n - i
  OBVIOUS
<1>4. \A j \in S : n - i <= n - j
  BY <1>2, <1>3
<1>5. \A j \in S : j \in Nat
  OBVIOUS
<1> HIDE DEF T
<1> QED BY <1>4, <1>5

LEMMA NewestIsNewest ==
  ASSUME NEW n \in Nat, NEW S \in SUBSET (1..n), S # {}
  PROVE  Newest(S) \in S /\ \A j \in S : j <= Newest(S)
BY NewestExists DEF Newest

LEMMA PhaseEventTypes ==
  ASSUME TypeOK, NEW i \in DOMAIN phaseEvents
  PROVE  /\ i \in Nat
         /\ phaseEvents[i] \in PhaseEvent
         /\ phaseEvents[i].effective \in Nat /\ phaseEvents[i].recorded \in Nat
         /\ phaseEvents[i].epoch \in Nat /\ phaseEvents[i].enrollment \in Nat
         /\ phaseEvents[i].to \in Phases \union {NoPhase}
         /\ phaseEvents[i].from \in Phases \union {NoPhase}
<1>1. i \in Nat /\ phaseEvents[i] \in PhaseEvent
  BY DEF TypeOK
<1> QED BY <1>1 DEF PhaseEvent

(***************************************************************************)
(* The definitions of the module, with the rows as a parameter, so that a  *)
(* lemma speaks of the rows before and after a step.                       *)
(***************************************************************************)
OrderedRows(rows) ==
  /\ rows \in Seq(PhaseEvent)
  /\ \A i, j \in DOMAIN rows :
       i < j /\ rows[i].enrollment = rows[j].enrollment =>
         rows[i].effective <= rows[j].effective

PrecedesIn(rows, i, j) ==
  \/ rows[i].effective < rows[j].effective
  \/ rows[i].effective = rows[j].effective /\ i < j
LastIn(rows, ids) == CHOOSE i \in ids : \A j \in ids \ {i} : PrecedesIn(rows, j, i)
PhaseIn(rows, ids) == IF ids = {} THEN NoPhase ELSE rows[LastIn(rows, ids)].to
PausedIn(rows, ids) == ids # {} /\ rows[LastIn(rows, ids)].kind = "pause"

OfEpoch(rows, e, epoch, kinds) ==
  {i \in DOMAIN rows :
     rows[i].enrollment = e /\ rows[i].epoch = epoch /\ rows[i].kind \in kinds}
EarlierIn(rows, i, kinds) ==
  {j \in OfEpoch(rows, rows[i].enrollment, rows[i].epoch, kinds) : PrecedesIn(rows, j, i)}

\* One event follows from what stands before it.
Walks(p, moves, pauses, rows) ==
  /\ p.from = PhaseIn(rows, moves)
  /\ PausedIn(rows, pauses) = (p.kind = "resume")
  /\ IF p.kind \in MoveKinds THEN Follows(PhaseIn(rows, moves), p.kind, p.to)
     ELSE PhaseIn(rows, moves) # NoPhase
WalkIn(rows) ==
  \A i \in DOMAIN rows :
    Walks(rows[i], EarlierIn(rows, i, MoveKinds), EarlierIn(rows, i, PauseKinds), rows)

LEMMA RowTypes ==
  ASSUME NEW rows, OrderedRows(rows), NEW i \in DOMAIN rows
  PROVE  i \in Nat /\ rows[i] \in PhaseEvent /\ rows[i].effective \in Nat
<1>1. i \in Nat /\ rows[i] \in PhaseEvent
  BY DEF OrderedRows
<1> QED BY <1>1 DEF PhaseEvent

LEMMA LastInIsNewest ==
  ASSUME NEW rows, OrderedRows(rows), NEW e, NEW ids \in SUBSET (DOMAIN rows), ids # {},
         \A i \in ids : rows[i].enrollment = e
  PROVE  LastIn(rows, ids) \in ids /\ \A j \in ids : j <= LastIn(rows, ids)
<1>1. ids \in SUBSET (1..Len(rows)) /\ Len(rows) \in Nat
  BY DEF OrderedRows
<1>2. \A i \in ids : rows[i].effective \in Nat /\ i \in Nat
  BY RowTypes
<1>3. PICK m \in ids : \A j \in ids : j <= m
  BY <1>1, NewestExists
<1>4. \A j \in ids \ {m} : PrecedesIn(rows, j, m)
  <2>1. SUFFICES ASSUME NEW j \in ids \ {m} PROVE PrecedesIn(rows, j, m)
    OBVIOUS
  <2>2. j < m
    BY <1>2, <1>3
  <2>3. rows[j].effective <= rows[m].effective
    BY <2>2 DEF OrderedRows
  <2> QED BY <1>2, <2>2, <2>3 DEF PrecedesIn
<1>5. LastIn(rows, ids) \in ids
      /\ \A j \in ids \ {LastIn(rows, ids)} : PrecedesIn(rows, j, LastIn(rows, ids))
  BY <1>4 DEF LastIn
<1>6. LastIn(rows, ids) = m
  <2>1. SUFFICES ASSUME LastIn(rows, ids) # m PROVE FALSE
    OBVIOUS
  <2>2. PrecedesIn(rows, m, LastIn(rows, ids)) /\ PrecedesIn(rows, LastIn(rows, ids), m)
    BY <1>4, <1>5, <2>1
  <2> QED BY <1>2, <1>5, <2>2 DEF PrecedesIn
<1> QED BY <1>3, <1>6

\* The events of one enrollment are read back in the order they were recorded.
LEMMA LastIsNewest ==
  ASSUME Sound, NEW e, NEW ids \in SUBSET (DOMAIN phaseEvents), ids # {},
         \A i \in ids : phaseEvents[i].enrollment = e
  PROVE  Last(ids) \in ids /\ \A j \in ids : j <= Last(ids)
<1>1. OrderedRows(phaseEvents)
  BY DEF Sound, TypeOK, Clocked, OrderedRows
<1>2. Last(ids) = LastIn(phaseEvents, ids)
  BY DEF Last, LastIn, Precedes, PrecedesIn
<1> QED BY <1>1, <1>2, LastInIsNewest

LEMMA PhaseEventsOfShape ==
  ASSUME Sound, NEW e, NEW epoch, NEW kinds
  PROVE  /\ PhaseEventsOf(e, epoch, kinds) \in SUBSET (DOMAIN phaseEvents)
         /\ \A i \in PhaseEventsOf(e, epoch, kinds) : phaseEvents[i].enrollment = e
BY DEF PhaseEventsOf

LEMMA CurrentPhaseType ==
  ASSUME Sound, NEW e PROVE CurrentPhase(e) \in Phases \union {NoPhase}
<1> DEFINE moves == PhaseEventsOf(e, Epoch(e), MoveKinds)
<1>1. CASE moves = {}
  BY <1>1 DEF CurrentPhase, PhaseAfter
<1>2. CASE moves # {}
  <2>1. Last(moves) \in DOMAIN phaseEvents
    <3>1. /\ moves \in SUBSET (DOMAIN phaseEvents)
          /\ \A i \in moves : phaseEvents[i].enrollment = e
      BY PhaseEventsOfShape
    <3> HIDE DEF moves
    <3>2. Last(moves) \in moves
      BY <1>2, <3>1, LastIsNewest
    <3> QED BY <3>1, <3>2
  <2>2. phaseEvents[Last(moves)].to \in Phases \union {NoPhase}
    BY <2>1, PhaseEventTypes DEF Sound
  <2> QED BY <1>2, <2>2 DEF CurrentPhase, PhaseAfter
<1> QED BY <1>1, <1>2

LEMMA EpochIsNewest ==
  ASSUME Sound, NEW e
  PROVE  /\ Epoch(e) \in Nat
         /\ VersionChanges(e) \subseteq DOMAIN lifecycle
         /\ DOMAIN lifecycle = 1..Len(lifecycle) /\ Len(lifecycle) \in Nat
         /\ Epoch(e) # 0 => Epoch(e) \in VersionChanges(e)
         /\ \A j \in VersionChanges(e) : j <= Epoch(e)
<1>1. /\ VersionChanges(e) \subseteq DOMAIN lifecycle
      /\ DOMAIN lifecycle = 1..Len(lifecycle) /\ Len(lifecycle) \in Nat
  BY DEF Sound, TypeOK, EnrollmentsTypeOK, VersionChanges, EventsOf
<1>2. CASE VersionChanges(e) = {}
  BY <1>1, <1>2 DEF Epoch
<1>3. CASE VersionChanges(e) # {}
  <2>1. /\ Newest(VersionChanges(e)) \in VersionChanges(e)
        /\ \A j \in VersionChanges(e) : j <= Newest(VersionChanges(e))
    BY <1>1, <1>3, NewestIsNewest
  <2>2. Epoch(e) = Newest(VersionChanges(e))
    BY <1>3 DEF Epoch
  <2> QED BY <1>1, <2>1, <2>2
<1> QED BY <1>2, <1>3

(***************************************************************************)
(* Every step keeps the rows sound.                                        *)
(***************************************************************************)
LEMMA SoundInitially == Init => Sound
<1> SUFFICES ASSUME Init PROVE Sound
  OBVIOUS
<1>1. EnrollmentsTypeOK
  BY EnrollmentsTypesInitially DEF Init
<1>2. TypeOK
  BY <1>1 DEF Init, TypeOK
<1>3. Referenced /\ Clocked
  BY DEF Init, EnrollmentsInit, Referenced, Clocked, NoRequest
<1> QED BY <1>2, <1>3 DEF Sound

LEMMA LifecycleTypes ==
  ASSUME EnrollmentsTypeOK, NEW i \in DOMAIN lifecycle
  PROVE  /\ i \in Nat /\ lifecycle[i] \in LifecycleEvent
         /\ lifecycle[i].at \in Nat /\ lifecycle[i].enrollment \in Nat
<1>1. i \in Nat /\ lifecycle[i] \in LifecycleEvent
  BY DEF EnrollmentsTypeOK
<1> QED BY <1>1 DEF LifecycleEvent

\* A lifecycle row is the newest and carries the latest instant.
LEMMA LifecycleAppended ==
  ASSUME Sound, NEW e \in DOMAIN enrollments, NEW kind, NEW from, NEW to,
         lifecycle' = Append(lifecycle, LifecycleRow(e, kind, from, to))
  PROVE  LET n == Len(lifecycle) + 1
         IN  /\ n \in Nat /\ n \notin DOMAIN lifecycle
             /\ DOMAIN lifecycle' = DOMAIN lifecycle \union {n}
             /\ \A i \in DOMAIN lifecycle : lifecycle'[i] = lifecycle[i] /\ i < n
             /\ lifecycle'[n] = LifecycleRow(e, kind, from, to)
BY DEF Sound, TypeOK, EnrollmentsTypeOK

LEMMA EnrollmentStepsKeepSound ==
  ASSUME Sound, EnrollmentsNext, UNCHANGED <<phaseEvents, signoffs, signing>>
  PROVE  Sound'
<1>1. EnrollmentsTypeOK /\ EnrollmentsTypeOK'
  BY EnrollmentsTypesKept DEF Sound, TypeOK
<1>2. DOMAIN enrollments \subseteq DOMAIN enrollments'
  BY <1>1, EnrollmentsKeepTheirTrainees
<1>3. TypeOK'
  BY <1>1 DEF Sound, TypeOK
<1>4. clock <= clock' /\ clock \in Nat /\ clock' \in Nat
  BY <1>1, EnrollmentStepCases
<1>5. /\ \A i \in DOMAIN lifecycle' : /\ lifecycle'[i].enrollment \in DOMAIN enrollments'
                                      /\ lifecycle'[i].at <= clock'
      /\ \A i, j \in DOMAIN lifecycle' : i < j => lifecycle'[i].at <= lifecycle'[j].at
  <2>1. \A i \in DOMAIN lifecycle : lifecycle[i].at \in Nat
    BY <1>1, LifecycleTypes
  <2>2. CASE UNCHANGED lifecycle
    BY <1>2, <1>4, <2>1, <2>2 DEF Sound, Referenced, Clocked
  <2>3. ASSUME NEW e \in DOMAIN enrollments, NEW kind, NEW from, NEW to,
               lifecycle' = Append(lifecycle, LifecycleRow(e, kind, from, to)),
               UNCHANGED clock
        PROVE <1>5!1 /\ <1>5!2
    <3> DEFINE n == Len(lifecycle) + 1
               row == LifecycleRow(e, kind, from, to)
    <3>1. /\ n \in Nat /\ DOMAIN lifecycle' = DOMAIN lifecycle \union {n}
          /\ \A i \in DOMAIN lifecycle : lifecycle'[i] = lifecycle[i] /\ i < n
          /\ lifecycle'[n] = row
      BY <2>3, LifecycleAppended
    <3>2. row.enrollment = e /\ row.at = clock
      BY DEF LifecycleRow
    <3> HIDE DEF n, row
    <3>3. \A i \in DOMAIN lifecycle : i \in Nat
      BY <1>1, LifecycleTypes
    <3>4. \A i \in DOMAIN lifecycle : /\ lifecycle[i].at <= clock
                                      /\ lifecycle[i].enrollment \in DOMAIN enrollments
      BY DEF Sound, Referenced, Clocked
    <3>5. ASSUME NEW i \in DOMAIN lifecycle', NEW j \in DOMAIN lifecycle', i < j
          PROVE lifecycle'[i].at <= lifecycle'[j].at
      <4>1. CASE j = n /\ i \in DOMAIN lifecycle
        BY <3>1, <3>2, <3>4, <4>1
      <4>2. CASE j \in DOMAIN lifecycle /\ i \in DOMAIN lifecycle
        BY <3>1, <3>5, <4>2 DEF Sound, Clocked
      <4>3. i # n
        BY <3>1, <3>3, <3>5
      <4> QED BY <3>1, <4>1, <4>2, <4>3
    <3>6. ASSUME NEW i \in DOMAIN lifecycle'
          PROVE /\ lifecycle'[i].enrollment \in DOMAIN enrollments'
                /\ lifecycle'[i].at <= clock'
      <4>1. CASE i \in DOMAIN lifecycle
        BY <1>2, <2>3, <3>1, <3>4, <4>1
      <4>2. CASE i = n
        BY <1>2, <1>4, <2>3, <3>1, <3>2, <4>2
      <4> QED BY <3>1, <4>1, <4>2
    <3> QED BY <3>5, <3>6
  <2>4. ASSUME NEW e \in DOMAIN enrollments, NEW kind \in LifecycleKinds, Turn(e, kind)
        PROVE /\ lifecycle' = Append(lifecycle, LifecycleRow(e, kind, NoVersion, NoVersion))
              /\ UNCHANGED clock
    BY <2>4 DEF Turn
  <2>5. ASSUME NEW e \in DOMAIN enrollments, NEW to \in Versions, ChangeVersion(e, to)
        PROVE /\ lifecycle' = Append(lifecycle, LifecycleRow(e, "version_change",
                                                             enrollments[e].version, to))
              /\ UNCHANGED clock
    BY <2>5 DEF ChangeVersion
  <2>6. ASSUME NEW e \in DOMAIN enrollments, NEW kind \in LifecycleKinds, Turn(e, kind)
        PROVE <1>5!1 /\ <1>5!2
    BY <2>3, <2>4, <2>6
  <2>7. ASSUME NEW e \in DOMAIN enrollments, NEW to \in Versions, ChangeVersion(e, to)
        PROVE <1>5!1 /\ <1>5!2
    BY <2>3, <2>5, <2>7
  <2> QED BY <1>1, <2>2, <2>6, <2>7, EnrollmentStepCases
<1>6. /\ \A i \in DOMAIN signoffs : signoffs[i].at \in Nat
      /\ \A i \in DOMAIN phaseEvents : phaseEvents[i].recorded \in Nat
  <2>1. \A i \in DOMAIN signoffs : signoffs[i] \in Signoff
    BY DEF Sound, TypeOK
  <2> QED BY <2>1, PhaseEventTypes DEF Sound, Signoff
<1>7. Referenced'
  BY <1>2, <1>5 DEF Sound, Referenced
<1>8. Clocked'
  BY <1>4, <1>5, <1>6 DEF Sound, Clocked
<1> QED BY <1>3, <1>7, <1>8 DEF Sound

\* The row a phase event leaves, of whichever kind.
Recorded(e, kind, to, effective) ==
  LET row == PhaseRow(e, kind, CurrentPhase(e), to, effective)
  IN  /\ kind \in MoveKinds =>
           /\ ~IsPaused(e)
           /\ to \in Phases /\ PhaseVersion[to] = enrollments[e].version
           /\ Follows(CurrentPhase(e), kind, to)
      /\ kind \notin MoveKinds =>
           /\ to = NoPhase
           /\ CurrentPhase(e) # NoPhase
           /\ IsPaused(e) = (kind = "resume")
      /\ InOrder(e, effective)
      /\ phaseEvents' = Append(phaseEvents, row)
      /\ UNCHANGED <<enrollmentVars, signoffs, signing>>

PhaseEventStep ==
  \/ \E e \in DOMAIN enrollments, kind \in MoveKinds, to \in Phases, t \in 0..clock :
       Move(e, kind, to, t)
  \/ \E e \in DOMAIN enrollments, kind \in PauseKinds \union {"complete"},
        t \in 0..clock : Mark(e, kind, t)

LEMMA PhaseEventStepRecords ==
  ASSUME PhaseEventStep
  PROVE  \E e \in DOMAIN enrollments, kind \in PhaseKinds, to \in Phases \union {NoPhase},
            t \in 0..clock : Recorded(e, kind, to, t)
<1>1. ASSUME NEW e \in DOMAIN enrollments, NEW kind \in MoveKinds, NEW to \in Phases,
             NEW t \in 0..clock, Move(e, kind, to, t)
      PROVE Recorded(e, kind, to, t)
  BY <1>1 DEF Move, RecordPhase, PhaseRow, Recorded
<1>2. ASSUME NEW e \in DOMAIN enrollments, NEW kind \in PauseKinds \union {"complete"},
             NEW t \in 0..clock, Mark(e, kind, t)
      PROVE Recorded(e, kind, NoPhase, t)
  BY <1>2 DEF Mark, RecordPhase, PhaseRow, Recorded, MoveKinds, PauseKinds
<1> QED BY <1>1, <1>2 DEF PhaseEventStep, PhaseKinds

LEMMA RecordedRow ==
  ASSUME Sound, NEW e \in DOMAIN enrollments, NEW kind \in PhaseKinds,
         NEW to \in Phases \union {NoPhase}, NEW t \in 0..clock, Recorded(e, kind, to, t)
  PROVE  LET n == Len(phaseEvents) + 1
             row == PhaseRow(e, kind, CurrentPhase(e), to, t)
         IN  /\ n \in Nat /\ n \notin DOMAIN phaseEvents
             /\ DOMAIN phaseEvents' = DOMAIN phaseEvents \union {n}
             /\ \A i \in DOMAIN phaseEvents :
                  phaseEvents'[i] = phaseEvents[i] /\ i < n /\ i \in Nat
             /\ phaseEvents'[n] = row
             /\ phaseEvents' \in Seq(PhaseEvent)
<1> DEFINE row == PhaseRow(e, kind, CurrentPhase(e), to, t)
<1>1. /\ e \in Nat /\ t \in Nat /\ clock \in Nat
      /\ Epoch(e) \in Nat /\ CurrentPhase(e) \in Phases \union {NoPhase}
  BY EnrollmentType, CurrentPhaseType, EpochIsNewest DEF Sound, TypeOK, EnrollmentsTypeOK
<1>2. row \in PhaseEvent
  BY <1>1 DEF PhaseRow, PhaseEvent
<1>3. phaseEvents \in Seq(PhaseEvent) /\ phaseEvents' = Append(phaseEvents, row)
  BY DEF Sound, TypeOK, Recorded
<1> HIDE DEF row
<1>4. /\ phaseEvents' \in Seq(PhaseEvent)
      /\ DOMAIN phaseEvents' = DOMAIN phaseEvents \union {Len(phaseEvents) + 1}
      /\ \A i \in DOMAIN phaseEvents : phaseEvents'[i] = phaseEvents[i]
      /\ phaseEvents'[Len(phaseEvents) + 1] = row
  BY <1>2, <1>3, AppendTypes
<1>5. /\ Len(phaseEvents) + 1 \in Nat
      /\ \A i \in DOMAIN phaseEvents : i \in Nat /\ i < Len(phaseEvents) + 1
  BY <1>3
<1> QED BY <1>4, <1>5 DEF row

LEMMA PhaseEventsKeepSound ==
  ASSUME Sound, NEW e \in DOMAIN enrollments, NEW kind \in PhaseKinds,
         NEW to \in Phases \union {NoPhase}, NEW t \in 0..clock, Recorded(e, kind, to, t)
  PROVE  Sound'
<1> DEFINE n == Len(phaseEvents) + 1
           row == PhaseRow(e, kind, CurrentPhase(e), to, t)
<1>1. /\ n \in Nat /\ n \notin DOMAIN phaseEvents
      /\ DOMAIN phaseEvents' = DOMAIN phaseEvents \union {n}
      /\ \A i \in DOMAIN phaseEvents :
           phaseEvents'[i] = phaseEvents[i] /\ i < n /\ i \in Nat
      /\ phaseEvents'[n] = row
      /\ phaseEvents' \in Seq(PhaseEvent)
  BY RecordedRow
<1>2. row.enrollment = e /\ row.effective = t /\ row.recorded = clock
  BY DEF PhaseRow
<1> HIDE DEF n, row
<1>3. UNCHANGED <<clock, enrollments, lifecycle, assigned, signoffs, signing>>
  BY DEF Recorded, enrollmentVars
<1>4. TypeOK'
  BY <1>1, <1>3 DEF Sound, TypeOK, EnrollmentsTypeOK
<1>5. Referenced'
  BY <1>1, <1>2, <1>3 DEF Sound, Referenced
<1>6. \A i \in DOMAIN phaseEvents :
        phaseEvents[i].enrollment = e => phaseEvents[i].effective <= t
  BY DEF Recorded, InOrder
<1>7. ASSUME NEW i \in DOMAIN phaseEvents', NEW j \in DOMAIN phaseEvents', i < j,
             phaseEvents'[i].enrollment = phaseEvents'[j].enrollment
      PROVE phaseEvents'[i].effective <= phaseEvents'[j].effective
  <2>1. CASE i \in DOMAIN phaseEvents /\ j \in DOMAIN phaseEvents
    BY <1>1, <1>7, <2>1 DEF Sound, Clocked
  <2>2. CASE i \in DOMAIN phaseEvents /\ j = n
    BY <1>1, <1>2, <1>6, <1>7, <2>2
  <2>3. i # n
    BY <1>1, <1>7
  <2> QED BY <1>1, <2>1, <2>2, <2>3
<1>8. clock <= clock
  BY DEF Sound, TypeOK, EnrollmentsTypeOK
<1>9. \A i \in DOMAIN phaseEvents' : phaseEvents'[i].recorded <= clock'
  BY <1>1, <1>2, <1>3, <1>8 DEF Sound, Clocked
<1>10. Clocked'
  BY <1>3, <1>7, <1>9 DEF Sound, Clocked
<1> QED BY <1>4, <1>5, <1>10 DEF Sound

LEMMA RequestTypes ==
  ASSUME TypeOK, NEW u \in Signers, signing[u].enrollment # 0
  PROVE  signing[u] \in Request /\ signing[u].task \in Tasks
         /\ signing[u].enrollment \in Nat
<1>1. signing[u] \in Request
  BY DEF TypeOK, NoRequest
<1> QED BY <1>1 DEF Request

LEMMA SignoffAppended ==
  ASSUME Sound, NEW u \in Signers, NEW kind \in SignoffKinds, SignoffTx(u, kind)
  PROVE  /\ signoffs' \in Seq(Signoff)
         /\ DOMAIN signoffs' = DOMAIN signoffs \union {Len(signoffs) + 1}
         /\ \A i \in DOMAIN signoffs : signoffs'[i] = signoffs[i]
         /\ signoffs'[Len(signoffs) + 1].enrollment = signing[u].enrollment
         /\ signoffs'[Len(signoffs) + 1].task = signing[u].task
         /\ signoffs'[Len(signoffs) + 1].kind = kind
         /\ signoffs'[Len(signoffs) + 1].by = u
         /\ signoffs'[Len(signoffs) + 1].at = clock
<1> DEFINE row == [enrollment |-> signing[u].enrollment, task |-> signing[u].task,
                   kind |-> kind, by |-> u, at |-> clock]
<1>1. signing[u].enrollment \in Nat /\ signing[u].task \in Tasks /\ clock \in Nat
  BY RequestTypes DEF SignoffTx, Sound, TypeOK, EnrollmentsTypeOK
<1>2. row \in Signoff
  BY <1>1 DEF Signoff
<1>3. signoffs \in Seq(Signoff) /\ signoffs' = Append(signoffs, row)
  BY DEF Sound, TypeOK, SignoffTx
<1> HIDE DEF row
<1>4. /\ signoffs' \in Seq(Signoff)
      /\ DOMAIN signoffs' = DOMAIN signoffs \union {Len(signoffs) + 1}
      /\ \A i \in DOMAIN signoffs : signoffs'[i] = signoffs[i]
      /\ signoffs'[Len(signoffs) + 1] = row
  BY <1>2, <1>3, AppendTypes
<1>5. /\ row.enrollment = signing[u].enrollment /\ row.task = signing[u].task
      /\ row.kind = kind /\ row.by = u /\ row.at = clock
  BY DEF row
<1> QED BY <1>4, <1>5

LEMMA SignoffStepsKeepSound ==
  ASSUME Sound, NEW u \in Signers,
         \/ \E e \in DOMAIN enrollments, task \in Tasks : SignoffGate(u, e, task)
         \/ \E kind \in SignoffKinds : SignoffTx(u, kind)
         \/ SignoffDropped(u)
  PROVE  Sound'
<1>1. ASSUME UNCHANGED <<enrollmentVars, phaseEvents>>,
             signoffs' \in Seq(Signoff), signing' \in [Signers -> Request \union {NoRequest}],
             \A i \in DOMAIN signoffs' : /\ signoffs'[i].enrollment \in DOMAIN enrollments
                                         /\ signoffs'[i].at <= clock,
             \A w \in Signers : signing'[w].enrollment # 0 =>
                                  signing'[w].enrollment \in DOMAIN enrollments
      PROVE Sound'
  <2>1. UNCHANGED <<clock, enrollments, lifecycle, assigned>>
    BY <1>1 DEF enrollmentVars
  <2>2. TypeOK'
    BY <1>1, <2>1 DEF Sound, TypeOK, EnrollmentsTypeOK
  <2>3. Referenced' /\ Clocked'
    BY <1>1, <2>1 DEF Sound, Referenced, Clocked
  <2> QED BY <2>2, <2>3 DEF Sound
<1>2. ASSUME signing' = [signing EXCEPT ![u] = NoRequest]
      PROVE /\ signing' \in [Signers -> Request \union {NoRequest}]
            /\ \A w \in Signers : signing'[w].enrollment # 0 =>
                                    signing'[w].enrollment \in DOMAIN enrollments
  BY <1>2 DEF Sound, TypeOK, Referenced, NoRequest
<1>3. ASSUME NEW e \in DOMAIN enrollments, NEW task \in Tasks, SignoffGate(u, e, task)
      PROVE Sound'
  <2> DEFINE request == [enrollment |-> e, task |-> task, scope |-> InScope(u, e)]
  <2>1. e \in Nat \ {0}
    BY EnrollmentType DEF Sound, TypeOK
  <2>2. InScope(u, e) \in BOOLEAN
    BY DEF InScope
  <2>3. request \in Request /\ request.enrollment = e
    BY <2>1, <2>2 DEF Request
  <2>4. /\ signing' = [signing EXCEPT ![u] = request]
        /\ UNCHANGED <<enrollmentVars, phaseEvents, signoffs>>
    BY <1>3 DEF SignoffGate
  <2> HIDE DEF request
  <2>5. /\ signing' \in [Signers -> Request \union {NoRequest}]
        /\ \A w \in Signers : signing'[w].enrollment # 0 =>
                                signing'[w].enrollment \in DOMAIN enrollments
    BY <2>3, <2>4 DEF Sound, TypeOK, Referenced
  <2>6. /\ signoffs' \in Seq(Signoff)
        /\ \A i \in DOMAIN signoffs' : /\ signoffs'[i].enrollment \in DOMAIN enrollments
                                       /\ signoffs'[i].at <= clock
    BY <2>4 DEF Sound, TypeOK, Referenced, Clocked
  <2> QED BY <1>1, <2>4, <2>5, <2>6
<1>4. ASSUME NEW kind \in SignoffKinds, SignoffTx(u, kind) PROVE Sound'
  <2>1. /\ signing[u].enrollment \in DOMAIN enrollments
        /\ signing' = [signing EXCEPT ![u] = NoRequest]
        /\ UNCHANGED <<enrollmentVars, phaseEvents>>
    BY <1>4 DEF SignoffTx, Sound, Referenced
  <2>2. clock <= clock
    BY DEF Sound, TypeOK, EnrollmentsTypeOK
  <2>3. \A i \in DOMAIN signoffs : /\ signoffs[i].enrollment \in DOMAIN enrollments
                                   /\ signoffs[i].at <= clock
    BY DEF Sound, Referenced, Clocked
  <2>4. /\ signoffs' \in Seq(Signoff)
        /\ \A i \in DOMAIN signoffs' : /\ signoffs'[i].enrollment \in DOMAIN enrollments
                                       /\ signoffs'[i].at <= clock
    <3> DEFINE n == Len(signoffs) + 1
    <3>1. /\ signoffs' \in Seq(Signoff) /\ DOMAIN signoffs' = DOMAIN signoffs \union {n}
          /\ \A i \in DOMAIN signoffs : signoffs'[i] = signoffs[i]
          /\ signoffs'[n].enrollment = signing[u].enrollment /\ signoffs'[n].at = clock
      BY <1>4, SignoffAppended
    <3> HIDE DEF n
    <3> QED BY <2>1, <2>2, <2>3, <3>1
  <2> QED BY <1>1, <1>2, <2>1, <2>4
<1>5. ASSUME SignoffDropped(u) PROVE Sound'
  <2>1. /\ signing' = [signing EXCEPT ![u] = NoRequest]
        /\ UNCHANGED <<enrollmentVars, phaseEvents, signoffs>>
    BY <1>5 DEF SignoffDropped
  <2>2. /\ signoffs' \in Seq(Signoff)
        /\ \A i \in DOMAIN signoffs' : /\ signoffs'[i].enrollment \in DOMAIN enrollments
                                       /\ signoffs'[i].at <= clock
    BY <2>1 DEF Sound, TypeOK, Referenced, Clocked
  <2> QED BY <1>1, <1>2, <2>1, <2>2
<1> QED BY <1>3, <1>4, <1>5

THEOREM SoundInductive == Sound /\ [Next]_vars => Sound'
<1> SUFFICES ASSUME Sound, [Next]_vars PROVE Sound'
  OBVIOUS
<1>1. CASE UNCHANGED vars
  BY <1>1 DEF vars, enrollmentVars, Sound, TypeOK, EnrollmentsTypeOK, Referenced, Clocked
<1>2. CASE EnrollmentsNext /\ UNCHANGED <<phaseEvents, signoffs, signing>>
  BY <1>2, EnrollmentStepsKeepSound
<1>3. CASE PhaseEventStep
  BY <1>3, PhaseEventStepRecords, PhaseEventsKeepSound
<1>4. ASSUME NEW u \in Signers,
             \/ \E e \in DOMAIN enrollments, task \in Tasks : SignoffGate(u, e, task)
             \/ \E kind \in SignoffKinds : SignoffTx(u, kind)
             \/ SignoffDropped(u)
      PROVE Sound'
  BY <1>4, SignoffStepsKeepSound
<1> QED BY <1>1, <1>2, <1>3, <1>4 DEF Next, PhaseEventStep

\* Every step keeps the history's rows and the signoffs in flight well typed.
THEOREM HistoryTypesHold == Spec => []TypeOK
<1>1. Sound => TypeOK
  BY DEF Sound
<1> QED BY <1>1, SoundInitially, SoundInductive, PTL DEF Spec

(***************************************************************************)
(* Pins and signoffs.                                                      *)
(***************************************************************************)
LEMMA PinsInductive == Sound /\ PinsAreDistinct /\ [Next]_vars => PinsAreDistinct'
<1> SUFFICES ASSUME Sound, PinsAreDistinct, [Next]_vars PROVE PinsAreDistinct'
  OBVIOUS
<1>1. enrollments \in Seq(Enrollment)
  BY DEF Sound, TypeOK, EnrollmentsTypeOK
<1>2. CASE UNCHANGED enrollments
  BY <1>2 DEF PinsAreDistinct
<1>3. ASSUME NEW u \in Trainees, NEW v \in Versions, Enroll(u, v) PROVE PinsAreDistinct'
  <2> DEFINE row == [user |-> u, version |-> v]
             n == Len(enrollments) + 1
  <2>1. row \in Enrollment /\ enrollments' = Append(enrollments, row)
    BY <1>3 DEF Enroll, Enrollment
  <2>2. \A e \in DOMAIN enrollments : enrollments[e] # row
    BY <1>3 DEF Enroll, Pins
  <2> HIDE DEF row
  <2>3. /\ DOMAIN enrollments' = DOMAIN enrollments \union {n}
        /\ \A e \in DOMAIN enrollments : enrollments'[e] = enrollments[e]
        /\ enrollments'[n] = row
    BY <1>1, <2>1, AppendTypes
  <2> QED BY <2>2, <2>3 DEF PinsAreDistinct
<1>4. ASSUME NEW d \in DOMAIN enrollments, NEW to \in Versions, ChangeVersion(d, to)
      PROVE PinsAreDistinct'
  <2> DEFINE row == [enrollments[d] EXCEPT !.version = to]
  <2>1. enrollments[d] \in Enrollment
    BY <1>1
  <2>2. row = [user |-> enrollments[d].user, version |-> to]
    BY <2>1 DEF Enrollment
  <2>3. \A e \in DOMAIN enrollments : enrollments[e] # row
    BY <1>4, <2>2 DEF ChangeVersion, TargetAdmitted, Pins
  <2>4. enrollments' = [enrollments EXCEPT ![d] = row]
    BY <1>4 DEF ChangeVersion
  <2> HIDE DEF row
  <2> QED BY <1>1, <2>3, <2>4 DEF PinsAreDistinct
<1> QED
  BY <1>2, <1>3, <1>4
     DEF Next, EnrollmentsNext, Tick, Assign, EndAssignment, Turn, Move, Mark, RecordPhase,
         SignoffGate, SignoffTx, SignoffDropped, vars, enrollmentVars

\* Neither enrolling nor changing versions ever pins one version twice.
THEOREM PinsStayDistinct == Spec => []PinsAreDistinct
<1>1. Init => PinsAreDistinct
  BY DEF Init, EnrollmentsInit, PinsAreDistinct
<1> QED BY <1>1, SoundInitially, SoundInductive, PinsInductive, PTL DEF Spec

LEMMA SupersessionInductive ==
  Sound /\ SupersedingSignoffsAreReviewed /\ [Next]_vars => SupersedingSignoffsAreReviewed'
<1> SUFFICES ASSUME Sound, SupersedingSignoffsAreReviewed, [Next]_vars
             PROVE  SupersedingSignoffsAreReviewed'
  OBVIOUS
<1>1. CASE UNCHANGED signoffs
  BY <1>1 DEF SupersedingSignoffsAreReviewed
<1>2. ASSUME NEW u \in Signers, NEW kind \in SignoffKinds, SignoffTx(u, kind)
      PROVE SupersedingSignoffsAreReviewed'
  <2> DEFINE n == Len(signoffs) + 1
             Supersedes(i) == \E j \in 1..(i - 1) :
                             /\ signoffs[j].enrollment = signoffs[i].enrollment
                             /\ signoffs[j].task = signoffs[i].task
             SupersedesNow(i) == \E j \in 1..(i - 1) :
                             /\ signoffs'[j].enrollment = signoffs'[i].enrollment
                             /\ signoffs'[j].task = signoffs'[i].task
  <2>1. /\ DOMAIN signoffs' = DOMAIN signoffs \union {n}
        /\ \A i \in DOMAIN signoffs : signoffs'[i] = signoffs[i]
        /\ signoffs'[n].enrollment = signing[u].enrollment
        /\ signoffs'[n].task = signing[u].task
        /\ signoffs'[n].by = u /\ signoffs'[n].kind = kind
    BY <1>2, SignoffAppended
  <2>2. DOMAIN signoffs = 1..(n - 1) /\ \A i \in DOMAIN signoffs : 1..(i - 1) \subseteq DOMAIN signoffs
    BY DEF Sound, TypeOK
  <2>3. \A i \in DOMAIN signoffs : SupersedesNow(i) = Supersedes(i)
    BY <2>1, <2>2
  <2>4. SupersedesNow(n) = Prior(signing[u].enrollment, signing[u].task)
    BY <2>1, <2>2 DEF Prior
  <2>5. IF Prior(signing[u].enrollment, signing[u].task) THEN u \in Reviewers
        ELSE kind # "revoked"
    BY <1>2 DEF SignoffTx, SignoffAdmitted
  <2>6. \A i \in DOMAIN signoffs :
          IF Supersedes(i) THEN signoffs[i].by \in Reviewers ELSE signoffs[i].kind # "revoked"
    BY DEF SupersedingSignoffsAreReviewed
  <2>7. \A i \in DOMAIN signoffs' :
          IF SupersedesNow(i) THEN signoffs'[i].by \in Reviewers
          ELSE signoffs'[i].kind # "revoked"
    <3> HIDE DEF Supersedes, SupersedesNow, n
    <3> QED BY <2>1, <2>3, <2>4, <2>5, <2>6
  <2> QED BY <2>7 DEF SupersedingSignoffsAreReviewed
<1> QED
  BY <1>1, <1>2
     DEF Next, Move, Mark, RecordPhase, SignoffGate, SignoffDropped, vars

\* Two signers may race for the first row; whoever comes second reviews.
THEOREM SupersessionsAreReviewed == Spec => []SupersedingSignoffsAreReviewed
<1>1. Init => SupersedingSignoffsAreReviewed
  BY DEF Init, SupersedingSignoffsAreReviewed
<1> QED BY <1>1, SoundInitially, SoundInductive, SupersessionInductive, PTL DEF Spec

(***************************************************************************)
(* The walk.                                                               *)
(***************************************************************************)
LEMMA WalkIsParametric ==
  /\ PhaseHistoryIsAWalk <=> WalkIn(phaseEvents)
  /\ PhaseHistoryIsAWalk' <=> WalkIn(phaseEvents')
<1>1. \A ids : Last(ids) = LastIn(phaseEvents, ids)
  BY DEF Last, LastIn, Precedes, PrecedesIn
<1>2. \A ids : PhaseAfter(ids) = PhaseIn(phaseEvents, ids)
               /\ PausedAfter(ids) = PausedIn(phaseEvents, ids)
  BY <1>1 DEF PhaseAfter, PausedAfter, PhaseIn, PausedIn
<1>3. \A i, kinds : Earlier(i, kinds) = EarlierIn(phaseEvents, i, kinds)
  BY DEF Earlier, EarlierIn, PhaseEventsOf, OfEpoch, Precedes, PrecedesIn
<1>4. PhaseHistoryIsAWalk <=> WalkIn(phaseEvents)
  BY <1>2, <1>3 DEF PhaseHistoryIsAWalk, WalkIn, Walks
<1>5. \A ids : Last(ids)' = LastIn(phaseEvents', ids)
  BY DEF Last, LastIn, Precedes, PrecedesIn
<1>6. \A ids : PhaseAfter(ids)' = PhaseIn(phaseEvents', ids)
               /\ PausedAfter(ids)' = PausedIn(phaseEvents', ids)
  BY <1>5 DEF PhaseAfter, PausedAfter, PhaseIn, PausedIn
<1>7. \A i, kinds : Earlier(i, kinds)' = EarlierIn(phaseEvents', i, kinds)
  BY DEF Earlier, EarlierIn, PhaseEventsOf, OfEpoch, Precedes, PrecedesIn
<1>8. PhaseHistoryIsAWalk' <=> WalkIn(phaseEvents')
  BY <1>6, <1>7 DEF PhaseHistoryIsAWalk, WalkIn, Walks
<1> QED BY <1>4, <1>8

\* In rows so ordered, what is shown before a row is what was recorded before it.
LEMMA EarlierIsBefore ==
  ASSUME NEW rows, OrderedRows(rows), NEW i \in DOMAIN rows, NEW kinds
  PROVE  EarlierIn(rows, i, kinds)
           = {j \in OfEpoch(rows, rows[i].enrollment, rows[i].epoch, kinds) : j < i}
<1>1. ASSUME NEW j \in OfEpoch(rows, rows[i].enrollment, rows[i].epoch, kinds)
      PROVE PrecedesIn(rows, j, i) <=> j < i
  <2>1. j \in DOMAIN rows /\ rows[j].enrollment = rows[i].enrollment
    BY DEF OfEpoch
  <2>2. /\ i \in Nat /\ rows[i].effective \in Nat
        /\ j \in Nat /\ rows[j].effective \in Nat
    BY <2>1, RowTypes
  <2>3. /\ j < i => rows[j].effective <= rows[i].effective
        /\ i < j => rows[i].effective <= rows[j].effective
    BY <2>1 DEF OrderedRows
  <2> QED BY <2>2, <2>3 DEF PrecedesIn
<1> QED BY <1>1 DEF EarlierIn

\* later is rows with the row n at its end.
Lengthened(rows, later, n) ==
  /\ DOMAIN later = DOMAIN rows \union {n}
  /\ n \notin DOMAIN rows
  /\ \A i \in DOMAIN rows : later[i] = rows[i] /\ i < n /\ i \in Nat

\* A row at the end changes nothing of what the rows before it say.
LEMMA PhaseInLengthened ==
  ASSUME NEW rows, NEW later, NEW n, OrderedRows(rows), OrderedRows(later),
         Lengthened(rows, later, n),
         NEW e, NEW ids \in SUBSET (DOMAIN rows), \A i \in ids : rows[i].enrollment = e
  PROVE  PhaseIn(later, ids) = PhaseIn(rows, ids) /\ PausedIn(later, ids) = PausedIn(rows, ids)
<1>1. CASE ids = {}
  BY <1>1 DEF PhaseIn, PausedIn
<1>2. CASE ids # {}
  <2>1. LastIn(rows, ids) \in ids /\ \A j \in ids : j <= LastIn(rows, ids)
    BY <1>2, LastInIsNewest
  <2>2. ids \in SUBSET (DOMAIN later) /\ \A i \in ids : later[i].enrollment = e
    BY DEF Lengthened
  <2>3. LastIn(later, ids) \in ids /\ \A j \in ids : j <= LastIn(later, ids)
    BY <1>2, <2>2, LastInIsNewest
  <2>4. LastIn(rows, ids) \in Nat /\ LastIn(later, ids) \in Nat
    BY <2>1, <2>3 DEF Lengthened
  <2>5. LastIn(later, ids) = LastIn(rows, ids)
    BY <2>1, <2>3, <2>4
  <2>6. later[LastIn(rows, ids)] = rows[LastIn(rows, ids)]
    BY <2>1 DEF Lengthened
  <2> QED BY <2>5, <2>6 DEF PhaseIn, PausedIn
<1> QED BY <1>1, <1>2

LEMMA WalkLengthened ==
  ASSUME NEW rows, NEW later, NEW n, OrderedRows(rows), OrderedRows(later),
         Lengthened(rows, later, n), WalkIn(rows),
         Walks(later[n], OfEpoch(rows, later[n].enrollment, later[n].epoch, MoveKinds),
               OfEpoch(rows, later[n].enrollment, later[n].epoch, PauseKinds), rows)
  PROVE  WalkIn(later)
<1>1. ASSUME NEW i \in DOMAIN rows, NEW kinds
      PROVE EarlierIn(later, i, kinds) = EarlierIn(rows, i, kinds)
  <2>1. i \in DOMAIN later /\ later[i] = rows[i]
    BY DEF Lengthened
  <2>2. {j \in OfEpoch(later, rows[i].enrollment, rows[i].epoch, kinds) : j < i}
          = {j \in OfEpoch(rows, rows[i].enrollment, rows[i].epoch, kinds) : j < i}
    <3>1. n \in Nat /\ i \in Nat /\ i < n
      <4>1. n \in DOMAIN later
        BY DEF Lengthened
      <4> QED BY <4>1, RowTypes DEF Lengthened
    <3>2. ~(n < i)
      BY <3>1
    <3> QED BY <3>2 DEF OfEpoch, Lengthened
  <2> QED BY <2>1, <2>2, EarlierIsBefore
<1>2. ASSUME NEW kinds
      PROVE EarlierIn(later, n, kinds)
              = OfEpoch(rows, later[n].enrollment, later[n].epoch, kinds)
  <2>1. n \in DOMAIN later /\ n \in Nat
    <3>1. n \in DOMAIN later
      BY DEF Lengthened
    <3> QED BY <3>1, RowTypes
  <2>2. {j \in OfEpoch(later, later[n].enrollment, later[n].epoch, kinds) : j < n}
          = OfEpoch(rows, later[n].enrollment, later[n].epoch, kinds)
    <3>1. ~(n < n)
      BY <2>1
    <3> QED BY <3>1 DEF OfEpoch, Lengthened
  <2> QED BY <2>1, <2>2, EarlierIsBefore
<1>3. ASSUME NEW p, NEW e, NEW moves \in SUBSET (DOMAIN rows),
             NEW pauses \in SUBSET (DOMAIN rows),
             \A i \in moves \union pauses : rows[i].enrollment = e
      PROVE Walks(p, moves, pauses, later) <=> Walks(p, moves, pauses, rows)
  <2>1. PhaseIn(later, moves) = PhaseIn(rows, moves)
    BY <1>3, PhaseInLengthened
  <2>2. PausedIn(later, pauses) = PausedIn(rows, pauses)
    BY <1>3, PhaseInLengthened
  <2> QED BY <2>1, <2>2 DEF Walks
<1>4. ASSUME NEW i \in DOMAIN rows
      PROVE Walks(later[i], EarlierIn(later, i, MoveKinds), EarlierIn(later, i, PauseKinds),
                  later)
  <2> DEFINE moves == EarlierIn(rows, i, MoveKinds)
             pauses == EarlierIn(rows, i, PauseKinds)
  <2>1. /\ moves \in SUBSET (DOMAIN rows) /\ pauses \in SUBSET (DOMAIN rows)
        /\ \A j \in moves \union pauses : rows[j].enrollment = rows[i].enrollment
    BY DEF EarlierIn, OfEpoch
  <2>2. Walks(rows[i], moves, pauses, rows)
    BY DEF WalkIn
  <2>3. later[i] = rows[i]
    BY DEF Lengthened
  <2>4. EarlierIn(later, i, MoveKinds) = moves /\ EarlierIn(later, i, PauseKinds) = pauses
    BY <1>1
  <2> HIDE DEF moves, pauses
  <2>5. Walks(rows[i], moves, pauses, later)
    BY <1>3, <2>1, <2>2
  <2> QED BY <2>3, <2>4, <2>5
<1>5. Walks(later[n], EarlierIn(later, n, MoveKinds), EarlierIn(later, n, PauseKinds), later)
  <2> DEFINE moves == OfEpoch(rows, later[n].enrollment, later[n].epoch, MoveKinds)
             pauses == OfEpoch(rows, later[n].enrollment, later[n].epoch, PauseKinds)
  <2>1. /\ moves \in SUBSET (DOMAIN rows) /\ pauses \in SUBSET (DOMAIN rows)
        /\ \A j \in moves \union pauses : rows[j].enrollment = later[n].enrollment
    BY DEF OfEpoch
  <2>2. Walks(later[n], moves, pauses, rows)
    OBVIOUS
  <2>3. EarlierIn(later, n, MoveKinds) = moves /\ EarlierIn(later, n, PauseKinds) = pauses
    BY <1>2
  <2> HIDE DEF moves, pauses
  <2>4. Walks(later[n], moves, pauses, later)
    BY <1>3, <2>1, <2>2
  <2> QED BY <2>3, <2>4
<1> QED BY <1>4, <1>5 DEF WalkIn, Lengthened

\* What a recorded event was derived from is what its epoch held before it.
LEMMA RecordedWalks ==
  ASSUME Sound, Sound', WalkIn(phaseEvents), NEW e \in DOMAIN enrollments,
         NEW kind \in PhaseKinds, NEW to \in Phases \union {NoPhase}, NEW t \in 0..clock,
         Recorded(e, kind, to, t)
  PROVE  WalkIn(phaseEvents')
<1> DEFINE n == Len(phaseEvents) + 1
           row == PhaseRow(e, kind, CurrentPhase(e), to, t)
           moves == OfEpoch(phaseEvents, e, Epoch(e), MoveKinds)
           pauses == OfEpoch(phaseEvents, e, Epoch(e), PauseKinds)
<1>1. Lengthened(phaseEvents, phaseEvents', n) /\ phaseEvents'[n] = row
  BY RecordedRow DEF Lengthened
<1>2. OrderedRows(phaseEvents) /\ OrderedRows(phaseEvents')
  BY DEF Sound, TypeOK, Clocked, OrderedRows
<1>3. /\ row.enrollment = e /\ row.epoch = Epoch(e) /\ row.kind = kind
      /\ row.from = CurrentPhase(e) /\ row.to = to
  BY DEF PhaseRow
<1>4. PhaseIn(phaseEvents, moves) = CurrentPhase(e)
  BY DEF CurrentPhase, PhaseAfter, PhaseIn, Last, LastIn, Precedes, PrecedesIn,
         PhaseEventsOf, OfEpoch
<1>5. PausedIn(phaseEvents, pauses) = IsPaused(e)
  BY DEF IsPaused, PausedAfter, PausedIn, Last, LastIn, Precedes, PrecedesIn,
         PhaseEventsOf, OfEpoch
<1>6. Walks(row, moves, pauses, phaseEvents)
  <2> HIDE DEF row, moves, pauses
  <2>1. (kind \in MoveKinds) => kind # "resume"
    BY DEF MoveKinds
  <2>2. IsPaused(e) \in BOOLEAN
    BY DEF IsPaused, PausedAfter
  <2>3. IsPaused(e) = (kind = "resume")
    BY <2>1, <2>2 DEF Recorded
  <2>4. IF kind \in MoveKinds THEN Follows(CurrentPhase(e), kind, to)
        ELSE CurrentPhase(e) # NoPhase
    BY DEF Recorded
  <2> QED BY <1>3, <1>4, <1>5, <2>3, <2>4 DEF Walks
<1> HIDE DEF n, row
<1> QED BY <1>1, <1>2, <1>3, <1>6, WalkLengthened

LEMMA WalkInductive == Sound /\ PhaseHistoryIsAWalk /\ [Next]_vars => PhaseHistoryIsAWalk'
<1> SUFFICES ASSUME Sound, PhaseHistoryIsAWalk, [Next]_vars PROVE PhaseHistoryIsAWalk'
  OBVIOUS
<1>1. Sound' /\ WalkIn(phaseEvents)
  BY SoundInductive, WalkIsParametric
<1>2. CASE UNCHANGED phaseEvents
  BY <1>1, <1>2, WalkIsParametric
<1>3. CASE PhaseEventStep
  BY <1>1, <1>3, PhaseEventStepRecords, RecordedWalks, WalkIsParametric
<1> QED
  BY <1>2, <1>3 DEF Next, PhaseEventStep, SignoffGate, SignoffTx, SignoffDropped, vars

\* However an event is backdated, each epoch's history reads as a walk.
THEOREM HistoriesWalk == Spec => []PhaseHistoryIsAWalk
<1>1. Init => PhaseHistoryIsAWalk
  BY DEF Init, PhaseHistoryIsAWalk
<1> QED BY <1>1, SoundInitially, SoundInductive, WalkInductive, PTL DEF Spec

(***************************************************************************)
(* The pin timeline, with the rows as parameters: L of enrollment_event, S *)
(* of task_signoff, P of phase_event, and v the version enrollment e pins. *)
(***************************************************************************)
ChangesIn(L, e) ==
  {i \in DOMAIN L : L[i].enrollment = e /\ L[i].kind = "version_change"}
NewestIn(L, e) == IF ChangesIn(L, e) = {} THEN 0 ELSE Newest(ChangesIn(L, e))
ClosingIn(L, e, k) ==
  {j \in ChangesIn(L, e) : j > k /\ \A i \in ChangesIn(L, e) : i > k => j <= i}
FirstIn(L, e) == CHOOSE j \in ClosingIn(L, e, 0) : TRUE
VersionIn(L, e, v, k) ==
  IF k # 0 THEN L[k].to ELSE IF ChangesIn(L, e) = {} THEN v ELSE L[FirstIn(L, e)].from
IncludesIn(L, e, k, instant) ==
  /\ k # 0 => L[k].at <= instant
  /\ \A j \in ClosingIn(L, e, k) : instant <= L[j].at

CoheresIn(L, e, v) ==
  /\ \A k \in {0} \union ChangesIn(L, e) : \A j \in ClosingIn(L, e, k) :
       L[j].from = VersionIn(L, e, v, k) /\ (k # 0 => L[k].at <= L[j].at)
  /\ VersionIn(L, e, v, NewestIn(L, e)) = v

SignoffIn(L, e, v, task, at) ==
  \E k \in {0} \union ChangesIn(L, e) :
    VersionIn(L, e, v, k) = TaskVersion[task] /\ IncludesIn(L, e, k, at)
SignoffsIn(L, e, v, S) ==
  \A i \in DOMAIN S : S[i].enrollment = e => SignoffIn(L, e, v, S[i].task, S[i].at)

PhaseEventIn(L, e, v, p) ==
  /\ p.epoch \in {0} \union ChangesIn(L, e)
  /\ \A phase \in {p.from, p.to} \ {NoPhase} :
       PhaseVersion[phase] = VersionIn(L, e, v, p.epoch)
  /\ p.epoch # 0 => L[p.epoch].at <= p.effective
  /\ IncludesIn(L, e, p.epoch, p.recorded)
PhaseEventsIn(L, e, v, P) ==
  \A i \in DOMAIN P : P[i].enrollment = e => PhaseEventIn(L, e, v, P[i])

VerifiesIn(L, e, v, S, P) ==
  CoheresIn(L, e, v) /\ SignoffsIn(L, e, v, S) /\ PhaseEventsIn(L, e, v, P)

LEMMA TimelineIsParametric ==
  ASSUME NEW e
  PROVE  /\ VersionChanges(e) = ChangesIn(lifecycle, e)
         /\ Epoch(e) = NewestIn(lifecycle, e)
         /\ \A k : Closing(e, k) = ClosingIn(lifecycle, e, k)
         /\ \A k : EpochVersion(e, k) = VersionIn(lifecycle, e, enrollments[e].version, k)
         /\ \A k, t : Includes(e, k, t) = IncludesIn(lifecycle, e, k, t)
<1>1. VersionChanges(e) = ChangesIn(lifecycle, e)
  BY DEF VersionChanges, EventsOf, ChangesIn
<1>2. \A k : Closing(e, k) = ClosingIn(lifecycle, e, k)
  BY <1>1 DEF Closing, ClosingIn
<1>3. Epoch(e) = NewestIn(lifecycle, e)
  BY <1>1 DEF Epoch, NewestIn
<1>4. \A k : EpochVersion(e, k) = VersionIn(lifecycle, e, enrollments[e].version, k)
  <2>1. Closing(e, 0) = ClosingIn(lifecycle, e, 0)
    BY <1>2
  <2>2. (CHOOSE j \in Closing(e, 0) : TRUE) = FirstIn(lifecycle, e)
    BY <2>1 DEF FirstIn
  <2>3. SUFFICES ASSUME NEW k
                 PROVE  EpochVersion(e, k) = VersionIn(lifecycle, e, enrollments[e].version, k)
    OBVIOUS
  <2>4. CASE k # 0
    BY <2>4 DEF EpochVersion, VersionIn
  <2>5. CASE k = 0 /\ VersionChanges(e) = {}
    BY <1>1, <2>5 DEF EpochVersion, VersionIn
  <2>6. CASE k = 0 /\ VersionChanges(e) # {}
    <3>1. EpochVersion(e, k) = lifecycle[CHOOSE j \in Closing(e, 0) : TRUE].from
      BY <2>6, Zenon DEF EpochVersion
    <3>2. VersionIn(lifecycle, e, enrollments[e].version, k) = lifecycle[FirstIn(lifecycle, e)].from
      BY <1>1, <2>6 DEF VersionIn
    <3>3. EpochVersion(e, k) = lifecycle[FirstIn(lifecycle, e)].from
      BY <2>2, <3>1, Zenon
    <3> QED BY <3>2, <3>3
  <2> QED BY <2>4, <2>5, <2>6
<1>5. \A k, t : Includes(e, k, t) = IncludesIn(lifecycle, e, k, t)
  BY <1>2 DEF Includes, IncludesIn
<1> QED BY <1>1, <1>2, <1>3, <1>4, <1>5

LEMMA VerdictIsParametric ==
  PacketVerifies <=>
    \A e \in DOMAIN enrollments :
      VerifiesIn(lifecycle, e, enrollments[e].version, signoffs, phaseEvents)
<1> SUFFICES ASSUME NEW e \in DOMAIN enrollments
             PROVE  (PinHistoryCoheres(e) /\ SignoffsExplained(e) /\ PhaseEventsExplained(e))
                      <=> VerifiesIn(lifecycle, e, enrollments[e].version, signoffs, phaseEvents)
  BY Zenon DEF PacketVerifies
<1> DEFINE v == enrollments[e].version
<1>0. /\ Epochs(e) = {0} \union ChangesIn(lifecycle, e)
      /\ VersionChanges(e) = ChangesIn(lifecycle, e) /\ Epoch(e) = NewestIn(lifecycle, e)
      /\ \A k : Closing(e, k) = ClosingIn(lifecycle, e, k)
      /\ \A k : EpochVersion(e, k) = VersionIn(lifecycle, e, v, k)
      /\ \A k, t : Includes(e, k, t) = IncludesIn(lifecycle, e, k, t)
  BY TimelineIsParametric DEF Epochs
<1> HIDE DEF v
<1>1. PinHistoryCoheres(e) <=> CoheresIn(lifecycle, e, v)
  <2>1. \A k : ClosingIn(lifecycle, e, k) \subseteq ChangesIn(lifecycle, e)
    BY DEF ClosingIn
  <2> QED BY <1>0, <2>1 DEF PinHistoryCoheres, CoheresIn, v
<1>2. SignoffsExplained(e) <=> SignoffsIn(lifecycle, e, v, signoffs)
  BY <1>0 DEF SignoffsExplained, SignoffsIn, SignoffIn
<1>3. PhaseEventsExplained(e) <=> PhaseEventsIn(lifecycle, e, v, phaseEvents)
  BY <1>0 DEF PhaseEventsExplained, PhaseEventsIn, PhaseEventIn
<1> QED BY <1>1, <1>2, <1>3 DEF VerifiesIn, v

\* Later rows M keep, of the timeline L gave e, the version of each epoch, its opening
\* and the instants it has included by now.
KeepsTimeline(L, M, e, v, w, now) ==
  \A k \in {0} \union ChangesIn(L, e) :
    /\ k \in {0} \union ChangesIn(M, e)
    /\ VersionIn(M, e, w, k) = VersionIn(L, e, v, k)
    /\ k # 0 => M[k].at = L[k].at
    /\ \A t \in Nat : t <= now /\ IncludesIn(L, e, k, t) => IncludesIn(M, e, k, t)

LEMMA KeptTimelineExplains ==
  ASSUME NEW L, NEW M, NEW e, NEW v, NEW w, NEW now, NEW S, NEW P,
         KeepsTimeline(L, M, e, v, w, now),
         \A i \in DOMAIN S : S[i].at \in Nat /\ S[i].at <= now,
         \A i \in DOMAIN P : P[i].recorded \in Nat /\ P[i].recorded <= now
  PROVE  /\ SignoffsIn(L, e, v, S) => SignoffsIn(M, e, w, S)
         /\ PhaseEventsIn(L, e, v, P) => PhaseEventsIn(M, e, w, P)
<1>1. ASSUME SignoffsIn(L, e, v, S), NEW i \in DOMAIN S, S[i].enrollment = e
      PROVE  SignoffIn(M, e, w, S[i].task, S[i].at)
  <2>1. SignoffIn(L, e, v, S[i].task, S[i].at)
    BY <1>1 DEF SignoffsIn
  <2>2. PICK k \in {0} \union ChangesIn(L, e) :
          VersionIn(L, e, v, k) = TaskVersion[S[i].task] /\ IncludesIn(L, e, k, S[i].at)
    BY <2>1, Zenon DEF SignoffIn
  <2>3. /\ k \in {0} \union ChangesIn(M, e)
        /\ VersionIn(M, e, w, k) = VersionIn(L, e, v, k)
        /\ \A t \in Nat : t <= now /\ IncludesIn(L, e, k, t) => IncludesIn(M, e, k, t)
    BY Zenon DEF KeepsTimeline
  <2>4. IncludesIn(M, e, k, S[i].at)
    BY <1>1, <2>2, <2>3
  <2> QED BY <2>2, <2>3, <2>4, Zenon DEF SignoffIn
<1>2. ASSUME PhaseEventsIn(L, e, v, P), NEW i \in DOMAIN P, P[i].enrollment = e
      PROVE  PhaseEventIn(M, e, w, P[i])
  <2>1. PhaseEventIn(L, e, v, P[i])
    BY <1>2 DEF PhaseEventsIn
  <2> DEFINE k == P[i].epoch
  <2>2. /\ k \in {0} \union ChangesIn(L, e)
        /\ \A phase \in {P[i].from, P[i].to} \ {NoPhase} :
             PhaseVersion[phase] = VersionIn(L, e, v, k)
        /\ k # 0 => L[k].at <= P[i].effective
        /\ IncludesIn(L, e, k, P[i].recorded)
    BY <2>1, Zenon DEF PhaseEventIn
  <2>3. /\ k \in {0} \union ChangesIn(M, e)
        /\ VersionIn(M, e, w, k) = VersionIn(L, e, v, k)
        /\ k # 0 => M[k].at = L[k].at
        /\ \A t \in Nat : t <= now /\ IncludesIn(L, e, k, t) => IncludesIn(M, e, k, t)
    BY <2>2, Zenon DEF KeepsTimeline
  <2>4. IncludesIn(M, e, k, P[i].recorded)
    BY <1>2, <2>2, <2>3
  <2>5. k # 0 => M[k].at <= P[i].effective
    BY <2>2, <2>3
  <2> QED BY <2>2, <2>3, <2>4, <2>5, Zenon DEF PhaseEventIn
<1> QED BY <1>1, <1>2 DEF SignoffsIn, PhaseEventsIn

LEMMA FirstChange ==
  ASSUME NEW L, NEW e, ChangesIn(L, e) \subseteq Nat \ {0}, ChangesIn(L, e) # {}
  PROVE  FirstIn(L, e) \in ClosingIn(L, e, 0)
<1>1. PICK m \in ChangesIn(L, e) : \A k \in ChangesIn(L, e) : m <= k
  BY OldestExists
<1>2. m \in ClosingIn(L, e, 0)
  BY <1>1 DEF ClosingIn
<1> QED BY <1>2 DEF FirstIn

\* Rows that change no version of e leave its timeline alone.
LEMMA TimelineUntouched ==
  ASSUME NEW L, NEW M, NEW e, NEW v, NEW now,
         ChangesIn(M, e) = ChangesIn(L, e), \A i \in ChangesIn(L, e) : M[i] = L[i],
         ChangesIn(L, e) \subseteq Nat \ {0},
         NewestIn(L, e) \in {0} \union ChangesIn(L, e)
  PROVE  /\ KeepsTimeline(L, M, e, v, v, now)
         /\ CoheresIn(L, e, v) => CoheresIn(M, e, v)
<1>1. \A k : ClosingIn(M, e, k) = ClosingIn(L, e, k)
  BY DEF ClosingIn
<1>2. \A k : ClosingIn(L, e, k) \subseteq ChangesIn(L, e)
  BY DEF ClosingIn
<1>3. ASSUME NEW k \in {0} \union ChangesIn(L, e)
      PROVE  /\ VersionIn(M, e, v, k) = VersionIn(L, e, v, k)
             /\ k # 0 => M[k] = L[k]
             /\ \A t : IncludesIn(M, e, k, t) <=> IncludesIn(L, e, k, t)
  <2>1. k # 0 => M[k] = L[k]
    OBVIOUS
  <2>2. VersionIn(M, e, v, k) = VersionIn(L, e, v, k)
    <3>1. ClosingIn(M, e, 0) = ClosingIn(L, e, 0)
      BY <1>1
    <3>2. FirstIn(M, e) = FirstIn(L, e)
      BY <3>1, Zenon DEF FirstIn
    <3>3. ASSUME ChangesIn(L, e) # {} PROVE L[FirstIn(L, e)] = M[FirstIn(L, e)]
      BY <1>2, <3>3, FirstChange
    <3> QED BY <2>1, <3>2, <3>3 DEF VersionIn
  <2>3. \A t : IncludesIn(M, e, k, t) <=> IncludesIn(L, e, k, t)
    BY <1>1, <1>2, <2>1 DEF IncludesIn
  <2> QED BY <2>1, <2>2, <2>3
<1> QED BY <1>1, <1>2, <1>3 DEF KeepsTimeline, CoheresIn, NewestIn

\* A row that changes e's version to its own closes the newest epoch, and moves no other.
LEMMA TimelineExtended ==
  ASSUME NEW L, NEW M, NEW e, NEW v, NEW now \in Nat, NEW n \in Nat \ {0},
         ChangesIn(M, e) = ChangesIn(L, e) \union {n}, \A i \in ChangesIn(L, e) : M[i] = L[i],
         ChangesIn(L, e) \subseteq Nat \ {0}, \A i \in ChangesIn(L, e) : i < n,
         NewestIn(L, e) \in {0} \union ChangesIn(L, e),
         \A i \in ChangesIn(L, e) : i <= NewestIn(L, e),
         \A i \in ChangesIn(L, e) : L[i].at \in Nat /\ L[i].at <= now,
         M[n].from = v, M[n].at = now,
         CoheresIn(L, e, v)
  PROVE  /\ KeepsTimeline(L, M, e, v, M[n].to, now)
         /\ CoheresIn(M, e, M[n].to)
<1> DEFINE C == ChangesIn(L, e)
           top == NewestIn(L, e)
           w == M[n].to
<1>1. ASSUME NEW k \in {0} \union C, k # top PROVE ClosingIn(M, e, k) = ClosingIn(L, e, k)
  <2>1. top \in C /\ top > k /\ top < n
    BY <1>1
  <2>2. ASSUME NEW j \in ClosingIn(L, e, k) PROVE j \in ClosingIn(M, e, k)
    BY <2>2 DEF ClosingIn
  <2>3. ASSUME NEW j \in ClosingIn(M, e, k) PROVE j \in ClosingIn(L, e, k)
    <3>1. j <= top
      BY <2>1, <2>3 DEF ClosingIn
    <3> QED BY <2>1, <2>3, <3>1 DEF ClosingIn
  <2> QED BY <2>2, <2>3
<1>2. ClosingIn(M, e, top) = {n} /\ ClosingIn(L, e, top) = {}
  <2>1. ClosingIn(L, e, top) = {}
    BY DEF ClosingIn
  <2>2. top < n
    OBVIOUS
  <2>3. n \in ClosingIn(M, e, top)
    BY <2>2 DEF ClosingIn
  <2>4. ASSUME NEW j \in ClosingIn(M, e, top) PROVE j = n
    BY <2>4 DEF ClosingIn
  <2> QED BY <2>1, <2>3, <2>4
<1>3. ClosingIn(M, e, n) = {}
  BY DEF ClosingIn
<1>4. ASSUME NEW k \in {0} \union C PROVE VersionIn(M, e, w, k) = VersionIn(L, e, v, k)
  <2>1. CASE k # 0
    BY <2>1 DEF VersionIn
  <2>2. CASE k = 0 /\ C = {}
    <3>1. FirstIn(M, e) = n
      BY <1>2, <2>2 DEF FirstIn, NewestIn
    <3> QED BY <2>2, <3>1 DEF VersionIn
  <2>3. CASE k = 0 /\ C # {}
    <3>1. ClosingIn(M, e, 0) = ClosingIn(L, e, 0)
      <4>1. top # 0
        BY <2>3
      <4> QED BY <1>1, <4>1
    <3>2. FirstIn(M, e) = FirstIn(L, e)
      BY <3>1, Zenon DEF FirstIn
    <3>3. FirstIn(L, e) \in C
      BY <2>3, FirstChange DEF ClosingIn
    <3> QED BY <2>3, <3>2, <3>3 DEF VersionIn
  <2> QED BY <2>1, <2>2, <2>3
<1>5. VersionIn(M, e, w, n) = w
  BY DEF VersionIn
<1>6. NewestIn(M, e) = n
  <2>1. \A j \in C \union {n} : j \in Nat /\ j <= n
    OBVIOUS
  <2>2. Newest(C \union {n}) = n
    BY <2>1 DEF Newest
  <2> QED BY <2>2 DEF NewestIn
<1>7. \A k : ClosingIn(L, e, k) \subseteq C
  BY DEF ClosingIn
<1>8. KeepsTimeline(L, M, e, v, w, now)
  <2>1. ASSUME NEW k \in {0} \union C, NEW t \in Nat, t <= now, IncludesIn(L, e, k, t)
        PROVE  IncludesIn(M, e, k, t)
    <3>1. k # 0 => M[k].at <= t
      BY <2>1 DEF IncludesIn
    <3>2. ASSUME NEW j \in ClosingIn(M, e, k) PROVE t <= M[j].at
      <4>1. CASE k = top
        BY <1>2, <2>1, <4>1
      <4>2. CASE k # top
        BY <1>1, <1>7, <2>1, <4>2 DEF IncludesIn
      <4> QED BY <4>1, <4>2
    <3> QED BY <3>1, <3>2 DEF IncludesIn
  <2> QED BY <1>4, <2>1 DEF KeepsTimeline
<1>9. CoheresIn(M, e, w)
  <2>1. ASSUME NEW k \in {0} \union C \union {n}, NEW j \in ClosingIn(M, e, k)
        PROVE  M[j].from = VersionIn(M, e, w, k) /\ (k # 0 => M[k].at <= M[j].at)
    <3>1. CASE k = n
      BY <1>3, <3>1
    <3>2. CASE k = top
      <4>1. j = n /\ VersionIn(L, e, v, top) = v
        BY <1>2, <3>2 DEF CoheresIn
      <4> QED BY <1>4, <3>2, <4>1
    <3>3. CASE k \in {0} \union C /\ k # top
      <4>1. j \in ClosingIn(L, e, k) /\ j \in C
        BY <1>1, <1>7, <3>3
      <4>2. L[j].from = VersionIn(L, e, v, k) /\ (k # 0 => L[k].at <= L[j].at)
        BY <3>3, <4>1 DEF CoheresIn
      <4> QED BY <1>4, <3>3, <4>1, <4>2
    <3> QED BY <3>1, <3>2, <3>3
  <2> QED BY <1>5, <1>6, <2>1 DEF CoheresIn
<1> QED BY <1>8, <1>9

LEMMA TimelineIsParametricNext ==
  ASSUME NEW e
  PROVE  /\ VersionChanges(e)' = ChangesIn(lifecycle', e)
         /\ Epoch(e)' = NewestIn(lifecycle', e)
         /\ \A k : Closing(e, k)' = ClosingIn(lifecycle', e, k)
         /\ \A k : EpochVersion(e, k)' = VersionIn(lifecycle', e, enrollments'[e].version, k)
         /\ \A k, t : Includes(e, k, t)' = IncludesIn(lifecycle', e, k, t)
<1>1. VersionChanges(e)' = ChangesIn(lifecycle', e)
  BY DEF VersionChanges, EventsOf, ChangesIn
<1>2. \A k : Closing(e, k)' = ClosingIn(lifecycle', e, k)
  BY <1>1 DEF Closing, ClosingIn
<1>3. Epoch(e)' = NewestIn(lifecycle', e)
  BY <1>1 DEF Epoch, NewestIn
<1>4. \A k : EpochVersion(e, k)' = VersionIn(lifecycle', e, enrollments'[e].version, k)
  <2>1. Closing(e, 0)' = ClosingIn(lifecycle', e, 0)
    BY <1>2
  <2>2. (CHOOSE j \in Closing(e, 0)' : TRUE) = FirstIn(lifecycle', e)
    BY <2>1 DEF FirstIn
  <2>3. SUFFICES ASSUME NEW k
                 PROVE  EpochVersion(e, k)'
                          = VersionIn(lifecycle', e, enrollments'[e].version, k)
    OBVIOUS
  <2>4. CASE k # 0
    BY <2>4 DEF EpochVersion, VersionIn
  <2>5. CASE k = 0 /\ VersionChanges(e)' = {}
    BY <1>1, <2>5 DEF EpochVersion, VersionIn
  <2>6. CASE k = 0 /\ VersionChanges(e)' # {}
    <3>1. EpochVersion(e, k)' = lifecycle'[CHOOSE j \in Closing(e, 0)' : TRUE].from
      BY <2>6, Zenon DEF EpochVersion
    <3>2. VersionIn(lifecycle', e, enrollments'[e].version, k) = lifecycle'[FirstIn(lifecycle', e)].from
      BY <1>1, <2>6 DEF VersionIn
    <3>3. EpochVersion(e, k)' = lifecycle'[FirstIn(lifecycle', e)].from
      BY <2>2, <3>1, Zenon
    <3> QED BY <3>2, <3>3
  <2> QED BY <2>4, <2>5, <2>6
<1>5. \A k, t : Includes(e, k, t)' = IncludesIn(lifecycle', e, k, t)
  BY <1>2 DEF Includes, IncludesIn
<1> QED BY <1>1, <1>2, <1>3, <1>4, <1>5

LEMMA VerdictIsParametricNext ==
  PacketVerifies' <=>
    \A e \in DOMAIN enrollments' :
      VerifiesIn(lifecycle', e, enrollments'[e].version, signoffs', phaseEvents')
<1> SUFFICES ASSUME NEW e \in DOMAIN enrollments'
             PROVE  (PinHistoryCoheres(e)' /\ SignoffsExplained(e)' /\ PhaseEventsExplained(e)')
                      <=> VerifiesIn(lifecycle', e, enrollments'[e].version, signoffs', phaseEvents')
  BY Zenon DEF PacketVerifies
<1> DEFINE v == enrollments'[e].version
<1>0. /\ Epochs(e)' = {0} \union ChangesIn(lifecycle', e)
      /\ VersionChanges(e)' = ChangesIn(lifecycle', e) /\ Epoch(e)' = NewestIn(lifecycle', e)
      /\ \A k : Closing(e, k)' = ClosingIn(lifecycle', e, k)
      /\ \A k : EpochVersion(e, k)' = VersionIn(lifecycle', e, v, k)
      /\ \A k, t : Includes(e, k, t)' = IncludesIn(lifecycle', e, k, t)
  BY TimelineIsParametricNext DEF Epochs
<1>00. EpochVersion(e, Epoch(e))' = VersionIn(lifecycle', e, v, NewestIn(lifecycle', e))
  <2>1. CASE Epoch(e)' # 0
    BY <1>0, <2>1 DEF EpochVersion, VersionIn
  <2>2. CASE Epoch(e)' = 0
    <3>1. EpochVersion(e, Epoch(e))' = EpochVersion(e, 0)'
      <4>1. CASE VersionChanges(e)' = {}
        BY <2>2, <4>1 DEF EpochVersion
      <4>2. CASE VersionChanges(e)' # {}
        <5>1. EpochVersion(e, Epoch(e))' = lifecycle'[CHOOSE j \in Closing(e, 0)' : TRUE].from
          BY <2>2, <4>2, Zenon DEF EpochVersion
        <5>2. EpochVersion(e, 0)' = lifecycle'[CHOOSE j \in Closing(e, 0)' : TRUE].from
          BY <4>2, Zenon DEF EpochVersion
        <5> QED BY <5>1, <5>2, Zenon
      <4> QED BY <4>1, <4>2
    <3> QED BY <1>0, <2>2, <3>1
  <2> QED BY <2>1, <2>2
<1> HIDE DEF v
<1>1. PinHistoryCoheres(e)' <=> CoheresIn(lifecycle', e, v)
  <2>1. \A k : ClosingIn(lifecycle', e, k) \subseteq ChangesIn(lifecycle', e)
    BY DEF ClosingIn
  <2> QED BY <1>0, <1>00, <2>1 DEF PinHistoryCoheres, CoheresIn, v
<1>2. SignoffsExplained(e)' <=> SignoffsIn(lifecycle', e, v, signoffs')
  BY <1>0 DEF SignoffsExplained, SignoffsIn, SignoffIn
<1>3. PhaseEventsExplained(e)' <=> PhaseEventsIn(lifecycle', e, v, phaseEvents')
  BY <1>0 DEF PhaseEventsExplained, PhaseEventsIn, PhaseEventIn
<1> QED BY <1>1, <1>2, <1>3 DEF VerifiesIn, v

(***************************************************************************)
(* Every step keeps what the verifier accepts.                             *)
(***************************************************************************)
LEMMA TimelineShape ==
  ASSUME Sound, NEW e
  PROVE  /\ ChangesIn(lifecycle, e) \subseteq Nat \ {0}
         /\ NewestIn(lifecycle, e) \in {0} \union ChangesIn(lifecycle, e)
         /\ \A i \in ChangesIn(lifecycle, e) :
              /\ i \in DOMAIN lifecycle /\ i <= NewestIn(lifecycle, e)
              /\ lifecycle[i].at \in Nat /\ lifecycle[i].at <= clock
<1>1. /\ ChangesIn(lifecycle, e) \subseteq DOMAIN lifecycle
      /\ DOMAIN lifecycle = 1..Len(lifecycle) /\ Len(lifecycle) \in Nat
      /\ NewestIn(lifecycle, e) \in {0} \union ChangesIn(lifecycle, e)
      /\ \A i \in ChangesIn(lifecycle, e) : i <= NewestIn(lifecycle, e)
  BY EpochIsNewest, TimelineIsParametric
<1>2. \A i \in DOMAIN lifecycle : lifecycle[i].at \in Nat /\ lifecycle[i].at <= clock
  BY LifecycleTypes DEF Sound, TypeOK, Clocked
<1> QED BY <1>1, <1>2

\* An enrollment nothing was recorded for.
LEMMA FreshVerifies ==
  ASSUME NEW L, NEW e, NEW v, NEW S, NEW P,
         \A i \in DOMAIN L : L[i].enrollment # e,
         \A i \in DOMAIN S : S[i].enrollment # e,
         \A i \in DOMAIN P : P[i].enrollment # e
  PROVE  VerifiesIn(L, e, v, S, P)
<1>1. ChangesIn(L, e) = {}
  BY DEF ChangesIn
<1>2. CoheresIn(L, e, v)
  BY <1>1 DEF CoheresIn, ClosingIn, NewestIn, VersionIn
<1> QED BY <1>2 DEF VerifiesIn, SignoffsIn, PhaseEventsIn

LEMMA RowInstants ==
  ASSUME Sound
  PROVE  /\ \A i \in DOMAIN signoffs : signoffs[i].at \in Nat /\ signoffs[i].at <= clock
         /\ \A i \in DOMAIN phaseEvents :
              phaseEvents[i].recorded \in Nat /\ phaseEvents[i].recorded <= clock
<1>1. \A i \in DOMAIN signoffs : signoffs[i] \in Signoff
  BY DEF Sound, TypeOK
<1> QED BY <1>1, PhaseEventTypes DEF Sound, Clocked, Signoff

LEMMA EnrollmentStepsKeepVerdict ==
  ASSUME Sound, EnrollmentsNext, UNCHANGED <<phaseEvents, signoffs, signing>>,
         \A e \in DOMAIN enrollments :
           VerifiesIn(lifecycle, e, enrollments[e].version, signoffs, phaseEvents),
         NEW e \in DOMAIN enrollments'
  PROVE  VerifiesIn(lifecycle', e, enrollments'[e].version, signoffs, phaseEvents)
<1>0. EnrollmentsTypeOK
  BY DEF Sound, TypeOK
<1>1. ASSUME e \in DOMAIN enrollments,
             KeepsTimeline(lifecycle, lifecycle', e, enrollments[e].version,
                           enrollments'[e].version, clock),
             CoheresIn(lifecycle', e, enrollments'[e].version)
      PROVE  VerifiesIn(lifecycle', e, enrollments'[e].version, signoffs, phaseEvents)
  <2> DEFINE v == enrollments[e].version
             w == enrollments'[e].version
  <2>1. SignoffsIn(lifecycle, e, v, signoffs) /\ PhaseEventsIn(lifecycle, e, v, phaseEvents)
    BY <1>1 DEF VerifiesIn
  <2>2. KeepsTimeline(lifecycle, lifecycle', e, v, w, clock)
    BY <1>1
  <2> HIDE DEF v, w
  <2>3. SignoffsIn(lifecycle', e, w, signoffs) /\ PhaseEventsIn(lifecycle', e, w, phaseEvents)
    BY <2>1, <2>2, RowInstants, KeptTimelineExplains
  <2> QED BY <1>1, <2>3 DEF VerifiesIn, w
<1>2. ASSUME e \in DOMAIN enrollments, enrollments'[e].version = enrollments[e].version,
             ChangesIn(lifecycle', e) = ChangesIn(lifecycle, e),
             \A i \in ChangesIn(lifecycle, e) : lifecycle'[i] = lifecycle[i]
      PROVE  VerifiesIn(lifecycle', e, enrollments'[e].version, signoffs, phaseEvents)
  <2>1. /\ KeepsTimeline(lifecycle, lifecycle', e, enrollments[e].version,
                         enrollments[e].version, clock)
        /\ CoheresIn(lifecycle, e, enrollments[e].version) =>
             CoheresIn(lifecycle', e, enrollments[e].version)
    BY <1>2, TimelineShape, TimelineUntouched
  <2>2. CoheresIn(lifecycle, e, enrollments[e].version)
    BY <1>2 DEF VerifiesIn
  <2> QED BY <1>1, <1>2, <2>1, <2>2
<1>3. CASE UNCHANGED lifecycle /\ \A d \in DOMAIN enrollments : enrollments'[d] = enrollments[d]
  <2>1. CASE e \in DOMAIN enrollments
    BY <1>2, <1>3, <2>1
  <2>2. CASE e \notin DOMAIN enrollments
    BY <1>3, <2>2, FreshVerifies DEF Sound, Referenced
  <2> QED BY <2>1, <2>2
<1>4. ASSUME NEW d \in DOMAIN enrollments, NEW kind \in LifecycleKinds \ {"version_change"},
             Turn(d, kind)
      PROVE  VerifiesIn(lifecycle', e, enrollments'[e].version, signoffs, phaseEvents)
  <2> DEFINE n == Len(lifecycle) + 1
  <2>1. enrollments' = enrollments
        /\ lifecycle' = Append(lifecycle, LifecycleRow(d, kind, NoVersion, NoVersion))
    BY <1>4 DEF Turn
  <2>2. /\ n \notin DOMAIN lifecycle /\ DOMAIN lifecycle' = DOMAIN lifecycle \union {n}
        /\ \A i \in DOMAIN lifecycle : lifecycle'[i] = lifecycle[i]
        /\ lifecycle'[n].kind = kind
    BY <2>1, LifecycleAppended DEF LifecycleRow
  <2> HIDE DEF n
  <2>3. /\ ChangesIn(lifecycle', e) = ChangesIn(lifecycle, e)
        /\ \A i \in ChangesIn(lifecycle, e) : lifecycle'[i] = lifecycle[i]
    BY <2>2 DEF ChangesIn
  <2> QED BY <1>2, <2>1, <2>3
<1>5. ASSUME NEW d \in DOMAIN enrollments, NEW to \in Versions, ChangeVersion(d, to)
      PROVE  VerifiesIn(lifecycle', e, enrollments'[e].version, signoffs, phaseEvents)
  <2> DEFINE n == Len(lifecycle) + 1
             row == LifecycleRow(d, "version_change", enrollments[d].version, to)
  <2>1. /\ lifecycle' = Append(lifecycle, row)
        /\ enrollments' = [enrollments EXCEPT ![d].version = to]
    BY <1>5 DEF ChangeVersion
  <2>2. /\ n \in Nat \ {0} /\ n \notin DOMAIN lifecycle
        /\ DOMAIN lifecycle' = DOMAIN lifecycle \union {n}
        /\ \A i \in DOMAIN lifecycle : lifecycle'[i] = lifecycle[i] /\ i < n
        /\ lifecycle'[n] = row
    <3>1. Len(lifecycle) \in Nat
      BY <1>0 DEF EnrollmentsTypeOK
    <3> QED BY <2>1, <3>1, LifecycleAppended
  <2>3. /\ row.enrollment = d /\ row.kind = "version_change" /\ row.at = clock
        /\ row.from = enrollments[d].version /\ row.to = to
    BY DEF LifecycleRow
  <2>4. /\ e \in DOMAIN enrollments
        /\ e # d => enrollments'[e] = enrollments[e]
        /\ e = d => enrollments'[e].version = to
    <3>1. enrollments[d] \in Enrollment
      BY <1>0, EnrollmentType
    <3> QED BY <2>1, <3>1 DEF Enrollment
  <2> HIDE DEF n, row
  <2>5. CASE e # d
    <3>1. /\ ChangesIn(lifecycle', e) = ChangesIn(lifecycle, e)
          /\ \A i \in ChangesIn(lifecycle, e) : lifecycle'[i] = lifecycle[i]
      BY <2>2, <2>3, <2>5 DEF ChangesIn
    <3> QED BY <1>2, <2>4, <2>5, <3>1
  <2>6. CASE e = d
    <3>1. ChangesIn(lifecycle', e) = ChangesIn(lifecycle, e) \union {n}
      BY <2>2, <2>3, <2>6 DEF ChangesIn
    <3>2. /\ \A i \in ChangesIn(lifecycle, e) : lifecycle'[i] = lifecycle[i] /\ i < n
          /\ lifecycle'[n].from = enrollments[e].version /\ lifecycle'[n].at = clock
          /\ lifecycle'[n].to = enrollments'[e].version
      BY <2>2, <2>3, <2>4, <2>6, TimelineShape
    <3>3. CoheresIn(lifecycle, e, enrollments[e].version) /\ clock \in Nat
      BY <1>0, <2>4 DEF VerifiesIn, EnrollmentsTypeOK
    <3> DEFINE v == enrollments[e].version
               M == lifecycle'
    <3>4. KeepsTimeline(lifecycle, M, e, v, M[n].to, clock) /\ CoheresIn(M, e, M[n].to)
      <4>1. /\ ChangesIn(lifecycle, e) \subseteq Nat \ {0}
            /\ NewestIn(lifecycle, e) \in {0} \union ChangesIn(lifecycle, e)
            /\ \A i \in ChangesIn(lifecycle, e) :
                 /\ i <= NewestIn(lifecycle, e)
                 /\ lifecycle[i].at \in Nat /\ lifecycle[i].at <= clock
        BY TimelineShape
      <4>2. /\ ChangesIn(M, e) = ChangesIn(lifecycle, e) \union {n} /\ n \in Nat \ {0}
            /\ \A i \in ChangesIn(lifecycle, e) : M[i] = lifecycle[i] /\ i < n
            /\ M[n].from = v /\ M[n].at = clock
            /\ CoheresIn(lifecycle, e, v) /\ clock \in Nat
        BY <2>2, <3>1, <3>2, <3>3
      <4> HIDE DEF v, M
      <4> QED BY <4>1, <4>2, TimelineExtended
    <3> QED BY <1>1, <2>4, <3>2, <3>4
  <2> QED BY <2>5, <2>6
<1> QED BY <1>0, <1>3, <1>4, <1>5, EnrollmentStepCases

\* What is recorded now lies in the newest epoch, whose version the enrollment pins.
LEMMA NewestIncludesNow ==
  ASSUME Sound, NEW e \in DOMAIN enrollments,
         CoheresIn(lifecycle, e, enrollments[e].version)
  PROVE  /\ VersionIn(lifecycle, e, enrollments[e].version, NewestIn(lifecycle, e))
              = enrollments[e].version
         /\ NewestIn(lifecycle, e) \in {0} \union ChangesIn(lifecycle, e)
         /\ IncludesIn(lifecycle, e, NewestIn(lifecycle, e), clock)
<1>1. ClosingIn(lifecycle, e, NewestIn(lifecycle, e)) = {}
  BY TimelineShape DEF ClosingIn
<1>2. NewestIn(lifecycle, e) # 0 => lifecycle[NewestIn(lifecycle, e)].at <= clock
  BY TimelineShape
<1> QED BY <1>1, <1>2, TimelineShape DEF CoheresIn, IncludesIn

LEMMA SignoffKeepsVerdict ==
  ASSUME Sound, NEW u \in Signers, NEW kind \in SignoffKinds, SignoffTx(u, kind),
         NEW e \in DOMAIN enrollments,
         VerifiesIn(lifecycle, e, enrollments[e].version, signoffs, phaseEvents)
  PROVE  VerifiesIn(lifecycle, e, enrollments[e].version, signoffs', phaseEvents)
<1> DEFINE v == enrollments[e].version
           n == Len(signoffs) + 1
<1>1. /\ DOMAIN signoffs' = DOMAIN signoffs \union {n}
      /\ \A i \in DOMAIN signoffs : signoffs'[i] = signoffs[i]
      /\ signoffs'[n].enrollment = signing[u].enrollment
      /\ signoffs'[n].task = signing[u].task /\ signoffs'[n].at = clock
  BY SignoffAppended
<1>2. ASSUME signing[u].enrollment = e PROVE SignoffIn(lifecycle, e, v, signing[u].task, clock)
  <2>1. TaskVersion[signing[u].task] = v
    BY <1>2 DEF SignoffTx, SignoffAccepted
  <2>2. CoheresIn(lifecycle, e, v)
    BY DEF VerifiesIn
  <2>3. /\ VersionIn(lifecycle, e, v, NewestIn(lifecycle, e)) = v
        /\ NewestIn(lifecycle, e) \in {0} \union ChangesIn(lifecycle, e)
        /\ IncludesIn(lifecycle, e, NewestIn(lifecycle, e), clock)
    BY <2>2, NewestIncludesNow
  <2> HIDE DEF v
  <2> QED BY <2>1, <2>3, Zenon DEF SignoffIn
<1> HIDE DEF n, v
<1>3. SignoffsIn(lifecycle, e, v, signoffs')
  BY <1>1, <1>2 DEF VerifiesIn, SignoffsIn, v
<1> QED BY <1>3 DEF VerifiesIn, v

\* The phase an enrollment stands in is one of the version it pins.
LEMMA CurrentPhaseIsPinned ==
  ASSUME Sound, NEW e \in DOMAIN enrollments,
         VerifiesIn(lifecycle, e, enrollments[e].version, signoffs, phaseEvents),
         CurrentPhase(e) # NoPhase
  PROVE  PhaseVersion[CurrentPhase(e)] = enrollments[e].version
<1> DEFINE moves == PhaseEventsOf(e, Epoch(e), MoveKinds)
           p == phaseEvents[Last(moves)]
<1>1. moves # {} /\ CurrentPhase(e) = p.to
  BY DEF CurrentPhase, PhaseAfter
<1>2. Last(moves) \in DOMAIN phaseEvents /\ p.enrollment = e /\ p.epoch = NewestIn(lifecycle, e)
  <2>1. /\ moves \in SUBSET (DOMAIN phaseEvents)
        /\ \A i \in moves : phaseEvents[i].enrollment = e
        /\ \A i \in moves : phaseEvents[i].epoch = Epoch(e)
    BY DEF PhaseEventsOf
  <2> HIDE DEF moves
  <2>2. Last(moves) \in moves
    BY <1>1, <2>1, LastIsNewest
  <2> QED BY <2>1, <2>2, TimelineIsParametric
<1>3. PhaseEventIn(lifecycle, e, enrollments[e].version, p)
  BY <1>2 DEF VerifiesIn, PhaseEventsIn
<1>4. VersionIn(lifecycle, e, enrollments[e].version, NewestIn(lifecycle, e))
        = enrollments[e].version
  BY DEF VerifiesIn, CoheresIn
<1> HIDE DEF p
<1> QED BY <1>1, <1>2, <1>3, <1>4 DEF PhaseEventIn

LEMMA PhaseEventKeepsVerdict ==
  ASSUME Sound, NEW d \in DOMAIN enrollments, NEW kind \in PhaseKinds,
         NEW to \in Phases \union {NoPhase}, NEW t \in 0..clock, Recorded(d, kind, to, t),
         NEW e \in DOMAIN enrollments,
         VerifiesIn(lifecycle, e, enrollments[e].version, signoffs, phaseEvents)
  PROVE  VerifiesIn(lifecycle, e, enrollments[e].version, signoffs, phaseEvents')
<1> DEFINE v == enrollments[e].version
           n == Len(phaseEvents) + 1
           row == PhaseRow(d, kind, CurrentPhase(d), to, t)
<1>1. /\ DOMAIN phaseEvents' = DOMAIN phaseEvents \union {n}
      /\ \A i \in DOMAIN phaseEvents : phaseEvents'[i] = phaseEvents[i]
      /\ phaseEvents'[n] = row
  BY RecordedRow
<1>2. /\ row.enrollment = d /\ row.epoch = Epoch(d) /\ row.from = CurrentPhase(d)
      /\ row.to = to /\ row.effective = t /\ row.recorded = clock
  BY DEF PhaseRow
<1>3. ASSUME d = e PROVE PhaseEventIn(lifecycle, e, v, row)
  <2>1. CoheresIn(lifecycle, e, v)
    BY DEF VerifiesIn
  <2>2. /\ VersionIn(lifecycle, e, v, NewestIn(lifecycle, e)) = v
        /\ NewestIn(lifecycle, e) \in {0} \union ChangesIn(lifecycle, e)
        /\ IncludesIn(lifecycle, e, NewestIn(lifecycle, e), clock)
    BY <2>1, NewestIncludesNow
  <2>3. CurrentPhase(e) # NoPhase => PhaseVersion[CurrentPhase(e)] = v
    BY CurrentPhaseIsPinned
  <2>4. to # NoPhase => PhaseVersion[to] = v
    BY <1>3 DEF Recorded
  <2>5. Epoch(e) # 0 => lifecycle[Epoch(e)].at <= t
    BY <1>3 DEF Recorded, InOrder
  <2>6. Epoch(e) = NewestIn(lifecycle, e)
    BY TimelineIsParametric
  <2> HIDE DEF v, row
  <2> QED BY <1>2, <1>3, <2>2, <2>3, <2>4, <2>5, <2>6 DEF PhaseEventIn
<1> HIDE DEF n, row, v
<1>4. PhaseEventsIn(lifecycle, e, v, phaseEvents')
  BY <1>1, <1>2, <1>3 DEF VerifiesIn, PhaseEventsIn, v
<1> QED BY <1>4 DEF VerifiesIn, v

LEMMA VerdictInductive == Sound /\ PacketVerifies /\ [Next]_vars => PacketVerifies'
<1> SUFFICES ASSUME Sound, PacketVerifies, [Next]_vars PROVE PacketVerifies'
  OBVIOUS
<1>1. \A e \in DOMAIN enrollments :
        VerifiesIn(lifecycle, e, enrollments[e].version, signoffs, phaseEvents)
  BY VerdictIsParametric
<1>2. SUFFICES ASSUME NEW e \in DOMAIN enrollments'
               PROVE  VerifiesIn(lifecycle', e, enrollments'[e].version, signoffs', phaseEvents')
  BY VerdictIsParametricNext
<1>3. CASE EnrollmentsNext /\ UNCHANGED <<phaseEvents, signoffs, signing>>
  <2>1. VerifiesIn(lifecycle', e, enrollments'[e].version, signoffs, phaseEvents)
    BY <1>1, <1>3, EnrollmentStepsKeepVerdict
  <2>2. signoffs' = signoffs /\ phaseEvents' = phaseEvents
    BY <1>3
  <2> QED BY <2>1, <2>2
<1>4. CASE PhaseEventStep
  <2>1. PICK d \in DOMAIN enrollments, kind \in PhaseKinds, to \in Phases \union {NoPhase},
             t \in 0..clock : Recorded(d, kind, to, t)
    BY <1>4, PhaseEventStepRecords
  <2>2. lifecycle' = lifecycle /\ enrollments' = enrollments /\ signoffs' = signoffs
    BY <2>1 DEF Recorded, enrollmentVars
  <2>3. VerifiesIn(lifecycle, e, enrollments[e].version, signoffs, phaseEvents')
    BY <1>1, <2>1, <2>2, PhaseEventKeepsVerdict
  <2> QED BY <2>2, <2>3
<1>5. ASSUME NEW u \in Signers, NEW kind \in SignoffKinds, SignoffTx(u, kind)
      PROVE  VerifiesIn(lifecycle', e, enrollments'[e].version, signoffs', phaseEvents')
  <2>1. lifecycle' = lifecycle /\ enrollments' = enrollments /\ phaseEvents' = phaseEvents
    BY <1>5 DEF SignoffTx, enrollmentVars
  <2>2. VerifiesIn(lifecycle, e, enrollments[e].version, signoffs', phaseEvents)
    BY <1>1, <1>5, <2>1, SignoffKeepsVerdict
  <2> QED BY <2>1, <2>2
<1>6. CASE UNCHANGED <<lifecycle, enrollments, signoffs, phaseEvents>>
  BY <1>1, <1>6
<1> QED
  BY <1>3, <1>4, <1>5, <1>6
     DEF Next, PhaseEventStep, SignoffGate, SignoffDropped, vars, enrollmentVars

\* The packet verifier accepts every history the services record: pins chain to the
\* current one, and no signoff or phase event lies outside the epoch of the version it
\* names, whatever version change ran in between.
THEOREM PacketsVerify == Spec => []PacketVerifies
<1>1. Init => PacketVerifies
  BY DEF Init, EnrollmentsInit, PacketVerifies
<1> QED BY <1>1, SoundInitially, SoundInductive, VerdictInductive, PTL DEF Spec
=============================================================================
