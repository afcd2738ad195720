------------------------- MODULE TrainingSessionsProofs -------------------------
(***************************************************************************)
(* What racing requests keep of training sessions, for any users,          *)
(* enrollments, instants and numbers of requests in flight.                *)
(***************************************************************************)
EXTENDS TrainingSessions, EnrollmentsProofs, FiniteSetTheorems

\* What a row or a request names exists, and every session row passes its CHECKs.
Referenced ==
  /\ \A s \in DOMAIN sessions :
       sessions[s].enrollment \in DOMAIN enrollments /\ RowAccepted(sessions[s])
  /\ \A i \in DOMAIN records : records[i].session \in DOMAIN sessions
  /\ \A u \in Users :
       /\ pending[u].op = "create" => pending[u].on \in DOMAIN enrollments
       /\ pending[u].op \in {"work", "draft"} => pending[u].on \in DOMAIN sessions

Sound == TypeOK /\ Referenced

(***************************************************************************)
(* The rows and requests each step writes.                                 *)
(***************************************************************************)
LEMMA RequestTypes ==
  ASSUME TypeOK, NEW u \in Users
  PROVE  /\ NoRequest \in Request
         /\ pending[u] \in Request
         /\ [pending EXCEPT ![u] = NoRequest] \in [Users -> Request]
         /\ \A op \in Ops, on \in Nat : [op |-> op, on |-> on] \in Request
BY DEF TypeOK, Request, NoRequest, Ops

LEMMA InstantTypes == Instants \subseteq Nat /\ Forever \in Nat /\ 0..Forever \subseteq Nat
                      /\ Instants \subseteq 0..Forever
BY SessionBoundsAssumption DEF Instants, Forever

LEMMA SessionTypes ==
  ASSUME TypeOK, NEW s \in DOMAIN sessions
  PROVE  /\ sessions[s] \in Session
         /\ s \in Nat
         /\ members[s] \subseteq Authors
         /\ DOMAIN members = DOMAIN sessions
         /\ sessions[s].start \in Nat /\ sessions[s].end \in Nat
         /\ sessions[s].end <= Forever
<1>1. sessions[s] \in Session /\ s \in Nat
  BY DEF TypeOK
<1>2. DOMAIN members = DOMAIN sessions
  BY DEF TypeOK
<1>3. members[s] \subseteq Authors
  BY <1>2 DEF TypeOK
<1>4. sessions[s].start \in Instants /\ sessions[s].end \in 0..Forever
  BY <1>1 DEF Session
<1>5. /\ sessions[s].start \in Nat /\ sessions[s].end \in Nat
      /\ sessions[s].end <= Forever
  BY <1>4, SessionBoundsAssumption DEF Instants, Forever
<1> QED BY <1>1, <1>2, <1>3, <1>5

LEMMA CreatedRow ==
  ASSUME TypeOK, NEW e \in DOMAIN enrollments,
         NEW start \in Instants, NEW end \in 0..Forever, NEW disposition \in Dispositions,
         NEW phase \in Phases \union {NoPhase},
         CreateAdmitted(e, start, end, disposition, phase)
  PROVE  /\ SessionRow(e, start, end, phase, disposition) \in Session
         /\ RowAccepted(SessionRow(e, start, end, phase, disposition))
         /\ disposition # "cancelled"
         /\ ~Overlaps(e, start, end, 0)
<1> DEFINE row == SessionRow(e, start, end, phase, disposition)
<1>1. e \in Nat /\ enrollments[e].version \in Published
  <2>1. enrollments \in Seq(Enrollment)
    BY DEF TypeOK, EnrollmentsTypeOK
  <2>2. e \in Nat /\ enrollments[e] \in Enrollment
    BY <2>1
  <2> QED BY <2>2 DEF Enrollment
<1>2. row \in Session
  BY <1>1 DEF SessionRow, Session
<1>3. /\ row.start = start /\ row.end = end /\ row.phase = phase
      /\ row.disposition = disposition /\ row.version = enrollments[e].version
  BY DEF SessionRow
<1>4. start \in Nat /\ end \in Nat /\ start <= end
  BY InstantTypes DEF CreateAdmitted, Shape
<1>5. (disposition \in Ended) = (end # Forever) /\ disposition # "cancelled"
  BY DEF CreateAdmitted, Shape, Ended
<1>6. InVersion(phase, enrollments[e].version) /\ ~Overlaps(e, start, end, 0)
  BY DEF CreateAdmitted
<1> HIDE DEF row
<1> QED BY <1>2, <1>3, <1>4, <1>5, <1>6 DEF RowAccepted, row

LEMMA UpdatedRowShape ==
  ASSUME Sound, NEW s \in DOMAIN sessions, NEW start \in Instants,
         NEW phase \in Phases \union {NoPhase}, UpdateAdmitted(s, start, phase)
  PROVE  /\ UpdatedRow(s, start, phase) \in Session
         /\ RowAccepted(UpdatedRow(s, start, phase))
         /\ UpdatedRow(s, start, phase).enrollment = sessions[s].enrollment
         /\ UpdatedRow(s, start, phase).version = sessions[s].version
         /\ UpdatedRow(s, start, phase).start = start
         /\ UpdatedRow(s, start, phase).end = Forever
         /\ UpdatedRow(s, start, phase).disposition = "open"
         /\ sessions[s].disposition = "open" /\ sessions[s].end = Forever
         /\ ~Overlaps(sessions[s].enrollment, start, Forever, s)
<1> DEFINE row == UpdatedRow(s, start, phase)
<1>1. sessions[s] \in Session /\ RowAccepted(sessions[s])
  BY SessionTypes DEF Sound, Referenced
<1>2. row \in Session
  BY <1>1 DEF UpdatedRow, Session
<1>3. /\ row.enrollment = sessions[s].enrollment /\ row.version = sessions[s].version
      /\ row.start = start /\ row.end = sessions[s].end /\ row.phase = phase
      /\ row.disposition = sessions[s].disposition
  BY <1>1 DEF UpdatedRow, Session
<1>4. sessions[s].disposition = "open"
  BY DEF UpdateAdmitted
<1>5. sessions[s].end = Forever
  BY <1>1, <1>4 DEF RowAccepted, Ended
<1>6. InVersion(phase, sessions[s].version)
  BY <1>1 DEF UpdateAdmitted, RowAccepted
<1>7. Forever >= start
  BY SessionBoundsAssumption DEF Instants, Forever
<1>8. ~Overlaps(sessions[s].enrollment, start, Forever, s)
  BY DEF UpdateAdmitted
<1>9. RowAccepted(row)
  BY <1>3, <1>4, <1>5, <1>6, <1>7 DEF RowAccepted, Ended
<1> HIDE DEF row
<1> QED BY <1>2, <1>3, <1>4, <1>5, <1>8, <1>9 DEF row

LEMMA ClosedRowShape ==
  ASSUME Sound, NEW s \in DOMAIN sessions, NEW disposition \in Dispositions \ {"open"},
         NEW end \in 0..Forever, CloseAdmitted(s, disposition, end)
  PROVE  /\ ClosedRow(s, disposition, end) \in Session
         /\ RowAccepted(ClosedRow(s, disposition, end))
         /\ ClosedRow(s, disposition, end).enrollment = sessions[s].enrollment
         /\ ClosedRow(s, disposition, end).version = sessions[s].version
         /\ ClosedRow(s, disposition, end).start = sessions[s].start
         /\ ClosedRow(s, disposition, end).end = end
         /\ ClosedRow(s, disposition, end).disposition = disposition
         /\ sessions[s].disposition = "open" /\ sessions[s].end = Forever
         /\ disposition = "cancelled" => ~Documented(s)
<1> DEFINE row == ClosedRow(s, disposition, end)
<1>1. sessions[s] \in Session /\ RowAccepted(sessions[s]) /\ sessions[s].start \in Nat
  BY SessionTypes DEF Sound, Referenced
<1>2. row \in Session
  BY <1>1 DEF ClosedRow, Session
<1>3. /\ row.enrollment = sessions[s].enrollment /\ row.version = sessions[s].version
      /\ row.start = sessions[s].start /\ row.end = end
      /\ row.phase = sessions[s].phase /\ row.disposition = disposition
  BY <1>1 DEF ClosedRow, Session
<1>4. sessions[s].disposition = "open" /\ (disposition = "cancelled" => ~Documented(s))
  BY DEF CloseAdmitted
<1>5. sessions[s].end = Forever
  BY <1>1, <1>4 DEF RowAccepted, Ended
<1>6. /\ end >= sessions[s].start
      /\ (disposition \in Ended) = (end # Forever)
  BY <1>1, <1>5, InstantTypes DEF CloseAdmitted, Ended, Dispositions, RowAccepted
<1>7. RowAccepted(row)
  BY <1>1, <1>3, <1>6 DEF RowAccepted
<1> HIDE DEF row
<1> QED BY <1>2, <1>3, <1>4, <1>5, <1>7 DEF row

LEMMA SoundInitially == Init => Sound
<1> SUFFICES ASSUME Init PROVE Sound
  OBVIOUS
<1>1. NoRequest \in Request /\ NoRequest.op = "none"
  BY DEF NoRequest, Request, Ops
<1>2. EnrollmentsTypeOK
  BY EnrollmentsTypesInitially DEF Init
<1>3. TypeOK
  BY <1>1, <1>2 DEF Init, TypeOK
<1>4. Referenced
  BY <1>1 DEF Init, Referenced
<1> QED BY <1>3, <1>4 DEF Sound

LEMMA GatesKeepSound ==
  ASSUME Sound, NEW u \in Users,
         NEW op \in {"create", "work", "draft"}, NEW on,
         op = "create" => on \in DOMAIN enrollments,
         op \in {"work", "draft"} => on \in DOMAIN sessions,
         Pass(u, op, on)
  PROVE  Sound'
<1>1. on \in Nat
  BY DEF Sound, TypeOK, EnrollmentsTypeOK
<1>2. [op |-> op, on |-> on] \in Request
  BY <1>1 DEF Request, Ops
<1>3. /\ pending' = [pending EXCEPT ![u] = [op |-> op, on |-> on]]
      /\ UNCHANGED <<enrollmentVars, sessions, members, records>>
  BY DEF Pass
<1>4. pending' \in [Users -> Request]
  BY <1>2, <1>3 DEF Sound, TypeOK
<1>5. TypeOK'
  BY <1>3, <1>4 DEF Sound, TypeOK, EnrollmentsTypeOK, enrollmentVars
<1>6. ASSUME NEW w \in Users
      PROVE /\ pending'[w].op = "create" => pending'[w].on \in DOMAIN enrollments
            /\ pending'[w].op \in {"work", "draft"} => pending'[w].on \in DOMAIN sessions
  BY <1>3, <1>6 DEF Sound, TypeOK, Referenced
<1>7. Referenced'
  BY <1>3, <1>6 DEF Sound, Referenced, enrollmentVars
<1> QED BY <1>5, <1>7 DEF Sound

\* A step that answers a request and leaves the rows it does not name alone.
LEMMA AnswersKeepRequests ==
  ASSUME Sound, NEW u \in Users, Answered(u),
         DOMAIN sessions \subseteq DOMAIN sessions', enrollments' = enrollments
  PROVE  /\ pending' \in [Users -> Request]
         /\ \A w \in Users :
              /\ pending'[w].op = "create" => pending'[w].on \in DOMAIN enrollments'
              /\ pending'[w].op \in {"work", "draft"} => pending'[w].on \in DOMAIN sessions'
<1>1. pending' = [pending EXCEPT ![u] = NoRequest]
  BY DEF Answered
<1>2. pending' \in [Users -> Request] /\ NoRequest.op = "none"
  BY <1>1, RequestTypes DEF Sound, NoRequest
<1> QED BY <1>1, <1>2 DEF Sound, TypeOK, Referenced

LEMMA CreateKeepsSound ==
  ASSUME Sound, NEW u \in Users, NEW start \in Instants, NEW end \in 0..Forever,
         NEW disposition \in Dispositions, NEW phase \in Phases \union {NoPhase},
         NEW trainers \in SUBSET Authors,
         CreateTx(u, start, end, disposition, phase, trainers)
  PROVE  Sound'
<1> DEFINE row == SessionRow(pending[u].on, start, end, phase, disposition)
<1>1. /\ pending[u].on \in DOMAIN enrollments
      /\ CreateAdmitted(pending[u].on, start, end, disposition, phase)
  BY DEF CreateTx, Sound, Referenced
<1>2. row \in Session /\ RowAccepted(row)
  BY <1>1, CreatedRow DEF Sound
<1>3. row.enrollment = pending[u].on
  BY DEF SessionRow
<1> HIDE DEF row
<1>4. /\ sessions' = Append(sessions, row) /\ members' = Append(members, trainers)
      /\ Answered(u) /\ UNCHANGED <<enrollmentVars, records>>
  BY DEF CreateTx, row
<1>5. /\ sessions \in Seq(Session) /\ members \in Seq(SUBSET Authors)
      /\ Len(members) = Len(sessions) /\ records \in Seq(Record) /\ EnrollmentsTypeOK
  BY DEF Sound, TypeOK
<1>6. /\ sessions' \in Seq(Session) /\ Len(sessions') = Len(sessions) + 1
      /\ DOMAIN sessions' = DOMAIN sessions \union {Len(sessions) + 1}
      /\ \A s \in DOMAIN sessions : sessions'[s] = sessions[s]
      /\ sessions'[Len(sessions) + 1] = row
  BY <1>2, <1>4, <1>5, AppendTypes
<1>7. members' \in Seq(SUBSET Authors) /\ Len(members') = Len(members) + 1
  BY <1>4, <1>5, AppendTypes
<1>8. enrollments' = enrollments
  BY <1>4 DEF enrollmentVars
<1>9. /\ pending' \in [Users -> Request]
      /\ \A w \in Users :
           /\ pending'[w].op = "create" => pending'[w].on \in DOMAIN enrollments'
           /\ pending'[w].op \in {"work", "draft"} => pending'[w].on \in DOMAIN sessions'
  BY <1>4, <1>6, <1>8, AnswersKeepRequests
<1>10. EnrollmentsTypeOK' /\ records' = records
  BY <1>4, <1>5 DEF EnrollmentsTypeOK, enrollmentVars
<1>11. TypeOK'
  BY <1>5, <1>6, <1>7, <1>9, <1>10 DEF TypeOK
<1>12. \A s \in DOMAIN sessions' :
         sessions'[s].enrollment \in DOMAIN enrollments' /\ RowAccepted(sessions'[s])
  BY <1>1, <1>2, <1>3, <1>6, <1>8 DEF Sound, Referenced
<1>13. Referenced'
  BY <1>6, <1>9, <1>10, <1>12 DEF Sound, Referenced
<1> QED BY <1>11, <1>13 DEF Sound

\* What an update and a close share: one row is rewritten, and stays of its
\* enrollment and version.
LEMMA RewriteKeepsSound ==
  ASSUME Sound, NEW u \in Users, NEW s \in DOMAIN sessions, NEW row \in Session,
         RowAccepted(row), row.enrollment = sessions[s].enrollment,
         sessions' = [sessions EXCEPT ![s] = row],
         Answered(u), UNCHANGED <<enrollmentVars, members, records>>
  PROVE  Sound'
<1>1. sessions \in Seq(Session)
  BY DEF Sound, TypeOK
<1>2. /\ sessions' \in Seq(Session) /\ Len(sessions') = Len(sessions)
      /\ DOMAIN sessions' = DOMAIN sessions
      /\ \A r \in DOMAIN sessions : sessions'[r] = IF r = s THEN row ELSE sessions[r]
  BY <1>1
<1>3. enrollments' = enrollments /\ EnrollmentsTypeOK'
  BY DEF enrollmentVars, Sound, TypeOK, EnrollmentsTypeOK
<1>4. /\ pending' \in [Users -> Request]
      /\ \A w \in Users :
           /\ pending'[w].op = "create" => pending'[w].on \in DOMAIN enrollments'
           /\ pending'[w].op \in {"work", "draft"} => pending'[w].on \in DOMAIN sessions'
  BY <1>2, <1>3, AnswersKeepRequests
<1>5. TypeOK'
  BY <1>2, <1>3, <1>4 DEF Sound, TypeOK
<1>6. Referenced'
  BY <1>2, <1>3, <1>4 DEF Sound, Referenced
<1> QED BY <1>5, <1>6 DEF Sound

LEMMA StaffingKeepsSound ==
  ASSUME Sound, NEW s \in DOMAIN sessions, NEW staff \in SUBSET Authors,
         members' = [members EXCEPT ![s] = staff],
         UNCHANGED <<enrollmentVars, sessions, records>>,
         \/ UNCHANGED pending
         \/ \E u \in Users : Answered(u)
  PROVE  Sound'
<1>1. members' \in Seq(SUBSET Authors) /\ Len(members') = Len(members)
  BY DEF Sound, TypeOK
<1>2. enrollments' = enrollments /\ EnrollmentsTypeOK'
  BY DEF enrollmentVars, Sound, TypeOK, EnrollmentsTypeOK
<1>3. /\ pending' \in [Users -> Request]
      /\ \A w \in Users :
           /\ pending'[w].op = "create" => pending'[w].on \in DOMAIN enrollments'
           /\ pending'[w].op \in {"work", "draft"} => pending'[w].on \in DOMAIN sessions'
  <2>1. CASE UNCHANGED pending
    BY <1>2, <2>1 DEF Sound, TypeOK, Referenced
  <2>2. ASSUME NEW u \in Users, Answered(u) PROVE <1>3!1 /\ <1>3!2
    BY <1>2, <2>2, AnswersKeepRequests
  <2> QED BY <2>1, <2>2
<1>4. TypeOK'
  BY <1>1, <1>2, <1>3 DEF Sound, TypeOK
<1>5. Referenced'
  BY <1>2, <1>3 DEF Sound, Referenced
<1> QED BY <1>4, <1>5 DEF Sound

LEMMA DraftKeepsSound ==
  ASSUME Sound, NEW u \in Users, DraftTx(u) PROVE Sound'
<1> DEFINE s == pending[u].on
           row == RecordRow(s)
<1>1. s \in DOMAIN sessions
  BY DEF DraftTx, Sound, Referenced
<1>2. row \in Record /\ row.session = s
  BY <1>1, SessionTypes DEF Sound, RecordRow, Record, Session
<1> HIDE DEF s, row
<1>3. /\ records' = Append(records, row) /\ Answered(u)
      /\ UNCHANGED <<enrollmentVars, sessions, members>>
  BY DEF DraftTx, s, row
<1>4. records \in Seq(Record)
  BY DEF Sound, TypeOK
<1>5. /\ records' \in Seq(Record)
      /\ DOMAIN records' = DOMAIN records \union {Len(records) + 1}
      /\ \A i \in DOMAIN records : records'[i] = records[i]
      /\ records'[Len(records) + 1] = row
  BY <1>2, <1>3, <1>4, AppendTypes
<1>6. enrollments' = enrollments /\ EnrollmentsTypeOK'
  BY <1>3 DEF enrollmentVars, Sound, TypeOK, EnrollmentsTypeOK
<1>7. /\ pending' \in [Users -> Request]
      /\ \A w \in Users :
           /\ pending'[w].op = "create" => pending'[w].on \in DOMAIN enrollments'
           /\ pending'[w].op \in {"work", "draft"} => pending'[w].on \in DOMAIN sessions'
  BY <1>3, <1>6, AnswersKeepRequests
<1>8. TypeOK'
  BY <1>3, <1>5, <1>6, <1>7 DEF Sound, TypeOK
<1>9. \A i \in DOMAIN records' : records'[i].session \in DOMAIN sessions'
  BY <1>1, <1>2, <1>3, <1>5 DEF Sound, Referenced
<1>10. Referenced'
  BY <1>3, <1>6, <1>7, <1>9 DEF Sound, Referenced
<1> QED BY <1>8, <1>10 DEF Sound

LEMMA DropKeepsSound ==
  ASSUME Sound, NEW u \in Users, Drop(u) PROVE Sound'
<1>1. Answered(u) /\ UNCHANGED <<enrollmentVars, sessions, members, records>>
  BY DEF Drop, Answered
<1>2. enrollments' = enrollments /\ EnrollmentsTypeOK'
  BY <1>1 DEF enrollmentVars, Sound, TypeOK, EnrollmentsTypeOK
<1>3. /\ pending' \in [Users -> Request]
      /\ \A w \in Users :
           /\ pending'[w].op = "create" => pending'[w].on \in DOMAIN enrollments'
           /\ pending'[w].op \in {"work", "draft"} => pending'[w].on \in DOMAIN sessions'
  BY <1>1, <1>2, AnswersKeepRequests
<1>4. TypeOK'
  BY <1>1, <1>2, <1>3 DEF Sound, TypeOK
<1>5. Referenced'
  BY <1>1, <1>2, <1>3 DEF Sound, Referenced
<1> QED BY <1>4, <1>5 DEF Sound

LEMMA EnrollmentStepsKeepSound ==
  ASSUME Sound, EnrollmentsNext, UNCHANGED <<sessions, members, records, pending>>
  PROVE  Sound'
<1>1. EnrollmentsTypeOK /\ EnrollmentsTypeOK'
  BY EnrollmentsTypesKept DEF Sound, TypeOK
<1>2. DOMAIN enrollments \subseteq DOMAIN enrollments'
  BY <1>1, EnrollmentsKeepTheirTrainees
<1>3. TypeOK'
  BY <1>1 DEF Sound, TypeOK
<1>4. Referenced'
  BY <1>2 DEF Sound, Referenced
<1> QED BY <1>3, <1>4 DEF Sound

(***************************************************************************)
(* What a step does to the sessions, read off once.  A step leaves the rows *)
(* alone, adds one, or rewrites an open one.                               *)
(***************************************************************************)
Added(start, end, disposition, phase, e) ==
  /\ CreateAdmitted(e, start, end, disposition, phase)
  /\ sessions' = Append(sessions, SessionRow(e, start, end, phase, disposition))
  /\ UNCHANGED <<enrollmentVars, records>>

Updated(s, start, phase) ==
  /\ UpdateAdmitted(s, start, phase)
  /\ sessions' = [sessions EXCEPT ![s] = UpdatedRow(s, start, phase)]
  /\ UNCHANGED <<enrollmentVars, members, records>>

Closed(s, disposition, end) ==
  /\ CloseAdmitted(s, disposition, end)
  /\ sessions' = [sessions EXCEPT ![s] = ClosedRow(s, disposition, end)]
  /\ UNCHANGED <<enrollmentVars, members, records>>

LEMMA StepCases ==
  ASSUME Sound, Next
  PROVE  \/ UNCHANGED sessions
         \/ \E e \in DOMAIN enrollments, start \in Instants, end \in 0..Forever,
               disposition \in Dispositions, phase \in Phases \union {NoPhase} :
              Added(start, end, disposition, phase, e)
         \/ \E s \in DOMAIN sessions, start \in Instants,
               phase \in Phases \union {NoPhase} : Updated(s, start, phase)
         \/ \E s \in DOMAIN sessions, disposition \in Dispositions \ {"open"},
               end \in 0..Forever : Closed(s, disposition, end)
<1> DEFINE Goal ==
             \/ UNCHANGED sessions
             \/ \E e \in DOMAIN enrollments, start \in Instants, end \in 0..Forever,
                   disposition \in Dispositions, phase \in Phases \union {NoPhase} :
                  Added(start, end, disposition, phase, e)
             \/ \E s \in DOMAIN sessions, start \in Instants,
                   phase \in Phases \union {NoPhase} : Updated(s, start, phase)
             \/ \E s \in DOMAIN sessions, disposition \in Dispositions \ {"open"},
                   end \in 0..Forever : Closed(s, disposition, end)
<1>1. ASSUME NEW u \in Users, NEW start \in Instants, NEW end \in 0..Forever,
             NEW disposition \in Dispositions, NEW phase \in Phases \union {NoPhase},
             NEW trainers \in SUBSET Authors,
             CreateTx(u, start, end, disposition, phase, trainers)
      PROVE Goal
  <2>1. pending[u].on \in DOMAIN enrollments
    BY <1>1 DEF CreateTx, Sound, Referenced
  <2>2. Added(start, end, disposition, phase, pending[u].on)
    BY <1>1 DEF CreateTx, Added
  <2> QED BY <2>1, <2>2
<1>2. ASSUME NEW u \in Users, NEW start \in Instants, NEW phase \in Phases \union {NoPhase},
             UpdateTx(u, start, phase)
      PROVE Goal
  <2>1. pending[u].on \in DOMAIN sessions
    BY <1>2 DEF UpdateTx, Sound, Referenced
  <2>2. Updated(pending[u].on, start, phase)
    BY <1>2 DEF UpdateTx, Updated
  <2> QED BY <2>1, <2>2
<1>3. ASSUME NEW u \in Users, NEW disposition \in Dispositions \ {"open"},
             NEW end \in 0..Forever, CloseTx(u, disposition, end)
      PROVE Goal
  <2>1. pending[u].on \in DOMAIN sessions
    BY <1>3 DEF CloseTx, Sound, Referenced
  <2>2. Closed(pending[u].on, disposition, end)
    BY <1>3 DEF CloseTx, Closed
  <2> QED BY <2>1, <2>2
<1>4. ASSUME NEW u \in Users,
             \/ \E e \in DOMAIN enrollments : GateCreate(u, e)
             \/ \E s \in DOMAIN sessions : GateWork(u, s) \/ GateDraft(u, s)
             \/ \E t \in Users : AddTrainerTx(u, t)
             \/ DraftTx(u) \/ Drop(u)
      PROVE UNCHANGED sessions
  BY <1>4 DEF GateCreate, GateWork, GateDraft, Pass, AddTrainerTx, DraftTx, Drop
<1>5. ASSUME NEW u \in Users, SessionStep(u) PROVE Goal
  <2> HIDE DEF Goal
  <2>1. UNCHANGED sessions => Goal
    BY DEF Goal
  <2> QED BY <1>1, <1>2, <1>3, <1>4, <1>5, <2>1 DEF SessionStep
<1> QED BY <1>5 DEF Next, RemoveTrainerTx

THEOREM SoundInductive == Sound /\ [Next]_vars => Sound'
<1> SUFFICES ASSUME Sound, [Next]_vars PROVE Sound'
  OBVIOUS
<1>1. CASE UNCHANGED vars
  BY <1>1 DEF vars, enrollmentVars, Sound, TypeOK, EnrollmentsTypeOK, Referenced
<1>2. CASE EnrollmentsNext /\ UNCHANGED <<sessions, members, records, pending>>
  BY <1>2, EnrollmentStepsKeepSound
<1>3. ASSUME NEW u \in Users, NEW e \in DOMAIN enrollments, GateCreate(u, e) PROVE Sound'
  BY <1>3, GatesKeepSound DEF GateCreate
<1>4. ASSUME NEW u \in Users, NEW s \in DOMAIN sessions, GateWork(u, s) PROVE Sound'
  BY <1>4, GatesKeepSound DEF GateWork
<1>5. ASSUME NEW u \in Users, NEW s \in DOMAIN sessions, GateDraft(u, s) PROVE Sound'
  BY <1>5, GatesKeepSound DEF GateDraft
<1>6. ASSUME NEW u \in Users, NEW start \in Instants, NEW end \in 0..Forever,
             NEW disposition \in Dispositions, NEW phase \in Phases \union {NoPhase},
             NEW trainers \in SUBSET Authors,
             CreateTx(u, start, end, disposition, phase, trainers)
      PROVE Sound'
  BY <1>6, CreateKeepsSound
<1>7. ASSUME NEW u \in Users, NEW start \in Instants, NEW phase \in Phases \union {NoPhase},
             UpdateTx(u, start, phase)
      PROVE Sound'
  <2>1. pending[u].on \in DOMAIN sessions
    BY <1>7 DEF UpdateTx, Sound, Referenced
  <2>2. UpdateAdmitted(pending[u].on, start, phase)
    BY <1>7 DEF UpdateTx
  <2> QED BY <1>7, <2>1, <2>2, UpdatedRowShape, RewriteKeepsSound DEF UpdateTx
<1>8. ASSUME NEW u \in Users, NEW disposition \in Dispositions \ {"open"},
             NEW end \in 0..Forever, CloseTx(u, disposition, end)
      PROVE Sound'
  <2>1. pending[u].on \in DOMAIN sessions
    BY <1>8 DEF CloseTx, Sound, Referenced
  <2>2. CloseAdmitted(pending[u].on, disposition, end)
    BY <1>8 DEF CloseTx
  <2> QED BY <1>8, <2>1, <2>2, ClosedRowShape, RewriteKeepsSound DEF CloseTx
<1>9. ASSUME NEW u \in Users, NEW t \in Users, AddTrainerTx(u, t) PROVE Sound'
  <2>1. pending[u].on \in DOMAIN sessions
    BY <1>9 DEF AddTrainerTx, Sound, Referenced
  <2>2. members[pending[u].on] \union {t} \in SUBSET Authors
    BY <1>9, <2>1, SessionTypes DEF AddTrainerTx, AddAdmitted, Sound
  <2> QED BY <1>9, <2>1, <2>2, StaffingKeepsSound DEF AddTrainerTx
<1>10. ASSUME NEW s \in DOMAIN sessions, NEW t \in Authors, RemoveTrainerTx(s, t)
       PROVE Sound'
  <2>1. members[s] \ {t} \in SUBSET Authors
    BY SessionTypes DEF Sound
  <2> QED BY <1>10, <2>1, StaffingKeepsSound DEF RemoveTrainerTx
<1> QED
  BY <1>1, <1>2, <1>3, <1>4, <1>5, <1>6, <1>7, <1>8, <1>9, <1>10,
     DraftKeepsSound, DropKeepsSound DEF Next, SessionStep

\* Racing requests keep the rows and requests well typed, and nothing they name
\* ever goes missing.
THEOREM SessionTypesHold == Spec => []TypeOK
<1>1. Sound => TypeOK
  BY DEF Sound
<1> QED BY <1>1, SoundInitially, SoundInductive, PTL DEF Spec

(***************************************************************************)
(* Phases: every CHECK of a row is part of the invariant already.          *)
(***************************************************************************)

\* A session's phase is of the version it was recorded under, for ever.
THEOREM PhasesStayHistoric == Spec => []PhasesAreHistoric
<1>1. Sound => PhasesAreHistoric
  BY DEF Sound, Referenced, RowAccepted, PhasesAreHistoric
<1> QED BY <1>1, SoundInitially, SoundInductive, PTL DEF Spec

(***************************************************************************)
(* Intervals.  Half-open intervals that share an instant overlap, so it is *)
(* enough that no two live sessions of a trainee do.                       *)
(***************************************************************************)
SameTrainee(r, s) == TraineeOf(sessions[r].enrollment) = TraineeOf(sessions[s].enrollment)

Separate ==
  \A r, s \in DOMAIN sessions :
    r # s /\ SameTrainee(r, s) /\ Active(r) /\ Active(s) =>
      ~(sessions[r].start < sessions[s].end /\ sessions[s].start < sessions[r].end)

LEMMA SeparateRows == Sound /\ Separate => NoInstantTwice
<1> SUFFICES ASSUME Sound, Separate,
                    NEW r \in DOMAIN sessions, NEW s \in DOMAIN sessions,
                    NEW instant \in Instants,
                    TraineeOf(sessions[r].enrollment) = TraineeOf(sessions[s].enrollment),
                    Covers(r, instant), Covers(s, instant)
             PROVE  r = s
  BY DEF NoInstantTwice
<1>1. instant \in Nat
  BY InstantTypes
<1>2. /\ sessions[r].start \in Nat /\ sessions[r].end \in Nat
      /\ sessions[s].start \in Nat /\ sessions[s].end \in Nat
  BY SessionTypes DEF Sound
<1>3. sessions[r].start < sessions[s].end /\ sessions[s].start < sessions[r].end
  BY <1>1, <1>2 DEF Covers
<1> QED BY <1>3 DEF Separate, SameTrainee, Covers

LEMMA SeparateInductive == Sound /\ Separate /\ [Next]_vars => Separate'
<1> SUFFICES ASSUME Sound, Separate, [Next]_vars PROVE Separate'
  OBVIOUS
<1>1. \A s \in DOMAIN sessions :
        /\ sessions[s].enrollment \in DOMAIN enrollments
        /\ sessions[s].start \in Nat /\ sessions[s].end \in Nat /\ sessions[s].end <= Forever
  BY SessionTypes DEF Sound, Referenced
<1>2. CASE UNCHANGED sessions
  <2>1. \A e \in DOMAIN enrollments : enrollments'[e].user = enrollments[e].user
    <3>1. CASE EnrollmentsNext
      BY <3>1, EnrollmentsKeepTheirTrainees DEF Sound, TypeOK
    <3>2. CASE UNCHANGED enrollments
      BY <3>2
    <3> QED
      BY <3>1, <3>2 DEF vars, enrollmentVars, Next, SessionStep, GateCreate, GateWork,
           GateDraft, Pass, CreateTx, UpdateTx, CloseTx, AddTrainerTx, DraftTx, Drop,
           RemoveTrainerTx
  <2> QED BY <1>1, <1>2, <2>1 DEF Separate, SameTrainee, TraineeOf, Active
<1>3. ASSUME NEW e \in DOMAIN enrollments, NEW start \in Instants, NEW end \in 0..Forever,
             NEW disposition \in Dispositions, NEW phase \in Phases \union {NoPhase},
             Added(start, end, disposition, phase, e)
      PROVE Separate'
  <2> DEFINE row == SessionRow(e, start, end, phase, disposition)
             new == Len(sessions) + 1
  <2>1. row \in Session /\ ~Overlaps(e, start, end, 0)
    BY <1>3, CreatedRow DEF Added, Sound
  <2>2. row.enrollment = e /\ row.start = start /\ row.end = end
    BY DEF SessionRow
  <2> HIDE DEF row
  <2>3. sessions \in Seq(Session) /\ sessions' = Append(sessions, row)
    BY <1>3 DEF Sound, TypeOK, Added, row
  <2>4. /\ DOMAIN sessions' = DOMAIN sessions \union {new}
        /\ new \notin DOMAIN sessions
        /\ \A s \in DOMAIN sessions : sessions'[s] = sessions[s]
        /\ sessions'[new] = row
    BY <2>1, <2>3, AppendTypes
  <2>5. enrollments' = enrollments
    BY <1>3 DEF Added, enrollmentVars
  <2>6. \A s \in DOMAIN sessions :
          TraineeOf(sessions[s].enrollment) = TraineeOf(e) /\ Active(s) =>
            ~(sessions[s].start < end /\ start < sessions[s].end)
    <3>1. 0 \notin DOMAIN sessions
      BY <2>3
    <3> QED BY <2>1, <3>1 DEF Overlaps
  <2> HIDE DEF new
  <2>7. SUFFICES ASSUME NEW r \in DOMAIN sessions', NEW s \in DOMAIN sessions',
                        r # s, SameTrainee(r, s)', Active(r)', Active(s)'
                 PROVE  ~(sessions'[r].start < sessions'[s].end
                          /\ sessions'[s].start < sessions'[r].end)
    BY DEF Separate
  <2>8. CASE r \in DOMAIN sessions /\ s \in DOMAIN sessions
    BY <2>4, <2>5, <2>7, <2>8 DEF Separate, SameTrainee, TraineeOf, Active
  <2>9. CASE r = new /\ s \in DOMAIN sessions
    BY <2>2, <2>4, <2>5, <2>6, <2>7, <2>9 DEF SameTrainee, TraineeOf, Active
  <2>10. CASE r \in DOMAIN sessions /\ s = new
    BY <2>2, <2>4, <2>5, <2>6, <2>7, <2>10 DEF SameTrainee, TraineeOf, Active
  <2> QED BY <2>4, <2>7, <2>8, <2>9, <2>10
<1>4. ASSUME NEW k \in DOMAIN sessions, NEW start \in Instants,
             NEW phase \in Phases \union {NoPhase}, Updated(k, start, phase)
      PROVE Separate'
  <2> DEFINE row == UpdatedRow(k, start, phase)
  <2>1. /\ row.enrollment = sessions[k].enrollment /\ row.start = start
        /\ row.end = Forever /\ ~Overlaps(sessions[k].enrollment, start, Forever, k)
        /\ sessions[k].disposition = "open"
    BY <1>4, UpdatedRowShape DEF Updated
  <2>2. /\ DOMAIN sessions' = DOMAIN sessions /\ enrollments' = enrollments
        /\ sessions'[k] = row
        /\ \A s \in DOMAIN sessions : s # k => sessions'[s] = sessions[s]
    BY <1>4 DEF Updated, Sound, TypeOK, enrollmentVars
  <2> HIDE DEF row
  <2>3. \A s \in DOMAIN sessions \ {k} :
          SameTrainee(s, k) /\ Active(s) =>
            ~(sessions[s].start < Forever /\ start < sessions[s].end)
    BY <2>1 DEF Overlaps, SameTrainee
  <2>4. SUFFICES ASSUME NEW r \in DOMAIN sessions, NEW s \in DOMAIN sessions,
                        r # s, SameTrainee(r, s)', Active(r)', Active(s)'
                 PROVE  ~(sessions'[r].start < sessions'[s].end
                          /\ sessions'[s].start < sessions'[r].end)
    BY <2>2 DEF Separate
  <2>5. SameTrainee(r, s) /\ SameTrainee(s, r)
    BY <2>1, <2>2, <2>4 DEF SameTrainee, TraineeOf
  <2>6. CASE r # k /\ s # k
    BY <2>2, <2>4, <2>5, <2>6 DEF Separate, Active
  <2>7. CASE r = k
    BY <2>1, <2>2, <2>3, <2>4, <2>5, <2>7 DEF Active
  <2>8. CASE s = k
    BY <2>1, <2>2, <2>3, <2>4, <2>5, <2>8 DEF Active
  <2> QED BY <2>6, <2>7, <2>8
<1>5. ASSUME NEW k \in DOMAIN sessions, NEW disposition \in Dispositions \ {"open"},
             NEW end \in 0..Forever, Closed(k, disposition, end)
      PROVE Separate'
  <2> DEFINE row == ClosedRow(k, disposition, end)
  <2>1. /\ row.enrollment = sessions[k].enrollment /\ row.start = sessions[k].start
        /\ row.end = end /\ row.disposition = disposition
        /\ sessions[k].disposition = "open" /\ sessions[k].end = Forever
    BY <1>5, ClosedRowShape DEF Closed
  <2>2. /\ DOMAIN sessions' = DOMAIN sessions /\ enrollments' = enrollments
        /\ sessions'[k] = row
        /\ \A s \in DOMAIN sessions : s # k => sessions'[s] = sessions[s]
    BY <1>5 DEF Closed, Sound, TypeOK, enrollmentVars
  <2> HIDE DEF row
  <2>3. SUFFICES ASSUME NEW r \in DOMAIN sessions, NEW s \in DOMAIN sessions,
                        r # s, SameTrainee(r, s)', Active(r)', Active(s)'
                 PROVE  ~(sessions'[r].start < sessions'[s].end
                          /\ sessions'[s].start < sessions'[r].end)
    BY <2>2 DEF Separate
  <2>4. SameTrainee(r, s) /\ Active(r) /\ Active(s)
    BY <2>1, <2>2, <2>3 DEF SameTrainee, TraineeOf, Active
  <2>5. ~(sessions[r].start < sessions[s].end /\ sessions[s].start < sessions[r].end)
    BY <2>3, <2>4 DEF Separate
  <2>6. \A i \in DOMAIN sessions :
          /\ sessions'[i].start = sessions[i].start
          /\ sessions'[i].end \in Nat /\ sessions'[i].end <= sessions[i].end
    <3>1. end \in Nat /\ end <= Forever
      BY SessionBoundsAssumption DEF Forever
    <3> QED BY <1>1, <2>1, <2>2, <3>1
  <2> QED BY <1>1, <2>5, <2>6
<1> QED BY <1>2, <1>3, <1>4, <1>5, StepCases DEF vars

\* No interleaving of creations, moves and closes puts a trainee in two sessions
\* at one instant.
THEOREM NobodyIsTwicePlaced == Spec => []NoInstantTwice
<1>1. Init => Separate
  BY DEF Init, Separate
<1> QED
  BY <1>1, SoundInitially, SoundInductive, SeparateInductive, SeparateRows, PTL DEF Spec

(***************************************************************************)
(* Trainers.                                                               *)
(***************************************************************************)
LEMMA AnotherRemains ==
  ASSUME NEW S, NEW x \in S, Cardinality(S) > 1 PROVE S \ {x} # {}
<1> SUFFICES ASSUME S \ {x} = {} PROVE FALSE
  OBVIOUS
<1>1. S = {x}
  OBVIOUS
<1>2. Cardinality({x}) = 1
  BY FS_Singleton
<1> QED BY <1>1, <1>2

LEMMA StaffInductive ==
  Sound /\ SessionsKeepATrainer /\ [Next]_vars => SessionsKeepATrainer'
<1> SUFFICES ASSUME Sound, SessionsKeepATrainer, [Next]_vars PROVE SessionsKeepATrainer'
  OBVIOUS
<1>1. Len(members) = Len(sessions) /\ members \in Seq(SUBSET Authors)
      /\ sessions \in Seq(Session)
  BY DEF Sound, TypeOK
<1>2. ASSUME UNCHANGED members, DOMAIN sessions' = DOMAIN sessions
      PROVE SessionsKeepATrainer'
  BY <1>2 DEF SessionsKeepATrainer
<1>3. ASSUME NEW u \in Users, NEW start \in Instants, NEW end \in 0..Forever,
             NEW disposition \in Dispositions, NEW phase \in Phases \union {NoPhase},
             NEW trainers \in SUBSET Authors,
             CreateTx(u, start, end, disposition, phase, trainers)
      PROVE SessionsKeepATrainer'
  <2> DEFINE row == SessionRow(pending[u].on, start, end, phase, disposition)
  <2>1. /\ sessions' = Append(sessions, row) /\ members' = Append(members, trainers)
        /\ trainers # {}
    BY <1>3 DEF CreateTx
  <2> HIDE DEF row
  <2>2. DOMAIN sessions' = DOMAIN sessions \union {Len(sessions) + 1}
    BY <1>1, <2>1
  <2>3. /\ \A s \in DOMAIN members : members'[s] = members[s]
        /\ members'[Len(members) + 1] = trainers
    BY <1>1, <2>1, AppendTypes
  <2>4. DOMAIN members = DOMAIN sessions
    BY <1>1
  <2> QED BY <1>1, <2>1, <2>2, <2>3, <2>4 DEF SessionsKeepATrainer
<1>4. ASSUME NEW u \in Users,
             \/ \E start \in Instants, phase \in Phases \union {NoPhase} :
                  UpdateTx(u, start, phase)
             \/ \E disposition \in Dispositions \ {"open"}, end \in 0..Forever :
                  CloseTx(u, disposition, end)
      PROVE SessionsKeepATrainer'
  BY <1>1, <1>2, <1>4 DEF UpdateTx, CloseTx
<1>5. ASSUME NEW u \in Users, NEW t \in Users, AddTrainerTx(u, t)
      PROVE SessionsKeepATrainer'
  BY <1>1, <1>5 DEF AddTrainerTx, SessionsKeepATrainer
<1>6. ASSUME NEW s \in DOMAIN sessions, NEW t \in Authors, RemoveTrainerTx(s, t)
      PROVE SessionsKeepATrainer'
  <2>1. members[s] \ {t} # {}
    BY <1>6, AnotherRemains DEF RemoveTrainerTx, RemoveAdmitted
  <2>2. members' = [members EXCEPT ![s] = members[s] \ {t}] /\ UNCHANGED sessions
    BY <1>6 DEF RemoveTrainerTx
  <2> QED BY <1>1, <2>1, <2>2 DEF SessionsKeepATrainer
<1>7. ASSUME NEW u \in Users,
             \/ \E e \in DOMAIN enrollments : GateCreate(u, e)
             \/ \E s \in DOMAIN sessions : GateWork(u, s) \/ GateDraft(u, s)
             \/ DraftTx(u) \/ Drop(u)
      PROVE SessionsKeepATrainer'
  BY <1>2, <1>7 DEF GateCreate, GateWork, GateDraft, Pass, DraftTx, Drop
<1> QED
  BY <1>2, <1>3, <1>4, <1>5, <1>6, <1>7 DEF Next, SessionStep, vars

\* Removals that race leave every session a trainer.
THEOREM SessionsStayStaffed == Spec => []SessionsKeepATrainer
<1>1. Init => SessionsKeepATrainer
  BY DEF Init, SessionsKeepATrainer
<1> QED BY <1>1, SoundInitially, SoundInductive, StaffInductive, PTL DEF Spec

(***************************************************************************)
(* Closed sessions, and drafts.                                            *)
(***************************************************************************)
LEMMA RowsSettle ==
  ASSUME Sound, [Next]_vars, NEW s \in DOMAIN sessions
  PROVE  /\ s \in DOMAIN sessions'
         /\ sessions'[s].enrollment = sessions[s].enrollment
         /\ sessions'[s].version = sessions[s].version
         /\ sessions[s].disposition # "open" => sessions'[s] = sessions[s]
         /\ Documented(s) /\ Active(s) => Active(s)'
<1>1. sessions \in Seq(Session)
  BY DEF Sound, TypeOK
<1>2. CASE UNCHANGED sessions
  BY <1>2 DEF Active
<1>3. ASSUME NEW e \in DOMAIN enrollments, NEW start \in Instants, NEW end \in 0..Forever,
             NEW disposition \in Dispositions, NEW phase \in Phases \union {NoPhase},
             Added(start, end, disposition, phase, e)
      PROVE s \in DOMAIN sessions' /\ sessions'[s] = sessions[s]
  <2>1. SessionRow(e, start, end, phase, disposition) \in Session
    BY <1>3, CreatedRow DEF Added, Sound
  <2> QED BY <1>1, <1>3, <2>1, AppendTypes DEF Added
<1>4. ASSUME NEW k \in DOMAIN sessions, NEW start \in Instants,
             NEW phase \in Phases \union {NoPhase}, Updated(k, start, phase)
      PROVE /\ s \in DOMAIN sessions'
            /\ s # k => sessions'[s] = sessions[s]
            /\ sessions'[k].enrollment = sessions[k].enrollment
            /\ sessions'[k].version = sessions[k].version
            /\ sessions'[k].disposition = "open" /\ sessions[k].disposition = "open"
  BY <1>1, <1>4, UpdatedRowShape DEF Updated
<1>5. ASSUME NEW k \in DOMAIN sessions, NEW disposition \in Dispositions \ {"open"},
             NEW end \in 0..Forever, Closed(k, disposition, end)
      PROVE /\ s \in DOMAIN sessions'
            /\ s # k => sessions'[s] = sessions[s]
            /\ sessions'[k].enrollment = sessions[k].enrollment
            /\ sessions'[k].version = sessions[k].version
            /\ sessions[k].disposition = "open"
            /\ sessions'[k].disposition = "cancelled" => ~Documented(k)
  BY <1>1, <1>5, ClosedRowShape DEF Closed
<1> QED BY <1>2, <1>3, <1>4, <1>5, StepCases DEF vars, Active

\* A session keeps its enrollment and version, and is never written once closed.
THEOREM ClosedStaysSettled == Spec => ClosedIsSettled
<1>1. Sound /\ [Next]_vars =>
        [\A s \in DOMAIN sessions :
           /\ sessions'[s].enrollment = sessions[s].enrollment
           /\ sessions'[s].version = sessions[s].version
           /\ sessions[s].disposition # "open" => sessions'[s] = sessions[s]]_vars
  BY RowsSettle
<1> QED BY <1>1, SoundInitially, SoundInductive, PTL DEF Spec, ClosedIsSettled

LEMMA DocumentsInductive ==
  Sound /\ DocumentedWasWorked /\ [Next]_vars => DocumentedWasWorked'
<1> SUFFICES ASSUME Sound, DocumentedWasWorked, [Next]_vars PROVE DocumentedWasWorked'
  OBVIOUS
<1>1. records \in Seq(Record) /\ \A i \in DOMAIN records : records[i].session \in DOMAIN sessions
  BY DEF Sound, TypeOK, Referenced
<1>2. CASE UNCHANGED records
  <2>1. ASSUME NEW i \in DOMAIN records
        PROVE  /\ Active(records[i].session)'
               /\ sessions'[records[i].session].version = sessions[records[i].session].version
               /\ sessions'[records[i].session].enrollment
                    = sessions[records[i].session].enrollment
    <3>1. Documented(records[i].session) /\ Active(records[i].session)
      BY DEF DocumentedWasWorked, Documented
    <3>2. Active(records[i].session)' = (sessions'[records[i].session].disposition # "cancelled")
      BY <1>2 DEF Active
    <3>3. sessions'[records[i].session].disposition # "cancelled"
      BY <1>1, <3>1, RowsSettle DEF Active
    <3> QED BY <1>1, <3>2, <3>3, RowsSettle
  <2> QED BY <1>2, <2>1 DEF DocumentedWasWorked
<1>3. ASSUME NEW u \in Users, DraftTx(u) PROVE DocumentedWasWorked'
  <2> DEFINE s == pending[u].on
             row == RecordRow(s)
  <2>1. /\ s \in DOMAIN sessions /\ Active(s) /\ ~Documented(s)
        /\ records' = Append(records, row) /\ UNCHANGED <<enrollmentVars, sessions, members>>
    BY <1>3 DEF DraftTx, DraftAdmitted, Sound, Referenced
  <2>2. /\ row.session = s /\ row.enrollment = sessions[s].enrollment
        /\ row.version = sessions[s].version
    BY DEF RecordRow
  <2>3. row \in Record
    BY <2>1, SessionTypes DEF Sound, RecordRow, Record, Session
  <2> HIDE DEF s, row
  <2>4. /\ DOMAIN records' = DOMAIN records \union {Len(records) + 1}
        /\ \A i \in DOMAIN records : records'[i] = records[i]
        /\ records'[Len(records) + 1] = row
    BY <1>1, <2>1, <2>3, AppendTypes
  <2>5. \A i \in DOMAIN records : records[i].session # s
    BY <2>1 DEF Documented
  <2> QED BY <2>1, <2>2, <2>4, <2>5 DEF DocumentedWasWorked, Active
<1>4. UNCHANGED records \/ \E u \in Users : DraftTx(u)
  BY DEF Next, SessionStep, vars, GateCreate, GateWork, GateDraft, Pass, CreateTx,
         UpdateTx, CloseTx, AddTrainerTx, RemoveTrainerTx, Drop
<1> QED BY <1>2, <1>3, <1>4

\* However cancelling, drafting and version changes race, a documented session
\* was worked and has one draft of its own version.
THEOREM DocumentedStaysWorked == Spec => []DocumentedWasWorked
<1>1. Init => DocumentedWasWorked
  BY DEF Init, DocumentedWasWorked
<1> QED BY <1>1, SoundInitially, SoundInductive, DocumentsInductive, PTL DEF Spec

(***************************************************************************)
(* The service admits only what the schema accepts.                        *)
(***************************************************************************)
LEMMA CreateAccepted ==
  ASSUME Sound, NEW e \in DOMAIN enrollments, NEW start \in Instants,
         NEW end \in 0..Forever, NEW disposition \in Dispositions,
         NEW phase \in Phases \union {NoPhase},
         CreateAdmitted(e, start, end, disposition, phase)
  PROVE  InsertAccepted(SessionRow(e, start, end, phase, disposition))
<1> DEFINE row == SessionRow(e, start, end, phase, disposition)
<1>1. RowAccepted(row) /\ ~Overlaps(e, start, end, 0)
  BY CreatedRow DEF Sound
<1>2. /\ row.enrollment = e /\ row.start = start /\ row.end = end
      /\ row.version = enrollments[e].version
  BY DEF SessionRow
<1> HIDE DEF row
<1>3. InsertAccepted(row)
  BY <1>1, <1>2 DEF InsertAccepted
<1> QED BY <1>3 DEF row

LEMMA UpdateIsAccepted ==
  ASSUME Sound, NEW s \in DOMAIN sessions, NEW start \in Instants,
         NEW phase \in Phases \union {NoPhase}, UpdateAdmitted(s, start, phase)
  PROVE  UpdateAccepted(s, UpdatedRow(s, start, phase))
<1> DEFINE row == UpdatedRow(s, start, phase)
<1>1. /\ RowAccepted(row) /\ row.enrollment = sessions[s].enrollment
      /\ row.version = sessions[s].version /\ row.start = start /\ row.end = Forever
      /\ row.disposition = "open" /\ sessions[s].disposition = "open"
      /\ ~Overlaps(sessions[s].enrollment, start, Forever, s)
  BY UpdatedRowShape
<1> HIDE DEF row
<1>2. UpdateAccepted(s, row)
  BY <1>1 DEF UpdateAccepted
<1> QED BY <1>2 DEF row

\* An open session already owns every instant after its start, so an earlier
\* end meets no other session.
LEMMA CloseIsAccepted ==
  ASSUME Sound, Separate, NEW s \in DOMAIN sessions,
         NEW disposition \in Dispositions \ {"open"}, NEW end \in 0..Forever,
         CloseAdmitted(s, disposition, end)
  PROVE  UpdateAccepted(s, ClosedRow(s, disposition, end))
<1> DEFINE row == ClosedRow(s, disposition, end)
<1>1. /\ RowAccepted(row) /\ row.enrollment = sessions[s].enrollment
      /\ row.version = sessions[s].version /\ row.start = sessions[s].start
      /\ row.end = end /\ row.disposition = disposition
      /\ sessions[s].disposition = "open" /\ sessions[s].end = Forever
      /\ disposition = "cancelled" => ~Documented(s)
  BY ClosedRowShape
<1> HIDE DEF row
<1>2. ~Overlaps(sessions[s].enrollment, sessions[s].start, end, s)
  <2>1. SUFFICES ASSUME NEW r \in DOMAIN sessions \ {s}, SameTrainee(r, s), Active(r),
                        sessions[r].start < end, sessions[s].start < sessions[r].end
                 PROVE  FALSE
    BY DEF Overlaps, SameTrainee
  <2>2. /\ sessions[r].start \in Nat /\ end \in Nat /\ Forever \in Nat /\ end <= Forever
    BY SessionTypes, SessionBoundsAssumption DEF Sound, Forever
  <2>3. sessions[r].start < sessions[s].end
    BY <1>1, <2>1, <2>2
  <2> QED BY <1>1, <2>1, <2>3 DEF Separate, Active
<1>3. UpdateAccepted(s, row)
  BY <1>1, <1>2 DEF UpdateAccepted
<1> QED BY <1>3 DEF row

\* A transaction the service admits is one no CHECK, foreign key or trigger of
\* the schema refuses, whatever raced it.
THEOREM AdmittedSessionsAreAccepted == Spec => []AdmittedIsAccepted
<1>1. ASSUME Sound, Separate PROVE AdmittedIsAccepted
  <2>1. ASSUME NEW s \in DOMAIN sessions, DraftAdmitted(s)
        PROVE CoverageAccepted(RecordRow(s))
    BY <2>1 DEF DraftAdmitted, CoverageAccepted, RecordRow
  <2>2. ASSUME NEW s \in DOMAIN sessions, NEW t \in Authors, RemoveAdmitted(s, t)
        PROVE RemovalAccepted(s)
    BY <2>2 DEF RemoveAdmitted, RemovalAccepted
  <2> QED
    BY <1>1, <2>1, <2>2, CreateAccepted, UpdateIsAccepted, CloseIsAccepted
       DEF AdmittedIsAccepted
<1>2. Init => Separate
  BY DEF Init, Separate
<1> QED BY <1>1, <1>2, SoundInitially, SoundInductive, SeparateInductive, PTL DEF Spec
=============================================================================
