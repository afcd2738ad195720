--------------------------- MODULE EnrollmentsProofs ---------------------------
(***************************************************************************)
(* What every enrollment operation keeps, for the modules whose histories  *)
(* hang off an enrollment.                                                 *)
(***************************************************************************)
EXTENDS Enrollments, TLAPS

LEMMA AppendTypes ==
  ASSUME NEW S, NEW s \in Seq(S), NEW x \in S
  PROVE  /\ Append(s, x) \in Seq(S)
         /\ Len(Append(s, x)) = Len(s) + 1
         /\ DOMAIN s = 1..Len(s)
         /\ DOMAIN Append(s, x) = (DOMAIN s) \union {Len(s) + 1}
         /\ Len(s) + 1 \notin DOMAIN s
         /\ \A i \in DOMAIN s : Append(s, x)[i] = s[i]
         /\ Append(s, x)[Len(s) + 1] = x
OBVIOUS

LEMMA EnrollmentsTypesInitially == EnrollmentsInit => EnrollmentsTypeOK
BY DEF EnrollmentsInit, EnrollmentsTypeOK

LEMMA EnrollmentType ==
  ASSUME EnrollmentsTypeOK, NEW e \in DOMAIN enrollments
  PROVE  /\ e \in Nat \ {0}
         /\ enrollments[e] \in Enrollment
         /\ enrollments[e].version \in Published
<1>1. e \in Nat \ {0} /\ enrollments[e] \in Enrollment
  BY DEF EnrollmentsTypeOK
<1> QED BY <1>1 DEF Enrollment

LEMMA EnrollmentsTypesKept ==
  ASSUME EnrollmentsTypeOK, EnrollmentsNext PROVE EnrollmentsTypeOK'
<1> USE DEF EnrollmentsTypeOK
<1>1. CASE Tick
  BY <1>1 DEF Tick
<1>2. ASSUME NEW u \in Trainees, NEW v \in Versions, Enroll(u, v)
      PROVE EnrollmentsTypeOK'
  <2>1. [user |-> u, version |-> v] \in Enrollment
    BY <1>2 DEF Enroll, Enrollment
  <2> QED BY <1>2, <2>1, AppendTypes DEF Enroll
<1>3. ASSUME NEW e \in DOMAIN enrollments, NEW t \in Trainers, Assign(e, t)
      PROVE EnrollmentsTypeOK'
  BY <1>3 DEF Assign
<1>4. ASSUME NEW e \in DOMAIN enrollments, NEW t \in Trainers, EndAssignment(e, t)
      PROVE EnrollmentsTypeOK'
  BY <1>4 DEF EndAssignment
<1>5. ASSUME NEW e \in DOMAIN enrollments, NEW kind \in LifecycleKinds, Turn(e, kind)
      PROVE EnrollmentsTypeOK'
  <2>1. LifecycleRow(e, kind, NoVersion, NoVersion) \in LifecycleEvent
    BY DEF LifecycleRow, LifecycleEvent
  <2> QED BY <1>5, <2>1 DEF Turn
<1>6. ASSUME NEW e \in DOMAIN enrollments, NEW to \in Versions, ChangeVersion(e, to)
      PROVE EnrollmentsTypeOK'
  <2>1. to \in Published
    BY <1>6 DEF ChangeVersion, TargetAdmitted
  <2>2. LifecycleRow(e, "version_change", enrollments[e].version, to) \in LifecycleEvent
    <3>1. e \in Nat /\ enrollments[e].version \in Published
      BY EnrollmentType
    <3>2. clock \in Nat
      OBVIOUS
    <3> QED
      BY <2>1, <3>1, <3>2 DEF LifecycleRow, LifecycleEvent, LifecycleKinds
  <2>3. [enrollments[e] EXCEPT !.version = to] \in Enrollment
    BY <2>1, EnrollmentType DEF Enrollment
  <2>4. enrollments' = [enrollments EXCEPT ![e] = [enrollments[e] EXCEPT !.version = to]]
    BY <1>6 DEF ChangeVersion
  <2> QED BY <1>6, <2>2, <2>3, <2>4 DEF ChangeVersion
<1> QED BY <1>1, <1>2, <1>3, <1>4, <1>5, <1>6 DEF EnrollmentsNext

\* No operation deletes an enrollment or gives it to another trainee.
LEMMA EnrollmentsKeepTheirTrainees ==
  ASSUME EnrollmentsTypeOK, EnrollmentsNext, NEW e \in DOMAIN enrollments
  PROVE  e \in DOMAIN enrollments' /\ enrollments'[e].user = enrollments[e].user
<1> USE DEF EnrollmentsTypeOK
<1>1. ASSUME NEW u \in Trainees, NEW v \in Versions, Enroll(u, v)
      PROVE e \in DOMAIN enrollments' /\ enrollments'[e].user = enrollments[e].user
  <2>1. [user |-> u, version |-> v] \in Enrollment
    BY <1>1 DEF Enroll, Enrollment
  <2> QED BY <1>1, <2>1, AppendTypes DEF Enroll
<1>2. ASSUME NEW d \in DOMAIN enrollments, NEW to \in Versions, ChangeVersion(d, to)
      PROVE e \in DOMAIN enrollments' /\ enrollments'[e].user = enrollments[e].user
  <2>1. enrollments[e] \in Enrollment /\ enrollments[d] \in Enrollment
    BY EnrollmentType
  <2>2. enrollments' = [enrollments EXCEPT ![d] = [enrollments[d] EXCEPT !.version = to]]
    BY <1>2 DEF ChangeVersion
  <2>3. [enrollments[d] EXCEPT !.version = to].user = enrollments[d].user
    BY <2>1 DEF Enrollment
  <2> QED BY <2>1, <2>2, <2>3
<1> QED
  BY <1>1, <1>2 DEF EnrollmentsNext, Tick, Assign, EndAssignment, Turn

\* A step records nothing, turns an enrollment's status, or changes its version.
LEMMA EnrollmentStepCases ==
  ASSUME EnrollmentsTypeOK, EnrollmentsNext
  PROVE  /\ clock <= clock' /\ clock \in Nat /\ clock' \in Nat
         /\ \/ /\ UNCHANGED lifecycle
               /\ \A e \in DOMAIN enrollments : enrollments'[e] = enrollments[e]
            \/ \E e \in DOMAIN enrollments, kind \in LifecycleKinds \ {"version_change"} :
                 Turn(e, kind)
            \/ \E e \in DOMAIN enrollments, to \in Versions : ChangeVersion(e, to)
<1> DEFINE Cases ==
             \/ /\ UNCHANGED lifecycle
                /\ \A e \in DOMAIN enrollments : enrollments'[e] = enrollments[e]
             \/ \E e \in DOMAIN enrollments, kind \in LifecycleKinds \ {"version_change"} :
                  Turn(e, kind)
             \/ \E e \in DOMAIN enrollments, to \in Versions : ChangeVersion(e, to)
<1>1. clock \in Nat /\ enrollments \in Seq(Enrollment)
  BY DEF EnrollmentsTypeOK
<1>2. CASE Tick
  BY <1>1, <1>2 DEF Tick
<1>3. ASSUME NEW u \in Trainees, NEW v \in Versions, Enroll(u, v)
      PROVE UNCHANGED <<clock, lifecycle>>
            /\ \A e \in DOMAIN enrollments : enrollments'[e] = enrollments[e]
  <2>1. [user |-> u, version |-> v] \in Enrollment
    BY <1>3 DEF Enroll, Enrollment
  <2> QED BY <1>1, <1>3, <2>1, AppendTypes DEF Enroll
<1>4. ASSUME NEW e \in DOMAIN enrollments, NEW t \in Trainers,
             Assign(e, t) \/ EndAssignment(e, t)
      PROVE UNCHANGED <<clock, lifecycle, enrollments>>
  BY <1>4 DEF Assign, EndAssignment
<1>5. ASSUME NEW e \in DOMAIN enrollments, NEW kind \in LifecycleKinds, Turn(e, kind)
      PROVE UNCHANGED clock
  BY <1>5 DEF Turn
<1>6. ASSUME NEW e \in DOMAIN enrollments, NEW to \in Versions, ChangeVersion(e, to)
      PROVE UNCHANGED clock
  BY <1>6 DEF ChangeVersion
<1> QED BY <1>1, <1>2, <1>3, <1>4, <1>5, <1>6 DEF EnrollmentsNext
=============================================================================
