---------------------------- MODULE RetentionProofs ----------------------------
(***************************************************************************)
(* What retention administration guarantees for any users, classes,        *)
(* records and bounds, whatever calls are in flight and however the clock  *)
(* is set.                                                                 *)
(***************************************************************************)
EXTENDS Retention, FiniteSetTheorems, TLAPS

\* Within a class, a later row has a higher version, counted from 1.  So the row of the
\* highest version, which CreatePolicy supersedes, is the last one and it exists.
VersionsAscend ==
  /\ \A p \in DOMAIN policies : policies[p].version_number > 0
  /\ \A p, q \in DOMAIN policies :
       policies[p].class = policies[q].class /\ p < q =>
         policies[p].version_number < policies[q].version_number
  /\ \A class \in Classes : Revisions(class) # {} =>
       /\ Current(class) \in Revisions(class)
       /\ \A q \in Revisions(class) : q <= Current(class)

Shape == RetentionTypeOK /\ VersionsAscend

-----------------------------------------------------------------------------
(***************************************************************************)
(* Types, and which policy is current.                                     *)
(***************************************************************************)
LEMMA CurrentType ==
  ASSUME Shape, NEW class \in Classes
  PROVE  /\ Current(class) \in Nat
         /\ Current(class) = NoRow <=> Revisions(class) = {}
         /\ NextVersion(class) \in Nat \ {0}
<1>1. Revisions(class) \subseteq Nat \ {0}
  BY DEF Revisions, Shape, RetentionTypeOK
<1>2. CASE Revisions(class) = {}
  BY <1>2 DEF Current, NextVersion, NoRow
<1>3. CASE Revisions(class) # {}
  <2>1. Current(class) \in Revisions(class)
    BY <1>3 DEF Shape, VersionsAscend
  <2>2. policies[Current(class)].version_number \in Nat
    <3>1. policies[Current(class)] \in PolicyRow
      BY <2>1 DEF Revisions, Shape, RetentionTypeOK
    <3> QED BY <3>1 DEF PolicyRow
  <2>3. Current(class) # NoRow
    BY <1>1, <2>1 DEF NoRow
  <2> QED BY <1>1, <1>3, <2>1, <2>2, <2>3 DEF NextVersion
<1> QED BY <1>2, <1>3

LEMMA ShownAreCalls == Shape => Shown \subseteq Calls
<1> SUFFICES ASSUME Shape, NEW call \in Shown PROVE call \in Calls
  OBVIOUS
<1>1. CASE call \in [op : {"authority"}, by : Administrators, user : Users, granted : BOOLEAN]
  BY <1>1, RetentionAssumption DEF Calls
<1>2. ASSUME NEW u \in grants, call \in PolicyCalls(u) PROVE call \in Calls
  BY <1>2, CurrentType DEF PolicyCalls, Calls, Shape, RetentionTypeOK
<1>3. ASSUME NEW u \in grants, call \in HoldCalls(u) PROVE call \in Calls
  <2>1. Active \union {NoRow} \subseteq Nat
    BY DEF Active, NoRow, Shape, RetentionTypeOK
  <2> QED BY <1>3, <2>1 DEF HoldCalls, Calls, Shape, RetentionTypeOK
<1>4. ASSUME NEW u \in grants, call \in ReleaseCalls(u) PROVE call \in Calls
  <2>1. Active \subseteq Nat
    BY DEF Active, Shape, RetentionTypeOK
  <2> QED BY <1>4, <2>1 DEF ReleaseCalls, Calls, Shape, RetentionTypeOK
<1> QED BY <1>1, <1>2, <1>3, <1>4 DEF Shown

LEMMA AuthorityRowType ==
  ASSUME NEW kind \in AuthorityKinds, NEW u \in Users, NEW v \in Users
  PROVE  [kind |-> kind, actor |-> u, subject |-> v] \in AuditRow
BY DEF AuditRow

LEMMA AdministrationRowType ==
  ASSUME NEW kind \in AdministrationKinds, NEW u \in Users, NEW n \in Nat
  PROVE  [kind |-> kind, actor |-> u, subject |-> n] \in AuditRow
BY DEF AuditRow

\* A step that leaves the policies alone leaves every class's current one.
LEMMA SamePolicies ==
  ASSUME VersionsAscend, UNCHANGED policies PROVE VersionsAscend'
BY DEF VersionsAscend, Current, Revisions

\* The row CreatePolicy appends is its class's new current one, and no other class's
\* changes.
LEMMA AppendedPolicy ==
  ASSUME Shape, NEW class \in Classes, NEW row \in PolicyRow,
         row.class = class, row.version_number = NextVersion(class),
         policies' = Append(policies, row)
  PROVE  VersionsAscend'
<1> DEFINE n == Len(policies) + 1
<1>1. /\ n \in Nat \ {0} /\ DOMAIN policies = 1..(n - 1) /\ DOMAIN policies' = 1..n
      /\ policies'[n] = row /\ \A p \in 1..(n - 1) : policies'[p] = policies[p]
      /\ \A p \in 1..(n - 1) : policies[p] \in PolicyRow
  BY DEF Shape, RetentionTypeOK
<1>2. /\ row.version_number \in Nat \ {0}
      /\ \A p \in 1..(n - 1) : policies[p].class = class =>
           policies[p].version_number < row.version_number
  <2> SUFFICES ASSUME NEW p \in 1..(n - 1), policies[p].class = class
               PROVE  policies[p].version_number < row.version_number
    BY CurrentType
  <2>1. p \in Revisions(class)
    BY <1>1 DEF Revisions
  <2>2. Current(class) \in Revisions(class) /\ p <= Current(class) /\ Current(class) # NoRow
    BY <2>1, CurrentType DEF Shape, VersionsAscend
  <2>3. policies[p].version_number <= policies[Current(class)].version_number
    <3>1. Current(class) \in 1..(n - 1) /\ policies[Current(class)].class = class
      BY <1>1, <2>2 DEF Revisions
    <3>2. CASE p = Current(class)
      BY <1>1, <3>2 DEF PolicyRow
    <3>3. CASE p < Current(class)
      <4>1. policies[p].version_number < policies[Current(class)].version_number
        BY <1>1, <3>1, <3>3 DEF Shape, VersionsAscend
      <4> QED BY <1>1, <3>1, <4>1 DEF PolicyRow
    <3>4. p < Current(class) \/ p = Current(class)
      BY <1>1, <2>2, <3>1
    <3> QED BY <3>2, <3>3, <3>4
  <2>4. policies[p].version_number \in Nat /\ policies[Current(class)].version_number \in Nat
    BY <1>1, <2>2 DEF Revisions, PolicyRow
  <2> QED BY <2>2, <2>3, <2>4 DEF NextVersion
<1>3. \A p \in 1..n : policies'[p].version_number \in Nat \ {0}
  BY <1>1, <1>2 DEF Shape, VersionsAscend, PolicyRow
<1>4. \A p, q \in 1..n : policies'[p].class = policies'[q].class /\ p < q =>
        policies'[p].version_number < policies'[q].version_number
  BY <1>1, <1>2 DEF Shape, VersionsAscend
<1>5. ASSUME NEW c \in Classes, Revisions(c)' # {}
      PROVE  Current(c)' \in Revisions(c)' /\ \A q \in Revisions(c)' : q <= Current(c)'
  <2>1. Revisions(c)' = {p \in 1..n : policies'[p].class = c}
    BY <1>1 DEF Revisions
  <2> DEFINE Highest(p) ==
               \A q \in Revisions(c)' : policies'[q].version_number <= policies'[p].version_number
  <2>2. PICK last \in Revisions(c)' : \A q \in Revisions(c)' : q <= last
    <3>1. CASE c = class
      BY <1>1, <2>1, <3>1
    <3>2. CASE c # class
      <4>1. Revisions(c)' = Revisions(c)
        BY <1>1, <2>1, <3>2 DEF Revisions
      <4> QED BY <1>5, <4>1 DEF Shape, VersionsAscend
    <3> QED BY <3>1, <3>2
  <2>3. Highest(last)
    <3> SUFFICES ASSUME NEW q \in Revisions(c)'
                 PROVE  policies'[q].version_number <= policies'[last].version_number
      OBVIOUS
    <3>1. CASE q = last
      BY <1>3, <2>1, <3>1
    <3>2. CASE q < last
      BY <1>3, <1>4, <2>1, <3>2
    <3> QED BY <2>1, <2>2, <3>1, <3>2
  <2>4. \A p \in Revisions(c)' : Highest(p) => p = last
    <3> SUFFICES ASSUME NEW p \in Revisions(c)', Highest(p), p # last PROVE FALSE
      OBVIOUS
    <3>1. p < last
      BY <2>1, <2>2
    <3>2. policies'[p].version_number < policies'[last].version_number
      BY <1>4, <2>1, <3>1
    <3> QED BY <1>3, <2>1, <3>2
  <2>5. Current(c)' = CHOOSE p \in Revisions(c)' : Highest(p)
    BY <1>5 DEF Current
  <2>6. Current(c)' = last
    BY <2>3, <2>4, <2>5
  <2> QED BY <2>2, <2>6
<1> QED BY <1>1, <1>3, <1>4, <1>5 DEF VersionsAscend

LEMMA ShapeInductive == Shape /\ [Next]_vars => Shape'
<1> SUFFICES ASSUME Shape, [Next]_vars PROVE Shape'
  OBVIOUS
<1>0. /\ clock \in 0..MaxTime /\ grants \subseteq Users /\ inFlight \subseteq Calls
      /\ Len(holds) \in Nat /\ Len(policies) \in Nat /\ Active \subseteq Nat
  BY DEF Shape, RetentionTypeOK, Active
<1>1. CASE Ask
  BY <1>1, ShownAreCalls, SamePolicies DEF Ask, Shape, RetentionTypeOK
<1>2. ASSUME NEW call \in inFlight, SetAuthority(call) PROVE Shape'
  <2>1. call.by \in Users /\ call.user \in Users
    BY <1>0, <1>2 DEF SetAuthority, Acts, Calls
  <2>2. audit' \in Seq(AuditRow)
    BY <1>2, <2>1, AuthorityRowType DEF SetAuthority, Record, AuthorityKinds, Shape, RetentionTypeOK
  <2>3. grants' \subseteq Users
    BY <1>0, <1>2, <2>1 DEF SetAuthority
  <2> QED
    BY <1>2, <2>2, <2>3, SamePolicies DEF SetAuthority, Acts, Shape, RetentionTypeOK
<1>3. ASSUME NEW call \in inFlight, CreatePolicy(call) PROVE Shape'
  <2> DEFINE row == [class |-> call.class, version_number |-> NextVersion(call.class),
                     supersedes_id |-> call.expected_current_id, created_by |-> call.by]
  <2>1. call.by \in Users /\ call.class \in Classes /\ call.expected_current_id \in Nat
    BY <1>0, <1>3 DEF CreatePolicy, Acts, Calls
  <2>2. row \in PolicyRow
    BY <2>1, CurrentType DEF PolicyRow
  <2>3. policies' = Append(policies, row)
    BY <1>3 DEF CreatePolicy
  <2>4. VersionsAscend'
    <3>1. row.class = call.class /\ row.version_number = NextVersion(call.class)
      OBVIOUS
    <3> HIDE DEF row
    <3> QED BY <2>1, <2>2, <2>3, <3>1, AppendedPolicy
  <2>5. audit' \in Seq(AuditRow)
    BY <1>0, <1>3, <2>1, AdministrationRowType
       DEF CreatePolicy, Record, AdministrationKinds, Shape, RetentionTypeOK
  <2>6. policies' \in Seq(PolicyRow)
    BY <2>2, <2>3 DEF Shape, RetentionTypeOK
  <2> QED
    BY <1>3, <2>4, <2>5, <2>6 DEF CreatePolicy, Acts, Shape, RetentionTypeOK
<1>4. ASSUME NEW call \in inFlight, WriteHold(call) PROVE Shape'
  <2>1. call.by \in Users /\ call.scope \in HoldScope /\ call.replaces_id \in Nat
    BY <1>0, <1>4 DEF WriteHold, Acts, Calls
  <2>2. holds' \in Seq(HoldRow)
    BY <1>0, <1>4, <2>1 DEF WriteHold, HoldRow, Shape, RetentionTypeOK
  <2>3. releases' \subseteq ReleaseRow
    BY <1>0, <1>4, <2>1
       DEF WriteHold, ReleasedByReplacement, Release, ReleaseRow, Shape, RetentionTypeOK
  <2>4. audit' \in Seq(AuditRow)
    BY <1>0, <1>4, <2>1, AdministrationRowType
       DEF WriteHold, Record, AdministrationKinds, Shape, RetentionTypeOK
  <2> QED
    BY <1>4, <2>2, <2>3, <2>4, SamePolicies DEF WriteHold, Acts, Shape, RetentionTypeOK
<1>5. ASSUME NEW call \in inFlight, ReleaseHold(call) PROVE Shape'
  <2>1. call.by \in Users /\ call.hold_id \in Nat
    BY <1>0, <1>5 DEF ReleaseHold, Acts, Calls
  <2>2. releases' \subseteq ReleaseRow
    BY <1>0, <1>5, <2>1 DEF ReleaseHold, Release, ReleaseRow, NoRow, Shape, RetentionTypeOK
  <2>3. audit' \in Seq(AuditRow)
    BY <1>0, <1>5, <2>1, AdministrationRowType
       DEF ReleaseHold, Record, AdministrationKinds, Shape, RetentionTypeOK
  <2> QED
    BY <1>5, <2>2, <2>3, SamePolicies DEF ReleaseHold, Acts, Shape, RetentionTypeOK
<1>6. ASSUME NEW call \in inFlight, Refuse(call) PROVE Shape'
  BY <1>6, SamePolicies DEF Refuse, Shape, RetentionTypeOK
<1>7. CASE StartRecord
  BY <1>7, SamePolicies DEF StartRecord, Shape, RetentionTypeOK
<1>8. CASE SetClock
  BY <1>8, SamePolicies DEF SetClock, Shape, RetentionTypeOK
<1>9. CASE UNCHANGED vars
  BY <1>9, SamePolicies DEF vars, Shape, RetentionTypeOK
<1> QED
  BY <1>1, <1>2, <1>3, <1>4, <1>5, <1>6, <1>7, <1>8, <1>9 DEF Next

LEMMA ShapeInvariant == Spec => []Shape
<1>1. Init => Shape
  BY RetentionAssumption
     DEF Init, Shape, RetentionTypeOK, VersionsAscend, Revisions
<1> QED BY <1>1, ShapeInductive, PTL DEF Spec

\* Every row, release and call in flight has its type; and a class's versions ascend in
\* the order of its rows, so that a class with a policy has a current one, which is its
\* last (create_policy supersedes the row of the highest version).
THEOREM RetentionTypes == Spec => [](RetentionTypeOK /\ VersionsAscend)
BY ShapeInvariant, PTL DEF Shape

-----------------------------------------------------------------------------
(***************************************************************************)
(* Histories.                                                              *)
(***************************************************************************)
PolicyNumbered(p) ==
  LET row == policies[p] IN
  /\ row.version_number = Cardinality({q \in Revisions(row.class) : q <= p})
  /\ IF row.version_number = 1 THEN row.supersedes_id = NoRow
     ELSE /\ row.supersedes_id \in Revisions(row.class)
          /\ policies[row.supersedes_id].version_number = row.version_number - 1

PoliciesNumbered == \A p \in DOMAIN policies : PolicyNumbered(p)

HoldsReplaced ==
  \A h \in DOMAIN holds : holds[h].replaces_id # NoRow =>
    [hold_id |-> holds[h].replaces_id, released_by |-> holds[h].created_by,
     released_at |-> holds[h].created_at, replacement_id |-> h] \in releases

ReleasedOnce ==
  \A r \in releases :
    /\ r.hold_id \in DOMAIN holds
    /\ holds[r.hold_id].created_at <= r.released_at
    /\ r.replacement_id # NoRow =>
         r.replacement_id \in DOMAIN holds /\ holds[r.replacement_id].replaces_id = r.hold_id
    /\ \A q \in releases : q.hold_id = r.hold_id => q = r

LEMMA HistoriesInParts ==
  HistoriesDoNotFork <=> PoliciesNumbered /\ HoldsReplaced /\ ReleasedOnce
BY DEF HistoriesDoNotFork, PoliciesNumbered, PolicyNumbered, HoldsReplaced, ReleasedOnce

\* The rows of a class are finitely many, and the next row's number counts one more.
LEMMA NextVersionCounts ==
  ASSUME Shape, PoliciesNumbered, NEW class \in Classes
  PROVE  /\ IsFiniteSet(Revisions(class))
         /\ NextVersion(class) = Cardinality(Revisions(class)) + 1
<1>1. IsFiniteSet(Revisions(class))
  <2>1. Revisions(class) \subseteq 1..Len(policies) /\ Len(policies) \in Nat
    BY DEF Revisions, Shape, RetentionTypeOK
  <2>2. IsFiniteSet(1..Len(policies))
    BY <2>1, FS_Interval
  <2> QED BY <2>1, <2>2, FS_Subset
<1>2. CASE Revisions(class) = {}
  BY <1>2, FS_EmptySet, CurrentType DEF NextVersion
<1>3. CASE Revisions(class) # {}
  <2> DEFINE c == Current(class)
  <2>1. c \in Revisions(class) /\ c # NoRow /\ \A q \in Revisions(class) : q <= c
    BY <1>3, CurrentType DEF Shape, VersionsAscend
  <2>2. c \in DOMAIN policies /\ policies[c].class = class
    BY <2>1 DEF Revisions
  <2>3. {q \in Revisions(class) : q <= c} = Revisions(class)
    BY <2>1
  <2>4. policies[c].version_number = Cardinality({q \in Revisions(class) : q <= c})
    BY <2>2 DEF PoliciesNumbered, PolicyNumbered
  <2> QED BY <1>1, <2>1, <2>3, <2>4 DEF NextVersion
<1> QED BY <1>1, <1>2, <1>3

LEMMA PolicyAppendNumbered ==
  ASSUME Shape, PoliciesNumbered, NEW call \in inFlight, CreatePolicy(call)
  PROVE  PoliciesNumbered'
<1> DEFINE class == call.class
           row == [class |-> call.class, version_number |-> NextVersion(call.class),
                   supersedes_id |-> call.expected_current_id, created_by |-> call.by]
<1>0. PICK n \in Nat : n = Len(policies) + 1
  BY DEF Shape, RetentionTypeOK
<1>1. /\ class \in Classes
      /\ call.expected_current_id = Current(class)
      /\ policies' = Append(policies, row)
  BY DEF CreatePolicy, Acts, Calls, Shape, RetentionTypeOK
<1>2. /\ n \in Nat \ {0} /\ DOMAIN policies = 1..(n - 1) /\ DOMAIN policies' = 1..n
      /\ policies'[n] = row /\ \A p \in 1..(n - 1) : policies'[p] = policies[p]
  BY <1>0, <1>1 DEF Shape, RetentionTypeOK
<1>3. \A c : Revisions(c)' = IF c = class THEN Revisions(c) \union {n} ELSE Revisions(c)
  BY <1>2 DEF Revisions
<1>4. \A c : Revisions(c) \subseteq 1..(n - 1)
  BY <1>2 DEF Revisions
<1>5. ASSUME NEW p \in 1..(n - 1) PROVE PolicyNumbered(p)'
  <2>1. PolicyNumbered(p)
    BY <1>2, <1>5 DEF PoliciesNumbered
  <2>2. {q \in Revisions(policies[p].class)' : q <= p} = {q \in Revisions(policies[p].class) : q <= p}
    BY <1>2, <1>3
  <2>3. \A q \in Revisions(policies[p].class) :
          policies'[q] = policies[q] /\ q \in Revisions(policies[p].class)'
    BY <1>2, <1>3, <1>4
  <2>4. policies'[p] = policies[p]
    BY <1>2
  <2> QED BY <2>1, <2>2, <2>3, <2>4 DEF PolicyNumbered
<1>6. PolicyNumbered(n)'
  <2>1. /\ row.class = class /\ row.version_number = NextVersion(class)
        /\ row.supersedes_id = Current(class)
    BY <1>1
  <2>2. {q \in Revisions(class)' : q <= n} = Revisions(class) \union {n}
    BY <1>2, <1>3, <1>4
  <2>3. Cardinality(Revisions(class) \union {n}) = Cardinality(Revisions(class)) + 1
    <3>1. n \notin Revisions(class)
      BY <1>2, <1>4
    <3> QED BY <1>1, <3>1, NextVersionCounts, FS_AddElement
  <2>4. NextVersion(class) = Cardinality(Revisions(class)) + 1
    BY <1>1, NextVersionCounts
  <2>5. CASE Revisions(class) = {}
    <3>1. Current(class) = NoRow /\ NextVersion(class) = 1
      BY <1>1, <2>5, CurrentType DEF NextVersion
    <3> HIDE DEF row, class
    <3> QED BY <1>2, <2>1, <2>2, <2>3, <2>4, <3>1 DEF PolicyNumbered
  <2>6. CASE Revisions(class) # {}
    <3>1. Current(class) \in Revisions(class) /\ Current(class) # NoRow
      BY <1>1, <2>6, CurrentType DEF Shape, VersionsAscend
    <3>2. policies[Current(class)].version_number \in Nat \ {0}
      <4>1. policies[Current(class)] \in PolicyRow /\ Current(class) \in DOMAIN policies
        BY <3>1 DEF Revisions, Shape, RetentionTypeOK
      <4> QED BY <4>1 DEF PolicyRow, Shape, VersionsAscend
    <3>3. NextVersion(class) = policies[Current(class)].version_number + 1
      BY <3>1 DEF NextVersion
    <3>4. /\ NextVersion(class) # 1
          /\ policies'[Current(class)].version_number = NextVersion(class) - 1
          /\ Current(class) \in Revisions(class)'
      BY <1>2, <1>3, <1>4, <3>1, <3>2, <3>3
    <3> HIDE DEF row, class
    <3> QED BY <1>2, <2>1, <2>2, <2>3, <2>4, <3>4 DEF PolicyNumbered
  <2> QED BY <2>5, <2>6
<1> QED BY <1>2, <1>5, <1>6 DEF PoliciesNumbered

\* A step that releases nothing and places nothing.
LEMMA SameHistories ==
  ASSUME HistoriesDoNotFork, UNCHANGED <<policies, holds, releases>>
  PROVE  HistoriesDoNotFork'
BY DEF HistoriesDoNotFork, Revisions

LEMMA SamePoliciesNumbered ==
  ASSUME PoliciesNumbered, UNCHANGED policies PROVE PoliciesNumbered'
BY DEF PoliciesNumbered, PolicyNumbered, Revisions

LEMMA HoldWritten ==
  ASSUME Shape, HoldsReplaced, ReleasedOnce, NEW call \in inFlight, WriteHold(call)
  PROVE  HoldsReplaced' /\ ReleasedOnce'
<1> DEFINE n == Len(holds) + 1
           replaced == call.replaces_id
           released == [hold_id |-> replaced, released_by |-> call.by, released_at |-> clock,
                        replacement_id |-> n]
           row == [scope |-> call.scope, created_by |-> call.by, created_at |-> clock,
                   replaces_id |-> call.replaces_id]
<1>1. /\ holds' = Append(holds, row)
      /\ releases' = IF replaced = NoRow THEN releases ELSE releases \union {released}
      /\ replaced # NoRow => replaced \in Active /\ holds[replaced].created_at <= clock
  BY DEF WriteHold, ReleasedByReplacement, Release, Releasable
<1>2. /\ n \in Nat \ {0} /\ DOMAIN holds = 1..(n - 1) /\ DOMAIN holds' = 1..n
      /\ holds'[n] = row /\ \A h \in 1..(n - 1) : holds'[h] = holds[h]
  BY <1>1 DEF Shape, RetentionTypeOK
<1>3. replaced \in Active => replaced \in 1..(n - 1) /\ \A r \in releases : r.hold_id # replaced
  BY <1>2 DEF Active, Released
<1>4. /\ row.created_by = call.by /\ row.created_at = clock /\ row.replaces_id = replaced
      /\ released.hold_id = replaced /\ released.released_at = clock
      /\ released.replacement_id = n
  OBVIOUS
<1>5. HoldsReplaced'
  <2>1. replaced # NoRow =>
          [hold_id |-> row.replaces_id, released_by |-> row.created_by,
           released_at |-> row.created_at, replacement_id |-> n] \in releases'
    BY <1>1
  <2> HIDE DEF row, released, n
  <2> QED BY <1>1, <1>2, <1>4, <2>1 DEF HoldsReplaced
<1>6. ReleasedOnce'
  <2> HIDE DEF row, released, n, replaced
  <2>1. ASSUME NEW r \in releases
        PROVE  /\ r.hold_id \in DOMAIN holds'
               /\ holds'[r.hold_id].created_at <= r.released_at
               /\ r.replacement_id # NoRow => /\ r.replacement_id \in DOMAIN holds'
                                              /\ holds'[r.replacement_id].replaces_id = r.hold_id
               /\ \A q \in releases' : q.hold_id = r.hold_id => q = r
    BY <1>1, <1>2, <1>3, <1>4, <2>1 DEF ReleasedOnce
  <2>2. ASSUME replaced # NoRow
        PROVE  /\ released.hold_id \in DOMAIN holds'
               /\ holds'[released.hold_id].created_at <= released.released_at
               /\ released.replacement_id \in DOMAIN holds'
               /\ holds'[released.replacement_id].replaces_id = released.hold_id
               /\ \A q \in releases' : q.hold_id = released.hold_id => q = released
    BY <1>1, <1>2, <1>3, <1>4, <2>2
  <2> QED BY <1>1, <2>1, <2>2 DEF ReleasedOnce
<1> QED BY <1>5, <1>6

LEMMA HoldReleased ==
  ASSUME Shape, HoldsReplaced, ReleasedOnce, NEW call \in inFlight, ReleaseHold(call)
  PROVE  HoldsReplaced' /\ ReleasedOnce'
<1> DEFINE released == [hold_id |-> call.hold_id, released_by |-> call.by,
                        released_at |-> clock, replacement_id |-> NoRow]
<1>1. /\ holds' = holds /\ releases' = releases \union {released}
      /\ call.hold_id \in Active /\ holds[call.hold_id].created_at <= clock
  BY DEF ReleaseHold, Release, Releasable
<1>2. released.hold_id = call.hold_id /\ released.released_at = clock
      /\ released.replacement_id = NoRow
  OBVIOUS
<1>3. call.hold_id \in DOMAIN holds /\ \A r \in releases : r.hold_id # call.hold_id
  BY <1>1 DEF Active, Released
<1> HIDE DEF released
<1> QED BY <1>1, <1>2, <1>3 DEF HoldsReplaced, ReleasedOnce

LEMMA HistoriesInductive == Shape /\ HistoriesDoNotFork /\ [Next]_vars => HistoriesDoNotFork'
<1> SUFFICES ASSUME Shape, HistoriesDoNotFork, [Next]_vars PROVE HistoriesDoNotFork'
  OBVIOUS
<1>0. PoliciesNumbered /\ HoldsReplaced /\ ReleasedOnce
  BY HistoriesInParts
<1>1. ASSUME NEW call \in inFlight, CreatePolicy(call) PROVE HistoriesDoNotFork'
  <2>1. PoliciesNumbered'
    BY <1>0, <1>1, PolicyAppendNumbered
  <2>2. HoldsReplaced' /\ ReleasedOnce'
    BY <1>0, <1>1 DEF CreatePolicy, HoldsReplaced, ReleasedOnce
  <2> QED BY <2>1, <2>2
    DEF HistoriesDoNotFork, PoliciesNumbered, PolicyNumbered, HoldsReplaced, ReleasedOnce
<1>2. ASSUME NEW call \in inFlight, WriteHold(call) \/ ReleaseHold(call)
      PROVE  HistoriesDoNotFork'
  <2>1. PoliciesNumbered'
    BY <1>0, <1>2, SamePoliciesNumbered DEF WriteHold, ReleaseHold
  <2>2. HoldsReplaced' /\ ReleasedOnce'
    BY <1>0, <1>2, HoldWritten, HoldReleased
  <2> QED BY <2>1, <2>2
    DEF HistoriesDoNotFork, PoliciesNumbered, PolicyNumbered, HoldsReplaced, ReleasedOnce
<1>3. ASSUME UNCHANGED <<policies, holds, releases>> PROVE HistoriesDoNotFork'
  BY <1>3, SameHistories
<1>4. ASSUME NEW call \in inFlight, SetAuthority(call) \/ Refuse(call)
      PROVE  UNCHANGED <<policies, holds, releases>>
  BY <1>4 DEF SetAuthority, Refuse
<1>5. CASE Ask \/ StartRecord \/ SetClock \/ UNCHANGED vars
  BY <1>3, <1>5 DEF Ask, StartRecord, SetClock, vars
<1> QED BY <1>1, <1>2, <1>3, <1>4, <1>5 DEF Next

LEMMA HistoriesInvariant == Spec => [](Shape /\ HistoriesDoNotFork)
<1>1. Init => HistoriesDoNotFork
  BY DEF Init, HistoriesDoNotFork
<1> QED BY <1>1, HistoriesInductive, ShapeInvariant, PTL DEF Spec

\* No policy version and no hold ever has two successors: versions are counted, each
\* supersedes the one before, and a hold is released once, never before it was placed.
THEOREM NoForks == Spec => []HistoriesDoNotFork
BY HistoriesInvariant, PTL

-----------------------------------------------------------------------------
(***************************************************************************)
(* Authority.                                                              *)
(***************************************************************************)
\* HeldAt of a log given as an argument.
HeldIn(log, u, j) ==
  \E i \in 1..(j - 1) :
    /\ log[i].kind = "retention_authority_granted" /\ log[i].subject = u
    /\ \A k \in (i + 1)..(j - 1) :
         ~(log[k].kind = "retention_authority_revoked" /\ log[k].subject = u)

Authorizing(log, holders) ==
  /\ \A j \in DOMAIN log :
       IF log[j].kind \in AuthorityKinds THEN log[j].actor \in Administrators
       ELSE HeldIn(log, log[j].actor, j)
  /\ holders = {u \in Users : HeldIn(log, u, Len(log) + 1)}

LEMMA ActsInLog ==
  /\ ActsWereAuthorized <=> Authorizing(audit, grants)
  /\ ActsWereAuthorized' <=> Authorizing(audit', grants')
BY DEF ActsWereAuthorized, Authorizing, HeldAt, HeldIn

\* What stands before place j of the log is not changed by appending to it.
LEMMA HeldIsFixed ==
  ASSUME NEW log \in Seq(AuditRow), NEW row \in AuditRow, NEW u, NEW j \in 1..(Len(log) + 1)
  PROVE  HeldIn(Append(log, row), u, j) = HeldIn(log, u, j)
<1>1. Len(log) \in Nat /\ \A i \in 1..(j - 1) : Append(log, row)[i] = log[i]
  OBVIOUS
<1>2. \A i \in 1..(j - 1) : \A k \in (i + 1)..(j - 1) : Append(log, row)[k] = log[k]
  BY <1>1
<1> QED BY <1>1, <1>2 DEF HeldIn

\* One more event: what u held, unless the event revokes it, or a grant to u.
LEMMA HeldAfter ==
  ASSUME NEW log \in Seq(AuditRow), NEW row \in AuditRow, NEW u, NEW n, n = Len(log) + 1
  PROVE  HeldIn(Append(log, row), u, n + 1) =
           \/ row.kind = "retention_authority_granted" /\ row.subject = u
           \/ /\ HeldIn(log, u, n)
              /\ ~(row.kind = "retention_authority_revoked" /\ row.subject = u)
<1> DEFINE after == Append(log, row)
           Grants(i) == after[i].kind = "retention_authority_granted" /\ after[i].subject = u
           Revokes(i) == after[i].kind = "retention_authority_revoked" /\ after[i].subject = u
<1>1. n \in Nat /\ n > 0 /\ after[n] = row
  OBVIOUS
<1>2. HeldIn(after, u, n + 1) = \E i \in 1..n : Grants(i) /\ \A k \in (i + 1)..n : ~Revokes(k)
  BY <1>1 DEF HeldIn
<1>3. HeldIn(log, u, n) = \E i \in 1..(n - 1) : Grants(i) /\ \A k \in (i + 1)..(n - 1) : ~Revokes(k)
  <2>1. HeldIn(after, u, n) = HeldIn(log, u, n)
    BY <1>1, HeldIsFixed
  <2>2. HeldIn(after, u, n) = \E i \in 1..(n - 1) : Grants(i) /\ \A k \in (i + 1)..(n - 1) : ~Revokes(k)
    BY DEF HeldIn
  <2> QED BY <2>1, <2>2
<1>4. Grants(n) = (row.kind = "retention_authority_granted" /\ row.subject = u)
      /\ Revokes(n) = (row.kind = "retention_authority_revoked" /\ row.subject = u)
  BY <1>1
<1> HIDE DEF Grants, Revokes
<1>5. ASSUME NEW i \in 1..(n - 1)
      PROVE  (\A k \in (i + 1)..n : ~Revokes(k)) <=>
               (\A k \in (i + 1)..(n - 1) : ~Revokes(k)) /\ ~Revokes(n)
  BY <1>1
<1>6. (\E i \in 1..n : Grants(i) /\ \A k \in (i + 1)..n : ~Revokes(k)) <=>
        \/ Grants(n)
        \/ /\ \E i \in 1..(n - 1) : Grants(i) /\ \A k \in (i + 1)..(n - 1) : ~Revokes(k)
           /\ ~Revokes(n)
  BY <1>1, <1>5
<1> QED BY <1>2, <1>3, <1>4, <1>6

\* An authority event moves the holders it names, an act of a holder moves none.
LEMMA LogStaysAuthorizing ==
  ASSUME NEW log \in Seq(AuditRow), NEW row \in AuditRow, NEW holders, NEW after,
         Authorizing(log, holders), row.actor \in Users,
         row.kind \in AuthorityKinds => row.actor \in Administrators,
         row.kind \notin AuthorityKinds => row.actor \in holders,
         after = {u \in Users :
                    \/ row.kind = "retention_authority_granted" /\ row.subject = u
                    \/ /\ u \in holders
                       /\ ~(row.kind = "retention_authority_revoked" /\ row.subject = u)}
  PROVE  Authorizing(Append(log, row), after)
<1> DEFINE n == Len(log) + 1
           log2 == Append(log, row)
<1>1. /\ n \in Nat /\ DOMAIN log = 1..(n - 1) /\ DOMAIN log2 = 1..n /\ Len(log2) = n
      /\ log2[n] = row /\ \A j \in 1..(n - 1) : log2[j] = log[j]
  OBVIOUS
<1>2. holders = {u \in Users : HeldIn(log, u, n)}
  BY DEF Authorizing
<1>3. after = {u \in Users : HeldIn(log2, u, n + 1)}
  BY <1>2, HeldAfter
<1>4. \A j \in 1..(n - 1) :
        IF log2[j].kind \in AuthorityKinds THEN log2[j].actor \in Administrators
        ELSE HeldIn(log2, log2[j].actor, j)
  <2> SUFFICES ASSUME NEW j \in 1..(n - 1), log[j].kind \notin AuthorityKinds
               PROVE  HeldIn(log2, log[j].actor, j)
    BY <1>1 DEF Authorizing
  <2>1. HeldIn(log, log[j].actor, j)
    BY <1>1 DEF Authorizing
  <2> QED BY <2>1, <1>1, HeldIsFixed
<1>5. row.kind \notin AuthorityKinds => HeldIn(log2, row.actor, n)
  BY <1>1, <1>2, HeldIsFixed
<1> HIDE DEF n, log2
<1> QED
  <2>1. \A j \in DOMAIN log2 :
          IF log2[j].kind \in AuthorityKinds THEN log2[j].actor \in Administrators
          ELSE HeldIn(log2, log2[j].actor, j)
    BY <1>1, <1>4, <1>5
  <2> QED BY <1>1, <1>3, <2>1 DEF Authorizing, log2

\* A step that records an act by a holder of the capability and leaves the grants alone.
LEMMA ActAuthorized ==
  ASSUME Shape, ActsWereAuthorized, NEW u \in grants, NEW kind \in AdministrationKinds,
         NEW n \in Nat, Record(kind, u, n), UNCHANGED grants
  PROVE  ActsWereAuthorized'
<1> DEFINE row == [kind |-> kind, actor |-> u, subject |-> n]
<1>1. grants \subseteq Users /\ audit \in Seq(AuditRow)
  BY DEF Shape, RetentionTypeOK
<1>2. row \in AuditRow
  BY <1>1, AdministrationRowType
<1>3. row.kind \notin AuthorityKinds /\ row.actor = u
  BY DEF AuthorityKinds, AdministrationKinds
<1>4. audit' = Append(audit, row)
  BY DEF Record
<1> HIDE DEF row
<1>5. grants = {v \in Users :
                  \/ row.kind = "retention_authority_granted" /\ row.subject = v
                  \/ /\ v \in grants
                     /\ ~(row.kind = "retention_authority_revoked" /\ row.subject = v)}
  BY <1>1, <1>3 DEF AuthorityKinds
<1>6. Authorizing(Append(audit, row), grants)
  BY <1>1, <1>2, <1>3, <1>5, ActsInLog, LogStaysAuthorizing
<1> QED BY <1>4, <1>6, ActsInLog

LEMMA AuthorityMoved ==
  ASSUME Shape, ActsWereAuthorized, NEW call \in inFlight, SetAuthority(call)
  PROVE  ActsWereAuthorized'
<1> DEFINE row == [kind |-> IF call.granted THEN "retention_authority_granted"
                            ELSE "retention_authority_revoked",
                   actor |-> call.by, subject |-> call.user]
<1>1. /\ grants \subseteq Users /\ audit \in Seq(AuditRow)
      /\ call.by \in Administrators /\ call.by \in Users /\ call.user \in Users
      /\ call.granted \in BOOLEAN
  BY DEF SetAuthority, Acts, Calls, Shape, RetentionTypeOK
<1>2. row \in AuditRow
  BY <1>1, AuthorityRowType DEF AuthorityKinds
<1>3. /\ row.kind = IF call.granted THEN "retention_authority_granted"
                    ELSE "retention_authority_revoked"
      /\ row.actor = call.by /\ row.subject = call.user
  OBVIOUS
<1>4. audit' = Append(audit, row)
  BY DEF SetAuthority, Record
<1>5. grants' = IF call.granted THEN grants \union {call.user} ELSE grants \ {call.user}
  BY DEF SetAuthority
<1> HIDE DEF row
<1>6. grants' = {v \in Users :
                  \/ row.kind = "retention_authority_granted" /\ row.subject = v
                  \/ /\ v \in grants
                     /\ ~(row.kind = "retention_authority_revoked" /\ row.subject = v)}
  <2>1. CASE call.granted
    BY <1>1, <1>3, <1>5, <2>1
  <2>2. CASE ~call.granted
    BY <1>1, <1>3, <1>5, <2>2
  <2> QED BY <2>1, <2>2
<1>7. row.kind \in AuthorityKinds
  BY <1>3 DEF AuthorityKinds
<1>8. Authorizing(Append(audit, row), grants')
  BY <1>1, <1>2, <1>3, <1>6, <1>7, ActsInLog, LogStaysAuthorizing
<1> QED BY <1>4, <1>8, ActsInLog

LEMMA AuthorityInductive == Shape /\ ActsWereAuthorized /\ [Next]_vars => ActsWereAuthorized'
<1> SUFFICES ASSUME Shape, ActsWereAuthorized, [Next]_vars PROVE ActsWereAuthorized'
  OBVIOUS
<1>0. Len(holds) \in Nat /\ Len(policies) \in Nat /\ Active \subseteq Nat
  BY DEF Active, Shape, RetentionTypeOK
<1>1. ASSUME NEW call \in inFlight, SetAuthority(call) PROVE ActsWereAuthorized'
  BY <1>1, AuthorityMoved
<1>2. ASSUME NEW call \in inFlight, CreatePolicy(call) PROVE ActsWereAuthorized'
  BY <1>0, <1>2, ActAuthorized DEF CreatePolicy, Authorized, AdministrationKinds
<1>3. ASSUME NEW call \in inFlight, WriteHold(call) PROVE ActsWereAuthorized'
  <2>1. Record("record_hold_created", call.by, Len(holds) + 1)
          \/ Record("record_hold_replaced", call.by, Len(holds) + 1)
    BY <1>3 DEF WriteHold
  <2> QED BY <1>0, <1>3, <2>1, ActAuthorized DEF WriteHold, Authorized, AdministrationKinds
<1>4. ASSUME NEW call \in inFlight, ReleaseHold(call) PROVE ActsWereAuthorized'
  BY <1>0, <1>4, ActAuthorized DEF ReleaseHold, Releasable, Authorized, AdministrationKinds
<1>5. ASSUME UNCHANGED <<grants, audit>> PROVE ActsWereAuthorized'
  BY <1>5, ActsInLog
<1>6. ASSUME NEW call \in inFlight, Refuse(call) PROVE UNCHANGED <<grants, audit>>
  BY <1>6 DEF Refuse
<1>7. CASE Ask \/ StartRecord \/ SetClock \/ UNCHANGED vars
  BY <1>5, <1>7 DEF Ask, StartRecord, SetClock, vars
<1> QED BY <1>1, <1>2, <1>3, <1>4, <1>5, <1>6, <1>7 DEF Next

\* The audit log tells at every moment who holds the capability, and every policy, hold
\* and release in it stands where its actor held it.
THEOREM OnlyHoldersAct == Spec => []ActsWereAuthorized
<1>1. Init => ActsWereAuthorized
  BY DEF Init, ActsWereAuthorized, HeldAt
<1> QED BY <1>1, AuthorityInductive, ShapeInvariant, PTL DEF Spec

-----------------------------------------------------------------------------
(***************************************************************************)
(* Preservation.                                                           *)
(***************************************************************************)
\* One step: a record loses its last hold only to a holder's release, or to a
\* replacement whose own scope leaves the record out.
LEMMA StepKeepsPreserved ==
  ASSUME Shape, HistoriesDoNotFork, [Next]_vars, NEW r \in records,
         ActiveHoldsFor(r) # {}, ActiveHoldsFor(r)' = {}
  PROVE  \E call \in inFlight \ inFlight' :
           /\ call.by \in grants
           /\ \/ call.op = "release" /\ call.hold_id \in ActiveHoldsFor(r)
              \/ /\ call.op = "hold" /\ call.replaces_id \in ActiveHoldsFor(r)
                 /\ Len(holds') > Len(holds) /\ ~Covers(call.scope, r)
<1>1. ActiveHoldsFor(r)' =
        {h \in DOMAIN holds' : /\ \A q \in releases' : q.hold_id # h
                               /\ Covers(holds'[h].scope, r)}
  BY DEF ActiveHoldsFor, Active, Released, Covers
<1>2. ActiveHoldsFor(r) =
        {h \in DOMAIN holds : /\ \A q \in releases : q.hold_id # h
                              /\ Covers(holds[h].scope, r)}
  BY DEF ActiveHoldsFor, Active, Released
<1>3. ~UNCHANGED <<holds, releases>>
  BY <1>1, <1>2
<1>4. PICK h \in DOMAIN holds : /\ \A q \in releases : q.hold_id # h
                                /\ Covers(holds[h].scope, r)
  BY <1>2
<1>5. ASSUME NEW call \in inFlight, WriteHold(call)
      PROVE  /\ call.by \in grants /\ call.op = "hold" /\ call.replaces_id \in ActiveHoldsFor(r)
             /\ Len(holds') > Len(holds) /\ ~Covers(call.scope, r)
             /\ call \in inFlight \ inFlight'
  <2>1. PICK n \in Nat : n = Len(holds) + 1
    BY DEF Shape, RetentionTypeOK
  <2>2. /\ DOMAIN holds = 1..(n - 1) /\ DOMAIN holds' = 1..n /\ Len(holds') = n
        /\ holds'[n].scope = call.scope /\ \A i \in 1..(n - 1) : holds'[i] = holds[i]
    BY <1>5, <2>1 DEF WriteHold, Shape, RetentionTypeOK
  <2>3. \E q \in releases' : q.hold_id = h
    BY <1>1, <1>4, <2>1, <2>2
  <2>4. call.replaces_id = h
    BY <1>4, <1>5, <2>3 DEF WriteHold, ReleasedByReplacement, Release
  <2>5. \A q \in releases' : q.hold_id # n
    <3>1. \A q \in releases : q.hold_id \in 1..(n - 1)
      BY <2>2 DEF HistoriesDoNotFork
    <3>2. h \in 1..(n - 1)
      BY <2>2
    <3> QED
      BY <1>5, <2>1, <2>4, <3>1, <3>2 DEF WriteHold, ReleasedByReplacement, Release
  <2>6. ~Covers(call.scope, r)
    <3>1. n \in 1..n
      BY <2>1 DEF Shape, RetentionTypeOK
    <3> QED BY <1>1, <2>2, <2>5, <3>1
  <2> QED
    BY <1>2, <1>4, <1>5, <2>1, <2>2, <2>4, <2>6 DEF WriteHold, Acts, Authorized
<1>6. ASSUME NEW call \in inFlight, ReleaseHold(call)
      PROVE  /\ call.by \in grants /\ call.op = "release" /\ call.hold_id \in ActiveHoldsFor(r)
             /\ call \in inFlight \ inFlight'
  <2>1. call.hold_id = h
    BY <1>1, <1>4, <1>6 DEF ReleaseHold, Release
  <2> QED BY <1>2, <1>4, <1>6, <2>1 DEF ReleaseHold, Acts, Authorized
<1>7. ASSUME NEW call \in inFlight, SetAuthority(call) \/ CreatePolicy(call) \/ Refuse(call)
      PROVE  FALSE
  BY <1>3, <1>7 DEF SetAuthority, CreatePolicy, Refuse
<1>8. ~(Ask \/ StartRecord \/ SetClock \/ UNCHANGED vars)
  BY <1>3 DEF Ask, StartRecord, SetClock, vars
<1> QED BY <1>5, <1>6, <1>7, <1>8 DEF Next

\* A preserved record stays so until a holder lifts the hold that preserves it.
THEOREM HoldsAreKept == Spec => PreservedUntilLifted
<1>1. Shape /\ HistoriesDoNotFork /\ [Next]_vars =>
        [\A r \in records : ActiveHoldsFor(r) # {} /\ ActiveHoldsFor(r)' = {} =>
           \E call \in inFlight \ inFlight' :
             /\ call.by \in grants
             /\ \/ call.op = "release" /\ call.hold_id \in ActiveHoldsFor(r)
                \/ /\ call.op = "hold" /\ call.replaces_id \in ActiveHoldsFor(r)
                   /\ Len(holds') > Len(holds) /\ ~Covers(call.scope, r)]_vars
  BY StepKeepsPreserved
<1> QED BY <1>1, HistoriesInvariant, PTL DEF Spec, PreservedUntilLifted
=============================================================================
