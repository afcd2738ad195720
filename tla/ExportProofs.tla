----------------------------- MODULE ExportProofs -----------------------------
(***************************************************************************)
(* The two halves of an export.                                            *)
(*                                                                         *)
(* Production (RecordExports): whatever the database does between the      *)
(* steps of an export, the archive that comes of it verifies.  The proof   *)
(* goes from the order of the rows, through the layout of an archive and   *)
(* what each check of the verifier sees of it, to the invariant of an      *)
(* export in progress.                                                     *)
(*                                                                         *)
(* Delivery (ExportDelivery): a body that ends cleanly is complete, for    *)
(* any number of requests, slots and chunks.  WholeIsComplete looks at the *)
(* end of a download; what makes it inductive is where every chunk is on   *)
(* its way there: received, or queued before an open receiver, or not yet  *)
(* sent, and none sent before the audit and the listing.                   *)
(***************************************************************************)
EXTENDS RecordExports, ExportDelivery, FiniteSetTheorems, FunctionTheorems,
        SequenceTheorems, WellFoundedInduction, TLAPS

\* Every version there can be.
Versions == Records \X (1..MaxNumber)

LEMMA RecordsAreNumbers ==
  /\ Cardinality(Records) \in Nat /\ Records = 1..Cardinality(Records)
  /\ Records \subseteq Nat \ {0} /\ IsFiniteSet(Records) /\ MaxNumber \in Nat
  /\ \A r \in Records : EnrollmentOf[r] \in Enrollments
BY ArchivesAssumption, FS_CardinalityType

LEMMA LeastOfNaturals ==
  ASSUME NEW T \in SUBSET Nat, T # {}
  PROVE  \E x \in T : \A y \in T : x <= y
<1> DEFINE R == {ss \in Nat \X Nat : ss[1] < ss[2]}
<1>1. IsWellFoundedOn(R, Nat)
  BY NatLessThanWellFounded DEF OpToRel
<1>2. PICK x \in T : \A y \in T : <<y, x>> \notin R
  <2> HIDE DEF R
  <2> QED BY <1>1, WFMin
<1>3. ASSUME NEW y \in T PROVE x <= y
  <2>1. x \in Nat /\ y \in Nat /\ <<y, x>> \in Nat \X Nat /\ <<y, x>>[1] = y /\ <<y, x>>[2] = x
    OBVIOUS
  <2>2. ~(y < x)
    BY <1>2, <2>1
  <2> QED BY <2>1, <2>2
<1> QED BY <1>3

\* What an envelope is, given those before it.
EnvelopeAfter(f, v) ==
  [record |-> v[1], number |-> v[2], trainee |-> Trainee(v[1]),
   predecessor |-> IF v[2] = 1 THEN <<>> ELSE <<Hash(f[<<v[1], v[2] - 1>>])>>]
UpTo(k) == Records \X (1..k)
Chained(f, k) == f = [v \in UpTo(k) |-> EnvelopeAfter(f, v)]

LEMMA LongerChain ==
  ASSUME NEW k \in Nat, NEW g, Chained(g, k)
  PROVE  \E f : Chained(f, k + 1)
<1> DEFINE f == [v \in UpTo(k + 1) |-> EnvelopeAfter(g, v)]
<1>1. \A v \in UpTo(k) : g[v] = EnvelopeAfter(g, v)
  BY DEF Chained
<1>2. \A v \in UpTo(k) : v \in UpTo(k + 1) /\ f[v] = g[v]
  BY <1>1 DEF UpTo
<1>3. \A v \in UpTo(k + 1) : v[2] # 1 => <<v[1], v[2] - 1>> \in UpTo(k)
  BY DEF UpTo
<1>4. \A v \in UpTo(k + 1) : EnvelopeAfter(f, v) = EnvelopeAfter(g, v)
  <2> TAKE v \in UpTo(k + 1)
  <2>1. CASE v[2] = 1
    BY <2>1 DEF EnvelopeAfter
  <2>2. CASE v[2] # 1
    <3>1. f[<<v[1], v[2] - 1>>] = g[<<v[1], v[2] - 1>>]
      BY <1>2, <1>3, <2>2
    <3> HIDE DEF f
    <3> QED BY <2>2, <3>1 DEF EnvelopeAfter
  <2> QED BY <2>1, <2>2
<1>5. f = [v \in UpTo(k + 1) |-> EnvelopeAfter(f, v)]
  BY <1>4
<1> QED BY <1>5 DEF Chained

LEMMA ChainsExist == \A k \in Nat : \E f : Chained(f, k)
<1> DEFINE Without == {k \in Nat : ~\E f : Chained(f, k)}
<1> SUFFICES ASSUME Without # {} PROVE FALSE
  OBVIOUS
<1>1. PICK k \in Without : \A j \in Without : k <= j
  BY LeastOfNaturals
<1>2. CASE k = 0
  <2>1. UpTo(0) = {}
    BY DEF UpTo
  <2> DEFINE none == [v \in UpTo(0) |-> v]
  <2>2. none = [v \in UpTo(0) |-> EnvelopeAfter(none, v)]
    BY <2>1
  <2>3. Chained(none, 0)
    BY <2>2 DEF Chained
  <2> QED BY <1>1, <1>2, <2>3
<1>3. CASE k # 0
  <2>1. k - 1 \in Nat /\ k - 1 \notin Without /\ k = (k - 1) + 1
    BY <1>1, <1>3
  <2>2. \E f : Chained(f, k - 1)
    BY <2>1
  <2>3. \E f : Chained(f, k)
    BY <2>1, <2>2, LongerChain
  <2> QED BY <1>1, <2>3
<1> QED BY <1>2, <1>3

\* Each envelope names the one before it.
LEMMA EnvelopeIs ==
  ASSUME NEW r \in Records, NEW n \in 1..MaxNumber
  PROVE  Envelope(r, n) =
           [record |-> r, number |-> n, trainee |-> Trainee(r),
            predecessor |-> IF n = 1 THEN <<>> ELSE <<Hash(Envelope(r, n - 1))>>]
<1>1. MaxNumber \in Nat
  BY RecordsAreNumbers
<1>2. \E f : Chained(f, MaxNumber)
  BY <1>1, ChainsExist
<1>3. Envelopes = CHOOSE f : f = [v \in Records \X (1..MaxNumber) |->
        [record |-> v[1], number |-> v[2], trainee |-> Trainee(v[1]),
         predecessor |-> IF v[2] = 1 THEN <<>> ELSE <<Hash(f[<<v[1], v[2] - 1>>])>>]]
  BY DEF Envelopes
<1>4. Envelopes = CHOOSE f : Chained(f, MaxNumber)
  BY <1>3 DEF Chained, UpTo, EnvelopeAfter
<1>5. Chained(Envelopes, MaxNumber)
  BY <1>2, <1>4
<1>6. <<r, n>> \in UpTo(MaxNumber) /\ <<r, n>>[1] = r /\ <<r, n>>[2] = n
  BY DEF UpTo
<1>7. Envelopes[<<r, n>>] = EnvelopeAfter(Envelopes, <<r, n>>)
  BY <1>5, <1>6 DEF Chained
<1> QED BY <1>6, <1>7 DEF EnvelopeAfter, Envelope

-----------------------------------------------------------------------------
(***************************************************************************)
(* Sorting.                                                                *)
(***************************************************************************)
Before(S, v) == {u \in S : Earlier(u, v)}
Rank(S, v) == Cardinality(Before(S, v))

LEMMA EarlierOrders ==
  ASSUME NEW u \in Versions, NEW v \in Versions
  PROVE  /\ ~Earlier(u, u)
         /\ u # v => Earlier(u, v) \/ Earlier(v, u)
         /\ \A w \in Versions : Earlier(u, v) /\ Earlier(v, w) => Earlier(u, w)
BY RecordsAreNumbers DEF Versions, Earlier

LEMMA VersionsAreFinite == \A S \in SUBSET Versions : IsFiniteSet(S) /\ Cardinality(S) \in Nat
<1>1. IsFiniteSet(Records) /\ IsFiniteSet(1..MaxNumber)
  BY RecordsAreNumbers, FS_Interval
<1>2. IsFiniteSet(Versions)
  BY <1>1, FS_Product DEF Versions
<1> QED BY <1>2, FS_Subset, FS_CardinalityType

LEMMA RanksGrow ==
  ASSUME NEW S \in SUBSET Versions, NEW u \in S, NEW v \in S, Earlier(u, v)
  PROVE  Rank(S, u) < Rank(S, v)
<1>1. Before(S, u) \in SUBSET Before(S, v) /\ u \in Before(S, v) /\ u \notin Before(S, u)
  BY EarlierOrders DEF Before
<1>2. Before(S, v) \in SUBSET Versions /\ Before(S, u) \in SUBSET Versions
  BY DEF Before
<1>3. IsFiniteSet(Before(S, v)) /\ Cardinality(Before(S, v)) \in Nat /\ Cardinality(Before(S, u)) \in Nat
  BY <1>2, VersionsAreFinite
<1>4. Cardinality(Before(S, u)) <= Cardinality(Before(S, v))
      /\ Cardinality(Before(S, u)) # Cardinality(Before(S, v))
  BY <1>1, <1>3, FS_Subset
<1> QED BY <1>3, <1>4 DEF Rank

LEMMA RanksAreDense ==
  ASSUME NEW S \in SUBSET Versions
  PROVE  /\ \A v \in S : Rank(S, v) + 1 \in 1..Cardinality(S)
         /\ \A i \in 1..Cardinality(S) : \E v \in S : Rank(S, v) = i - 1
<1>1. IsFiniteSet(S) /\ Cardinality(S) \in Nat
  BY VersionsAreFinite
<1>2. ASSUME NEW v \in S PROVE Rank(S, v) \in Nat /\ Rank(S, v) < Cardinality(S)
  <2>1. Before(S, v) \in SUBSET S /\ v \notin Before(S, v)
    BY EarlierOrders DEF Before
  <2>2. Cardinality(Before(S, v)) <= Cardinality(S) /\ Cardinality(Before(S, v)) # Cardinality(S)
    BY <1>1, <2>1, FS_Subset
  <2>3. Cardinality(Before(S, v)) \in Nat
    BY <2>1, VersionsAreFinite
  <2> QED BY <1>1, <2>2, <2>3 DEF Rank
<1> DEFINE f == [v \in S |-> Rank(S, v) + 1]
<1>3. f \in [S -> 1..Cardinality(S)]
  BY <1>1, <1>2
<1>4. \A u, v \in S : f[u] = f[v] => u = v
  <2> SUFFICES ASSUME NEW u \in S, NEW v \in S, Rank(S, u) + 1 = Rank(S, v) + 1, u # v PROVE FALSE
    OBVIOUS
  <2>1. Rank(S, u) = Rank(S, v)
    BY <1>2
  <2>2. Earlier(u, v) \/ Earlier(v, u)
    BY EarlierOrders
  <2> QED BY <1>2, <2>1, <2>2, RanksGrow
<1>5. f \in Injection(S, 1..Cardinality(S))
  BY <1>3, <1>4 DEF Injection, IsInjective
<1>6. IsFiniteSet(1..Cardinality(S)) /\ Cardinality(1..Cardinality(S)) = Cardinality(S)
  BY <1>1, FS_Interval
<1>7. f \in Surjection(S, 1..Cardinality(S))
  BY <1>5, <1>6, FS_Injection
<1>8. \A i \in 1..Cardinality(S) : \E v \in S : f[v] = i
  BY <1>7 DEF Surjection
<1>9. \A i \in 1..Cardinality(S) : \E v \in S : Rank(S, v) = i - 1
  BY <1>2, <1>8
<1> QED BY <1>1, <1>2, <1>9

\* A reader's order lists each version once, the earlier before the later.
LEMMA SortedIs ==
  ASSUME NEW S \in SUBSET Versions
  PROVE  /\ Sorted(S) \in Seq(S) /\ Len(Sorted(S)) = Cardinality(S)
         /\ DOMAIN Sorted(S) = 1..Cardinality(S) /\ Cardinality(S) \in Nat
         /\ \A i \in 1..Cardinality(S) : Sorted(S)[i] \in S
         /\ \A i, j \in 1..Cardinality(S) : i < j => Earlier(Sorted(S)[i], Sorted(S)[j])
         /\ \A v \in S : \E i \in 1..Cardinality(S) : Sorted(S)[i] = v
<1>1. Cardinality(S) \in Nat
  BY VersionsAreFinite
<1>2. Sorted(S) = [i \in 1..Cardinality(S) |-> CHOOSE v \in S : Rank(S, v) = i - 1]
  BY DEF Sorted, Rank, Before
<1>3. ASSUME NEW i \in 1..Cardinality(S)
      PROVE  Sorted(S)[i] \in S /\ Rank(S, Sorted(S)[i]) = i - 1
  BY <1>2, RanksAreDense
<1>4. \A v \in S : Rank(S, v) + 1 \in 1..Cardinality(S) /\ Rank(S, v) \in Nat
  BY RanksAreDense, VersionsAreFinite DEF Rank, Before
<1>5. ASSUME NEW u \in S, NEW v \in S, Rank(S, u) <= Rank(S, v), u # v
      PROVE  Earlier(u, v)
  BY <1>4, <1>5, RanksGrow, EarlierOrders
<1>6. ASSUME NEW i \in 1..Cardinality(S), NEW j \in 1..Cardinality(S), i < j
      PROVE  Earlier(Sorted(S)[i], Sorted(S)[j])
  <2>1. /\ Sorted(S)[i] \in S /\ Rank(S, Sorted(S)[i]) = i - 1
        /\ Sorted(S)[j] \in S /\ Rank(S, Sorted(S)[j]) = j - 1
    BY <1>3
  <2>2. i - 1 < j - 1 /\ i - 1 # j - 1
    BY <1>1, <1>6
  <2> QED BY <1>1, <1>5, <2>1, <2>2
<1>7. ASSUME NEW v \in S PROVE \E i \in 1..Cardinality(S) : Sorted(S)[i] = v
  <2>1. Rank(S, v) + 1 \in 1..Cardinality(S) /\ Rank(S, v) \in Nat
    BY <1>4
  <2> DEFINE u == Sorted(S)[Rank(S, v) + 1]
  <2>2. u \in S /\ Rank(S, u) = Rank(S, v)
    BY <1>3, <2>1
  <2>3. u = v
    <3> SUFFICES ASSUME u # v PROVE FALSE
      OBVIOUS
    <3>1. Earlier(u, v) /\ Earlier(v, u)
      BY <1>5, <2>1, <2>2
    <3> QED BY <2>2, <3>1, EarlierOrders
  <2> QED BY <2>1, <2>3
<1>8. Sorted(S) \in [1..Cardinality(S) -> S]
  BY <1>2, <1>3
<1>9. Sorted(S) \in Seq(S) /\ Len(Sorted(S)) = Cardinality(S)
  BY <1>1, <1>8
<1> QED BY <1>1, <1>2, <1>3, <1>6, <1>7, <1>9

-----------------------------------------------------------------------------
(***************************************************************************)
(* The layout of a finished archive.                                       *)
(***************************************************************************)
UnitRows == {UnitEntry(v[1], v[2]) : v \in Versions}
Identity(e) == <<e.record, e.number>>

\* An export whose listed units are all written, in the order of every reader.
Finished(x) ==
  /\ x.format \in Formats
  /\ x.written = x.units
  /\ x.units \in Seq(UnitRows)
  /\ \A i, j \in DOMAIN x.units : i < j => Earlier(Identity(x.units[i]), Identity(x.units[j]))

LEMMA UnitRowIs ==
  ASSUME NEW e \in UnitRows
  PROVE  /\ e.record \in Records /\ e.number \in 1..MaxNumber /\ Identity(e) \in Versions
         /\ e.record \in Nat \ {0} /\ e.number \in Nat \ {0}
         /\ e = UnitEntry(e.record, e.number)
         /\ e.path = unit_path(e.record, e.number)
         /\ e.path[1] = e.record /\ e.path[2] = e.number
         /\ e.content_hash = Hash(Envelope(e.record, e.number))
         /\ e.predecessor_content_hash = Envelope(e.record, e.number).predecessor
         /\ e.chain_hash = ChainHash(e.predecessor_content_hash, Envelope(e.record, e.number))
<1>1. PICK v \in Versions : e = UnitEntry(v[1], v[2])
  BY DEF UnitRows
<1>2. v[1] \in Records /\ v[2] \in 1..MaxNumber
  BY <1>1 DEF Versions
<1>3. e.record = v[1] /\ e.number = v[2]
  BY <1>1 DEF UnitEntry
<1>4. e.record \in Nat \ {0} /\ e.number \in Nat \ {0}
  BY <1>2, <1>3, RecordsAreNumbers
<1> QED BY <1>1, <1>2, <1>3, <1>4 DEF UnitEntry, unit_path, Identity, Versions

LEMMA NamesAre ==
  ASSUME NEW format \in Formats
  PROVE  /\ Len(DocumentNames(format)) \in Nat
         /\ DOMAIN DocumentNames(format) = 1..Len(DocumentNames(format))
         /\ \A i, j \in DOMAIN DocumentNames(format) :
              DocumentNames(format)[i] = DocumentNames(format)[j] => i = j
         /\ \A i \in DOMAIN DocumentNames(format) :
              DocumentNames(format)[i] \notin {"record.json", "manifest.json", "unlisted"}
<1>1. CASE format = "export"
  BY <1>1 DEF DocumentNames
<1>2. CASE format = "packet"
  BY <1>2 DEF DocumentNames, PacketDocuments
<1>3. CASE format = "installation"
  BY <1>3 DEF DocumentNames, Tables
<1> QED BY <1>1, <1>2, <1>3 DEF Formats

LEMMA Joined ==
  ASSUME NEW m \in Nat, NEW n \in Nat, NEW s, NEW t,
         s = [i \in 1..m |-> s[i]], t = [i \in 1..n |-> t[i]]
  PROVE  /\ Len(s \o t) = m + n /\ DOMAIN (s \o t) = 1..(m + n)
         /\ \A i \in 1..m : (s \o t)[i] = s[i]
         /\ \A i \in 1..n : (s \o t)[m + i] = t[i]
         /\ \E S : s \o t \in Seq(S)
<1> DEFINE S == {s[i] : i \in 1..m} \cup {t[i] : i \in 1..n}
<1>1. s \in [1..m -> S] /\ t \in [1..n -> S]
  OBVIOUS
<1>2. s \in Seq(S) /\ t \in Seq(S) /\ Len(s) = m /\ Len(t) = n
  BY <1>1
<1> HIDE DEF S
<1>3. /\ s \o t \in Seq(S) /\ Len(s \o t) = m + n
      /\ \A i \in 1..(m + n) : (s \o t)[i] = IF i <= m THEN s[i] ELSE t[i - m]
  BY <1>2, ConcatProperties
<1>4. \A i \in 1..n : m + i \in 1..(m + n) /\ ~(m + i <= m) /\ (m + i) - m = i
  OBVIOUS
<1>5. \A i \in 1..m : i \in 1..(m + n) /\ i <= m
  OBVIOUS
<1>6. DOMAIN (s \o t) = 1..(m + n)
  BY <1>3
<1> QED BY <1>3, <1>4, <1>5, <1>6

RecordEntry(e) == Entry(RecordPath(e.path), Envelope(e.record, e.number))
ManifestEntry(e) == Entry(UnitManifestPath(e.path), UnitManifest(ExportedAt, e))
NamesOf(x) == DocumentNames(x.format)
Size(x) == 2 * Len(x.units) + Len(NamesOf(x))

\* Each unit has two entries and each document one, in order.
LEMMA Layout ==
  ASSUME NEW x, Finished(x)
  PROVE  LET a == ArchiveOf(x)
         IN  /\ DOMAIN a.entries = 1..Size(x) /\ Len(a.entries) = Size(x)
             /\ \E S : a.entries \in Seq(S)
             /\ \A k \in DOMAIN x.units :
                  /\ 2 * k - 1 \in DOMAIN a.entries /\ 2 * k \in DOMAIN a.entries
                  /\ a.entries[2 * k - 1] = RecordEntry(x.units[k])
                  /\ a.entries[2 * k] = ManifestEntry(x.units[k])
             /\ \A j \in DOMAIN NamesOf(x) :
                  /\ 2 * Len(x.units) + j \in DOMAIN a.entries
                  /\ a.entries[2 * Len(x.units) + j] =
                       Entry(DocumentPath(NamesOf(x)[j]), x.documents[j])
<1> DEFINE n == Len(x.units)
           d == Len(NamesOf(x))
           es == [i \in 1..(2 * n) |-> UnitEntries(ExportedAt, x.units[(i + 1) \div 2])[2 - (i % 2)]]
           documents == [i \in DOMAIN NamesOf(x) |-> DocumentEntry(NamesOf(x)[i], x.documents[i])]
           ds == [i \in 1..d |-> Entry(documents[i].path, x.documents[i])]
<1>1. n \in Nat /\ DOMAIN x.units = 1..n
  BY DEF Finished
<1>2. d \in Nat /\ DOMAIN NamesOf(x) = 1..d
  BY NamesAre DEF Finished, NamesOf
<1>3. ArchiveOf(x).entries = es \o ds
  BY <1>2 DEF ArchiveOf, Finished, NamesOf
<1>4. \A k \in 1..n : /\ 2 * k - 1 \in 1..(2 * n) /\ 2 * k \in 1..(2 * n)
                      /\ ((2 * k - 1) + 1) \div 2 = k /\ 2 - ((2 * k - 1) % 2) = 1
                      /\ (2 * k + 1) \div 2 = k /\ 2 - ((2 * k) % 2) = 2
  BY <1>1
<1>5. \A k \in 1..n : es[2 * k - 1] = RecordEntry(x.units[k]) /\ es[2 * k] = ManifestEntry(x.units[k])
  BY <1>4 DEF UnitEntries, RecordEntry, ManifestEntry
<1>6. \A j \in 1..d : ds[j] = Entry(DocumentPath(NamesOf(x)[j]), x.documents[j])
  BY <1>2 DEF DocumentEntry
<1>7. es = [i \in 1..(2 * n) |-> es[i]] /\ ds = [i \in 1..d |-> ds[i]] /\ 2 * n \in Nat
  BY <1>1
<1> HIDE DEF es, ds, documents
<1>8. /\ Len(es \o ds) = 2 * n + d /\ DOMAIN (es \o ds) = 1..(2 * n + d)
      /\ \A i \in 1..(2 * n) : (es \o ds)[i] = es[i]
      /\ \A i \in 1..d : (es \o ds)[2 * n + i] = ds[i]
      /\ \E S : es \o ds \in Seq(S)
  BY <1>2, <1>7, Joined
<1>9. \A k \in 1..n : 2 * k - 1 \in 1..(2 * n + d) /\ 2 * k \in 1..(2 * n + d)
  BY <1>1, <1>2
<1>10. \A j \in 1..d : 2 * n + j \in 1..(2 * n + d)
  BY <1>1, <1>2
<1> QED BY <1>1, <1>2, <1>3, <1>4, <1>5, <1>6, <1>8, <1>9, <1>10 DEF Size

\* There is nothing else.
LEMMA LayoutIsAll ==
  ASSUME NEW x, Finished(x), NEW i \in 1..Size(x)
  PROVE  \/ \E k \in DOMAIN x.units : i = 2 * k - 1
         \/ \E k \in DOMAIN x.units : i = 2 * k
         \/ \E j \in DOMAIN NamesOf(x) : i = 2 * Len(x.units) + j
<1> DEFINE n == Len(x.units)
           d == Len(NamesOf(x))
<1>1. n \in Nat /\ DOMAIN x.units = 1..n
  BY DEF Finished
<1>2. d \in Nat /\ DOMAIN NamesOf(x) = 1..d
  BY NamesAre DEF Finished, NamesOf
<1> HIDE DEF n, d
<1>3. Size(x) = 2 * n + d
  BY DEF Size, n, d
<1>4. CASE i > 2 * n
  <2>1. i - 2 * n \in 1..d /\ i = 2 * n + (i - 2 * n)
    BY <1>1, <1>2, <1>3, <1>4
  <2> QED BY <1>2, <2>1 DEF n
<1>5. CASE i <= 2 * n
  <2>1. (i + 1) \div 2 \in 1..n /\ (i = 2 * ((i + 1) \div 2) - 1 \/ i = 2 * ((i + 1) \div 2))
    BY <1>1, <1>2, <1>3, <1>5
  <2> QED BY <1>1, <2>1
<1> QED BY <1>1, <1>2, <1>3, <1>4, <1>5

LEMMA ManifestIs ==
  ASSUME NEW x
  PROVE  LET a == ArchiveOf(x)
         IN  /\ a.manifest.format = x.format /\ a.manifest.scope = x.scope
             /\ a.manifest.exported_at = ExportedAt /\ a.manifest.units = x.units
             /\ a.manifest.documents =
                  [i \in DOMAIN NamesOf(x) |-> DocumentEntry(NamesOf(x)[i], x.documents[i])]
             /\ a = [manifest |-> a.manifest, entries |-> a.entries]
BY DEF ArchiveOf, NamesOf

LEMMA PathsDiffer ==
  /\ \A p, q : RecordPath(p) # UnitManifestPath(q)
  /\ \A p, name : name \notin {"record.json", "manifest.json"} =>
       RecordPath(p) # DocumentPath(name) /\ UnitManifestPath(p) # DocumentPath(name)
  /\ \A p, q : RecordPath(p) = RecordPath(q) => p[1] = q[1] /\ p[2] = q[2]
  /\ \A p, q : UnitManifestPath(p) = UnitManifestPath(q) => p[1] = q[1] /\ p[2] = q[2]
  /\ \A m, name : DocumentPath(m) = DocumentPath(name) => m = name
BY DEF RecordPath, UnitManifestPath, DocumentPath, PathOf

LEMMA UnitsDiffer ==
  ASSUME NEW x, Finished(x), NEW i \in DOMAIN x.units, NEW j \in DOMAIN x.units,
         Identity(x.units[i]) = Identity(x.units[j])
  PROVE  i = j
<1>1. x.units \in Seq(UnitRows) /\ x.units[i] \in UnitRows /\ x.units[j] \in UnitRows
  BY DEF Finished
<1>2. Identity(x.units[i]) \in Versions /\ Identity(x.units[j]) \in Versions
  BY <1>1, UnitRowIs
<1>3. ~(i < j) /\ ~(j < i)
  BY <1>1, <1>2, EarlierOrders DEF Finished
<1>4. i \in Nat /\ j \in Nat
  BY <1>1
<1> QED BY <1>3, <1>4

LEMMA PathsOfArchive ==
  ASSUME NEW x, Finished(x)
  PROVE  LET a == ArchiveOf(x)
         IN  /\ \A k \in DOMAIN x.units :
                  /\ a.entries[2 * k - 1].path = RecordPath(x.units[k].path)
                  /\ a.entries[2 * k - 1].bytes = Envelope(x.units[k].record, x.units[k].number)
                  /\ a.entries[2 * k].path = UnitManifestPath(x.units[k].path)
                  /\ a.entries[2 * k].bytes = UnitManifest(ExportedAt, x.units[k])
             /\ \A j \in DOMAIN NamesOf(x) :
                  /\ a.entries[2 * Len(x.units) + j].path = DocumentPath(NamesOf(x)[j])
                  /\ a.entries[2 * Len(x.units) + j].bytes = x.documents[j]
<1>1. ASSUME NEW k \in DOMAIN x.units
      PROVE  /\ RecordEntry(x.units[k]).path = RecordPath(x.units[k].path)
             /\ RecordEntry(x.units[k]).bytes = Envelope(x.units[k].record, x.units[k].number)
             /\ ManifestEntry(x.units[k]).path = UnitManifestPath(x.units[k].path)
             /\ ManifestEntry(x.units[k]).bytes = UnitManifest(ExportedAt, x.units[k])
  BY DEF RecordEntry, ManifestEntry, Entry
<1>2. \A j \in DOMAIN NamesOf(x) :
        /\ Entry(DocumentPath(NamesOf(x)[j]), x.documents[j]).path = DocumentPath(NamesOf(x)[j])
        /\ Entry(DocumentPath(NamesOf(x)[j]), x.documents[j]).bytes = x.documents[j]
  BY DEF Entry
<1> QED BY <1>1, <1>2, Layout

LEMMA NoDuplicatesInArchive ==
  ASSUME NEW x, Finished(x)
  PROVE  NoDuplicates(ArchiveOf(x))
<1> DEFINE a == ArchiveOf(x)
           path(i) == a.entries[i].path
<1>1. DOMAIN a.entries = 1..Size(x)
  BY Layout
<1>2. \A j \in DOMAIN NamesOf(x) : NamesOf(x)[j] \notin {"record.json", "manifest.json"}
  BY NamesAre DEF Finished, NamesOf
<1>3. \A k \in DOMAIN x.units : /\ path(2 * k - 1) = RecordPath(x.units[k].path)
                                /\ path(2 * k) = UnitManifestPath(x.units[k].path)
  BY PathsOfArchive
<1>4. \A j \in DOMAIN NamesOf(x) : path(2 * Len(x.units) + j) = DocumentPath(NamesOf(x)[j])
  BY PathsOfArchive
<1>5. ASSUME NEW k \in DOMAIN x.units, NEW l \in DOMAIN x.units,
             x.units[k].path[1] = x.units[l].path[1], x.units[k].path[2] = x.units[l].path[2]
      PROVE  k = l
  <2>1. x.units[k] \in UnitRows /\ x.units[l] \in UnitRows
    BY DEF Finished
  <2>2. Identity(x.units[k]) = Identity(x.units[l])
    BY <1>5, <2>1, UnitRowIs DEF Identity
  <2> QED BY <2>2, UnitsDiffer
<1>6. \A i, j \in DOMAIN NamesOf(x) : NamesOf(x)[i] = NamesOf(x)[j] => i = j
  BY NamesAre DEF Finished, NamesOf
<1> SUFFICES ASSUME NEW i \in 1..Size(x), NEW j \in 1..Size(x), path(i) = path(j)
             PROVE  i = j
  BY <1>1 DEF NoDuplicates
<1> HIDE DEF path
<1>7. CASE \E k \in DOMAIN x.units : i = 2 * k - 1
  BY <1>2, <1>3, <1>4, <1>5, <1>7, LayoutIsAll, PathsDiffer
<1>8. CASE \E k \in DOMAIN x.units : i = 2 * k
  BY <1>2, <1>3, <1>4, <1>5, <1>8, LayoutIsAll, PathsDiffer
<1>9. CASE \E k \in DOMAIN NamesOf(x) : i = 2 * Len(x.units) + k
  BY <1>2, <1>3, <1>4, <1>6, <1>9, LayoutIsAll, PathsDiffer
<1> QED BY <1>7, <1>8, <1>9, LayoutIsAll

\* Where no path occurs twice, an entry is read as it was written.
LEMMA EntryIsRead ==
  ASSUME NEW a, NoDuplicates(a), DOMAIN a.entries \subseteq Nat, NEW i \in DOMAIN a.entries
  PROVE  EntryAt(a, a.entries[i].path) = a.entries[i].bytes /\ a.entries[i].path \in Paths(a)
<1> DEFINE path == a.entries[i].path
           LastAt(k) == a.entries[k].path = path /\ \A j \in DOMAIN a.entries : a.entries[j].path = path => j <= k
<1>1. \A k \in DOMAIN a.entries : a.entries[k].path = path => k = i
  BY DEF NoDuplicates
<1>2. EntryAt(a, path) = a.entries[CHOOSE k \in DOMAIN a.entries : LastAt(k)].bytes
  BY DEF EntryAt
<1>3. LastAt(i) /\ \A k \in DOMAIN a.entries : LastAt(k) => k = i
  BY <1>1
<1> HIDE DEF LastAt
<1>4. (CHOOSE k \in DOMAIN a.entries : LastAt(k)) = i
  BY <1>3
<1> QED BY <1>2, <1>4 DEF Paths

LEMMA ArchiveReads ==
  ASSUME NEW x, Finished(x)
  PROVE  LET a == ArchiveOf(x)
         IN  /\ \A k \in DOMAIN x.units :
                  /\ {RecordPath(x.units[k].path), UnitManifestPath(x.units[k].path)} \subseteq Paths(a)
                  /\ EntryAt(a, RecordPath(x.units[k].path)) =
                       Envelope(x.units[k].record, x.units[k].number)
                  /\ EntryAt(a, UnitManifestPath(x.units[k].path)) = UnitManifest(ExportedAt, x.units[k])
             /\ \A j \in DOMAIN NamesOf(x) :
                  /\ DocumentPath(NamesOf(x)[j]) \in Paths(a)
                  /\ Rows(a, NamesOf(x)[j]) = x.documents[j]
<1> DEFINE a == ArchiveOf(x)
<1>1. NoDuplicates(a)
  BY NoDuplicatesInArchive
<1>2. DOMAIN a.entries = 1..Size(x) /\ 1..Size(x) \subseteq Nat
  BY Layout
<1>3. \A i \in 1..Size(x) : EntryAt(a, a.entries[i].path) = a.entries[i].bytes /\ a.entries[i].path \in Paths(a)
  BY <1>1, <1>2, EntryIsRead
<1>4. \A k \in DOMAIN x.units : 2 * k - 1 \in 1..Size(x) /\ 2 * k \in 1..Size(x)
  BY <1>2, Layout
<1>5. \A j \in DOMAIN NamesOf(x) : 2 * Len(x.units) + j \in 1..Size(x)
  BY <1>2, Layout
<1> HIDE DEF a
<1>6. ASSUME NEW k \in DOMAIN x.units
      PROVE  /\ {RecordPath(x.units[k].path), UnitManifestPath(x.units[k].path)} \subseteq Paths(a)
             /\ EntryAt(a, RecordPath(x.units[k].path)) =
                  Envelope(x.units[k].record, x.units[k].number)
             /\ EntryAt(a, UnitManifestPath(x.units[k].path)) = UnitManifest(ExportedAt, x.units[k])
  BY <1>3, <1>4, PathsOfArchive DEF a
<1>7. ASSUME NEW j \in DOMAIN NamesOf(x)
      PROVE  DocumentPath(NamesOf(x)[j]) \in Paths(a) /\ Rows(a, NamesOf(x)[j]) = x.documents[j]
  BY <1>3, <1>5, PathsOfArchive DEF a, Rows
<1> QED BY <1>6, <1>7 DEF a

LEMMA NothingIsUnlisted ==
  ASSUME NEW x, Finished(x)
  PROVE  NothingUnlisted(ArchiveOf(x))
<1> DEFINE a == ArchiveOf(x)
<1>1. DOMAIN a.entries = 1..Size(x)
  BY Layout
<1>2. ASSUME NEW i \in 1..Size(x) PROVE a.entries[i].path \in ListedUnits(a) \cup ListedDocuments(a)
  <2>1. CASE \E k \in DOMAIN x.units : i = 2 * k - 1 \/ i = 2 * k
    <3>1. PICK k \in DOMAIN x.units : i = 2 * k - 1 \/ i = 2 * k
      BY <2>1
    <3>2. a.entries[i].path \in {RecordPath(x.units[k].path), UnitManifestPath(x.units[k].path)}
      BY <3>1, PathsOfArchive
    <3>3. x.units[k] \in ToSet(a.manifest.units)
      BY <3>1, ManifestIs DEF ToSet
    <3> QED BY <3>2, <3>3 DEF ListedUnits
  <2>2. CASE \E j \in DOMAIN NamesOf(x) : i = 2 * Len(x.units) + j
    <3>1. PICK j \in DOMAIN NamesOf(x) : i = 2 * Len(x.units) + j
      BY <2>2
    <3>2. a.entries[i].path = DocumentPath(NamesOf(x)[j])
      BY <3>1, PathsOfArchive
    <3>3. DocumentEntry(NamesOf(x)[j], x.documents[j]) \in ToSet(a.manifest.documents)
      BY <3>1, ManifestIs DEF ToSet
    <3>4. DocumentEntry(NamesOf(x)[j], x.documents[j]).path = DocumentPath(NamesOf(x)[j])
      BY DEF DocumentEntry
    <3> QED BY <3>2, <3>3, <3>4 DEF ListedDocuments
  <2> QED BY <2>1, <2>2, LayoutIsAll
<1> QED BY <1>1, <1>2 DEF NothingUnlisted, Paths

LEMMA AscendingIf ==
  ASSUME NEW n \in Nat, NEW s, DOMAIN s = 1..n, Len(s) = n,
         \A i, j \in 1..n : i < j => Earlier(s[i], s[j])
  PROVE  Ascending(s)
<1>1. \A i \in 1..(n - 1) : i \in 1..n /\ i + 1 \in 1..n /\ i < i + 1
  OBVIOUS
<1> QED BY <1>1 DEF Ascending

\* The hash an envelope carries is its predecessor's.
LEMMA PredecessorIs ==
  ASSUME NEW e \in UnitRows
  PROVE  /\ e.number = 1 <=> e.predecessor_content_hash = <<>>
         /\ e.number # 1 =>
              /\ e.number - 1 \in 1..MaxNumber
              /\ e.predecessor_content_hash = <<Hash(Envelope(e.record, e.number - 1))>>
<1>1. /\ e.record \in Records /\ e.number \in 1..MaxNumber
      /\ e.predecessor_content_hash = Envelope(e.record, e.number).predecessor
  BY UnitRowIs
<1>2. e.predecessor_content_hash = IF e.number = 1 THEN <<>> ELSE <<Hash(Envelope(e.record, e.number - 1))>>
  BY <1>1, EnvelopeIs
<1>3. MaxNumber \in Nat
  BY RecordsAreNumbers
<1>4. <<Hash(Envelope(e.record, e.number - 1))>> # <<>>
  OBVIOUS
<1> QED BY <1>1, <1>2, <1>3, <1>4

LEMMA UnitsOfArchiveVerify ==
  ASSUME NEW x, Finished(x)
  PROVE  UnitsVerify(ArchiveOf(x))
<1> DEFINE a == ArchiveOf(x)
<1>1. a.manifest.units = x.units /\ a.manifest.exported_at = ExportedAt
  BY ManifestIs
<1>2. x.units \in Seq(UnitRows) /\ Len(x.units) \in Nat /\ DOMAIN x.units = 1..Len(x.units)
  BY DEF Finished
<1>3. Ascending(Identities(a))
  <2>1. Identities(a) = [i \in 1..Len(x.units) |-> Identity(x.units[i])]
    BY <1>1, <1>2 DEF Identities, Identity
  <2>2. DOMAIN Identities(a) = 1..Len(x.units) /\ Len(Identities(a)) = Len(x.units)
    BY <1>2, <2>1
  <2>3. \A i, j \in 1..Len(x.units) : i < j => Earlier(Identities(a)[i], Identities(a)[j])
    BY <1>2, <2>1 DEF Finished
  <2> QED BY <1>2, <2>2, <2>3, AscendingIf
<1>4. ASSUME NEW k \in DOMAIN x.units PROVE UnitVerifies(a, x.units[k])
  <2> DEFINE e == x.units[k]
             bytes == Envelope(e.record, e.number)
  <2>1. e \in UnitRows
    BY <1>2
  <2>2. /\ {RecordPath(e.path), UnitManifestPath(e.path)} \subseteq Paths(a)
        /\ EntryAt(a, UnitManifestPath(e.path)) = UnitManifest(a.manifest.exported_at, e)
        /\ EntryAt(a, RecordPath(e.path)) = bytes
    BY <1>1, ArchiveReads
  <2>3. /\ e.record \in Records /\ e.number \in 1..MaxNumber
        /\ e.record \in Nat \ {0} /\ e.number \in Nat \ {0}
        /\ e.content_hash = Hash(bytes) /\ e.predecessor_content_hash = bytes.predecessor
        /\ e.chain_hash = ChainHash(e.predecessor_content_hash, bytes)
    BY <2>1, UnitRowIs
  <2>4. bytes.record = e.record /\ bytes.number = e.number
    BY <2>3, EnvelopeIs
  <2>5. bytes # Garbage
    BY <2>3, <2>4 DEF Garbage
  <2>6. (e.number = 1) = (e.predecessor_content_hash = <<>>)
    BY <2>1, PredecessorIs
  <2>7. ASSUME NEW p \in Previous(a, e) PROVE e.predecessor_content_hash = <<p.content_hash>>
    <3>1. p \in UnitRows /\ p.record = e.record /\ p.number = e.number - 1
      BY <1>1, <1>2 DEF Previous, ToSet
    <3>2. p.number # 0 /\ p.content_hash = Hash(Envelope(p.record, p.number))
      BY <3>1, UnitRowIs
    <3>3. e.number # 1
      BY <2>3, <3>1, <3>2
    <3> QED BY <2>1, <3>1, <3>2, <3>3, PredecessorIs
  <2> HIDE DEF e, bytes
  <2>8. EnvelopeAgrees(bytes, e)
    BY <2>3, <2>4 DEF EnvelopeAgrees
  <2>9. e.record >= 1 /\ e.number >= 1
    BY <2>3
  <2>10. UnitVerifies(a, e)
    BY <2>2, <2>3, <2>5, <2>6, <2>7, <2>8, <2>9 DEF UnitVerifies
  <2> QED BY <2>10 DEF e
<1>5. ASSUME NEW k \in DOMAIN x.units
      PROVE  x.units[k].path = unit_path(x.units[k].record, x.units[k].number)
  BY <1>2, UnitRowIs
<1> QED BY <1>1, <1>3, <1>4, <1>5 DEF UnitsVerify, ToSet

-----------------------------------------------------------------------------
(***************************************************************************)
(* What the database holds at any moment.                                  *)
(***************************************************************************)
\* Versions are numbered without a gap; a record was amended between any two of them;
\* an acknowledgment is of a stored version and says who spoke.
Store ==
  /\ sealed \in [Records -> 0..MaxNumber]
  /\ amendments \subseteq Versions
  /\ \A m \in amendments : m[2] <= sealed[m[1]]
  /\ \A r \in Records, n \in 1..MaxNumber : n < sealed[r] => <<r, n>> \in amendments
  /\ \A ack \in acks :
       /\ <<ack.record, ack.number>> \in Stored
       /\ ack.user = Trainee(ack.record) /\ AckShape(ack)

LEMMA StoredIs ==
  ASSUME Store
  PROVE  /\ Stored \subseteq Versions
         /\ \A r \in Records, n \in 1..MaxNumber : <<r, n>> \in Stored <=> n <= sealed[r]
         /\ amendments \subseteq Stored
BY DEF Store, Stored, Versions

LEMMA PairsAre == \A v \in Versions : v = <<v[1], v[2]>> /\ v[1] \in Records /\ v[2] \in 1..MaxNumber
BY DEF Versions

\* What an export of a scope states, all written.
Stated(format, scope) ==
  [state |-> "done", format |-> format, scope |-> scope, units |-> UnitsOf(scope),
   documents |-> Documents(format, scope), written |-> UnitsOf(scope)]

LEMMA ScopeIsStored ==
  ASSUME Store, NEW scope
  PROVE  /\ InScopeNow(scope) \in SUBSET Versions
         /\ \A v \in InScopeNow(scope) : v \in Stored /\ InScope(scope, v[1], v[2])
         /\ \A r \in Records, n \in 1..MaxNumber :
              n <= sealed[r] /\ InScope(scope, r, n) => <<r, n>> \in InScopeNow(scope)
<1>1. InScopeNow(scope) \subseteq Stored /\ \A v \in InScopeNow(scope) : InScope(scope, v[1], v[2])
  BY DEF InScopeNow
<1>2. ASSUME NEW r \in Records, NEW n \in 1..MaxNumber, n <= sealed[r], InScope(scope, r, n)
      PROVE  <<r, n>> \in InScopeNow(scope)
  BY <1>2, StoredIs DEF InScopeNow
<1> QED BY <1>1, <1>2, StoredIs

LEMMA UnitsAre ==
  ASSUME Store, NEW scope
  PROVE  /\ UnitsOf(scope) \in Seq(UnitRows)
         /\ Len(UnitsOf(scope)) = Cardinality(InScopeNow(scope))
         /\ DOMAIN UnitsOf(scope) = 1..Cardinality(InScopeNow(scope))
         /\ Cardinality(InScopeNow(scope)) \in Nat
         /\ \A i \in DOMAIN UnitsOf(scope) :
              /\ UnitsOf(scope)[i] \in UnitRows
              /\ Identity(UnitsOf(scope)[i]) = Sorted(InScopeNow(scope))[i]
              /\ Identity(UnitsOf(scope)[i]) \in InScopeNow(scope)
         /\ \A v \in InScopeNow(scope) : \E i \in DOMAIN UnitsOf(scope) :
              /\ Identity(UnitsOf(scope)[i]) = v
              /\ UnitsOf(scope)[i] = UnitEntry(v[1], v[2])
<1> DEFINE S == InScopeNow(scope)
           s == Sorted(S)
           units == UnitsOf(scope)
<1>1. S \in SUBSET Versions
  BY ScopeIsStored
<1>2. /\ DOMAIN s = 1..Cardinality(S) /\ Cardinality(S) \in Nat
      /\ \A i \in 1..Cardinality(S) : s[i] \in S
      /\ \A v \in S : \E i \in 1..Cardinality(S) : s[i] = v
  BY <1>1, SortedIs
<1>3. units = [i \in 1..Cardinality(S) |-> UnitEntry(s[i][1], s[i][2])]
  BY <1>2 DEF UnitsOf
<1> HIDE DEF S, s, units
<1>4. ASSUME NEW i \in 1..Cardinality(S)
      PROVE  /\ units[i] \in UnitRows /\ Identity(units[i]) = s[i]
             /\ units[i] = UnitEntry(s[i][1], s[i][2])
  <2>1. units[i] = UnitEntry(s[i][1], s[i][2]) /\ s[i] \in Versions
    BY <1>1, <1>2, <1>3
  <2>2. units[i].record = s[i][1] /\ units[i].number = s[i][2]
    BY <2>1 DEF UnitEntry
  <2> QED BY <2>1, <2>2, PairsAre DEF UnitRows, Identity
<1>5. units \in [1..Cardinality(S) -> UnitRows]
  BY <1>3, <1>4
<1>6. units \in Seq(UnitRows) /\ Len(units) = Cardinality(S) /\ DOMAIN units = 1..Cardinality(S)
  BY <1>2, <1>5
<1> QED BY <1>2, <1>4, <1>6 DEF S, s, units

LEMMA StatedIsFinished ==
  ASSUME Store, NEW format \in Formats, NEW scope
  PROVE  Finished(Stated(format, scope))
<1> DEFINE x == Stated(format, scope)
<1>1. x.format = format /\ x.units = UnitsOf(scope) /\ x.written = x.units
  BY DEF Stated
<1>2. InScopeNow(scope) \in SUBSET Versions
  BY ScopeIsStored
<1> HIDE DEF x
<1>3. \A i, j \in DOMAIN x.units : i < j => Earlier(Identity(x.units[i]), Identity(x.units[j]))
  <2> DEFINE S == InScopeNow(scope)
  <2>1. \A i, j \in 1..Cardinality(S) : i < j => Earlier(Sorted(S)[i], Sorted(S)[j])
    BY <1>2, SortedIs
  <2>2. DOMAIN UnitsOf(scope) = 1..Cardinality(S)
    BY UnitsAre
  <2>3. \A i \in DOMAIN UnitsOf(scope) : Identity(UnitsOf(scope)[i]) = Sorted(S)[i]
    BY UnitsAre
  <2> HIDE DEF S
  <2> QED BY <1>1, <2>1, <2>2, <2>3
<1>4. x.units \in Seq(UnitRows)
  BY <1>1, UnitsAre
<1>5. Finished(x)
  BY <1>1, <1>3, <1>4 DEF Finished
<1> QED BY <1>5 DEF x

LEMMA CarriedIs ==
  ASSUME Store, NEW format \in Formats, NEW scope
  PROVE  LET a == ArchiveOf(Stated(format, scope))
         IN  /\ a.manifest.scope = scope /\ a.manifest.format = format
             /\ a.manifest.units = UnitsOf(scope)
             /\ Carried(a) = InScopeNow(scope)
             /\ \A e \in ToSet(a.manifest.units) :
                  e \in UnitRows /\ Identity(e) \in InScopeNow(scope)
             /\ \A v \in InScopeNow(scope) :
                  UnitEntry(v[1], v[2]) \in ToSet(a.manifest.units)
<1> DEFINE a == ArchiveOf(Stated(format, scope))
<1>1. a.manifest.scope = scope /\ a.manifest.format = format /\ a.manifest.units = UnitsOf(scope)
  BY ManifestIs DEF Stated
<1> HIDE DEF a
<1>2. Carried(a) = {Identity(UnitsOf(scope)[i]) : i \in DOMAIN UnitsOf(scope)}
  BY <1>1 DEF Carried, Identities, ToSet, Identity
<1>3. Carried(a) = InScopeNow(scope)
  BY <1>2, UnitsAre
<1>4. ToSet(a.manifest.units) = {UnitsOf(scope)[i] : i \in DOMAIN UnitsOf(scope)}
  BY <1>1 DEF ToSet
<1>5. \A e \in ToSet(a.manifest.units) : e \in UnitRows /\ Identity(e) \in InScopeNow(scope)
  BY <1>4, UnitsAre
<1>6. \A v \in InScopeNow(scope) : UnitEntry(v[1], v[2]) \in ToSet(a.manifest.units)
  BY <1>4, UnitsAre
<1> QED BY <1>1, <1>3, <1>5, <1>6 DEF a

-----------------------------------------------------------------------------
(***************************************************************************)
(* A record export.                                                        *)
(***************************************************************************)
LEMMA ExportsVerify ==
  ASSUME Store, NEW scope \in Scopes("export"), InScopeNow(scope) # {}
  PROVE  Verifies(ArchiveOf(Stated("export", scope)))
<1> DEFINE x == Stated("export", scope)
           a == ArchiveOf(x)
<1>1. "export" \in Formats
  BY DEF Formats
<1>2. Finished(x)
  BY <1>1, StatedIsFinished
<1>3. NoDuplicates(a) /\ UnitsVerify(a) /\ NothingUnlisted(a)
  BY <1>2, NoDuplicatesInArchive, UnitsOfArchiveVerify, NothingIsUnlisted
<1>4. /\ a.manifest.scope = scope /\ a.manifest.format = "export"
      /\ a.manifest.units = UnitsOf(scope) /\ Carried(a) = InScopeNow(scope)
  BY <1>1, CarriedIs
<1>5. \E i \in DOMAIN UnitsOf(scope) : TRUE
  BY UnitsAre
<1>6. UnitsOf(scope) # <<>>
  BY <1>5
<1>7. \A v \in Carried(a) : InScope(scope, v[1], v[2])
  BY <1>4, ScopeIsStored
<1>8. scope.kind = "version" => Len(UnitsOf(scope)) = 1
  <2> SUFFICES ASSUME scope.kind = "version" PROVE Cardinality(InScopeNow(scope)) = 1
    BY UnitsAre
  <2>1. \A v \in InScopeNow(scope) : v = <<scope.record, scope.number>>
    BY ScopeIsStored, PairsAre DEF InScope
  <2>2. InScopeNow(scope) = {<<scope.record, scope.number>>}
    BY <2>1
  <2> QED BY <2>2, FS_Singleton
<1> HIDE DEF a
<1>9. ScopeHolds(a)
  BY <1>4, <1>6, <1>7, <1>8 DEF ScopeHolds
<1>10. Verifies(a)
  BY <1>3, <1>4, <1>9 DEF Verifies, ExportVerifies
<1> QED BY <1>10 DEF a

-----------------------------------------------------------------------------
(***************************************************************************)
(* Documents.                                                              *)
(***************************************************************************)
LEMMA DocumentsAreRead ==
  ASSUME NEW x, Finished(x)
  PROVE  DocumentsRead(ArchiveOf(x), NamesOf(x))
<1> DEFINE a == ArchiveOf(x)
<1>1. a.manifest.documents =
        [i \in DOMAIN NamesOf(x) |-> DocumentEntry(NamesOf(x)[i], x.documents[i])]
  BY ManifestIs
<1>2. ASSUME NEW i \in DOMAIN NamesOf(x)
      PROVE DocumentReads(a, DocumentEntry(NamesOf(x)[i], x.documents[i]))
  <2>1. DocumentPath(NamesOf(x)[i]) \in Paths(a) /\ Rows(a, NamesOf(x)[i]) = x.documents[i]
    BY ArchiveReads
  <2> HIDE DEF a
  <2> QED BY <2>1 DEF DocumentReads, DocumentEntry
<1>3. [i \in DOMAIN NamesOf(x) |-> NamesOf(x)[i]] = NamesOf(x)
  <2>1. CASE x.format = "export"
    BY <2>1 DEF NamesOf, DocumentNames
  <2>2. CASE x.format = "packet"
    BY <2>2 DEF NamesOf, DocumentNames, PacketDocuments
  <2>3. CASE x.format = "installation"
    BY <2>3 DEF NamesOf, DocumentNames, Tables
  <2> QED BY <2>1, <2>2, <2>3 DEF Finished, Formats
<1>4. [i \in DOMAIN a.manifest.documents |-> a.manifest.documents[i].name] = NamesOf(x)
  <2>1. \A i \in DOMAIN NamesOf(x) : DocumentEntry(NamesOf(x)[i], x.documents[i]).name = NamesOf(x)[i]
    BY DEF DocumentEntry
  <2>2. [i \in DOMAIN a.manifest.documents |-> a.manifest.documents[i].name]
          = [i \in DOMAIN NamesOf(x) |-> NamesOf(x)[i]]
    BY <1>1, <2>1
  <2> QED BY <1>3, <2>2
<1>5. \A d \in ToSet(a.manifest.documents) : DocumentReads(a, d)
  BY <1>1, <1>2 DEF ToSet
<1> QED BY <1>4, <1>5 DEF DocumentsRead

\* The scopes of a packet and of an installation hold the version before each they hold.
WholeScope(scope) == scope.kind \in {"enrollment", "installation"}

LEMMA NothingIsLeftOut ==
  ASSUME Store, NEW format \in Formats, NEW scope, WholeScope(scope),
         NEW e \in ToSet(ArchiveOf(Stated(format, scope)).manifest.units)
  PROVE  ~NotInExport(ArchiveOf(Stated(format, scope)), e)
<1> DEFINE a == ArchiveOf(Stated(format, scope))
<1>1. e \in UnitRows /\ Identity(e) \in InScopeNow(scope)
  BY CarriedIs
<1>2. /\ e.record \in Records /\ e.number \in 1..MaxNumber /\ e.number \in Nat \ {0}
  BY <1>1, UnitRowIs
<1>3. <<e.record, e.number>> \in Stored /\ InScope(scope, e.record, e.number)
  BY <1>1, ScopeIsStored DEF Identity
<1>4. e.number <= sealed[e.record]
  BY <1>2, <1>3, StoredIs
<1>5. CASE e.number = 1
  BY <1>1, <1>5, PredecessorIs DEF NotInExport
<1>6. CASE e.number # 1
  <2>1. e.number - 1 \in 1..MaxNumber
    BY <1>1, <1>6, PredecessorIs
  <2>2. e.number - 1 <= sealed[e.record]
    BY <1>2, <1>4 DEF Store
  <2>3. InScope(scope, e.record, e.number - 1)
    BY <1>3 DEF InScope, WholeScope
  <2>4. <<e.record, e.number - 1>> \in InScopeNow(scope)
    BY <1>2, <2>1, <2>2, <2>3, ScopeIsStored
  <2>5. UnitEntry(e.record, e.number - 1) \in ToSet(a.manifest.units)
    BY <2>4, CarriedIs
  <2>6. UnitEntry(e.record, e.number - 1).record = e.record
        /\ UnitEntry(e.record, e.number - 1).number = e.number - 1
    BY DEF UnitEntry
  <2> HIDE DEF a
  <2>7. Previous(a, e) # {}
    BY <2>5, <2>6 DEF Previous
  <2>8. ~NotInExport(a, e)
    BY <2>7 DEF NotInExport
  <2> QED BY <2>8 DEF a
<1> QED BY <1>5, <1>6

\* The rows of a document, in the order of the versions they are about.
LEMMA RowsFollow ==
  ASSUME NEW S \in SUBSET Versions, NEW rows, NEW ids, DOMAIN rows = DOMAIN Sorted(S),
         ids = [i \in DOMAIN rows |-> ids[i]],
         \A i \in DOMAIN rows : ids[i] = Sorted(S)[i]
  PROVE  Ascending(ids)
<1> DEFINE n == Cardinality(S)
<1>1. /\ DOMAIN Sorted(S) = 1..n /\ n \in Nat
      /\ \A i, j \in 1..n : i < j => Earlier(Sorted(S)[i], Sorted(S)[j])
  BY SortedIs
<1> HIDE DEF n
<1>2. DOMAIN ids = 1..n /\ Len(ids) = n
  BY <1>1
<1>3. \A i, j \in 1..n : i < j => Earlier(ids[i], ids[j])
  BY <1>1
<1> QED BY <1>1, <1>2, <1>3, AscendingIf

LEMMA AckDocIs ==
  ASSUME Store, NEW scope
  PROVE  /\ Ascending([i \in DOMAIN AckDoc(scope) |->
                         <<AckDoc(scope)[i].record, AckDoc(scope)[i].number>>])
         /\ \A ack \in ToSet(AckDoc(scope)) :
              /\ ack \in acks /\ <<ack.record, ack.number>> \in InScopeNow(scope)
<1> DEFINE S == InScopeNow(scope)
           A == {v \in S : AlreadyAcknowledged(v[1], v[2])}
           doc == AckDoc(scope)
           ids == [i \in DOMAIN doc |-> <<doc[i].record, doc[i].number>>]
<1>1. S \in SUBSET Versions /\ A \in SUBSET Versions /\ A \subseteq S
  BY ScopeIsStored
<1>2. doc = [i \in DOMAIN Sorted(A) |-> AckOf(Sorted(A)[i])]
  BY DEF AckDoc
<1>3. \A i \in DOMAIN Sorted(A) : Sorted(A)[i] \in A
  BY <1>1, SortedIs
<1>4. ASSUME NEW v \in A
      PROVE  AckOf(v) \in acks /\ AckOf(v).record = v[1] /\ AckOf(v).number = v[2]
  BY DEF AckOf, AlreadyAcknowledged
<1>5. \A v \in A : <<v[1], v[2]>> = v
  BY <1>1, PairsAre
<1> HIDE DEF S, A, doc
<1>6. DOMAIN doc = DOMAIN Sorted(A) /\ \A i \in DOMAIN doc :
        /\ doc[i] \in acks /\ <<doc[i].record, doc[i].number>> = Sorted(A)[i]
        /\ Sorted(A)[i] \in A
  BY <1>2, <1>3, <1>4, <1>5
<1>7. Ascending(ids)
  <2>1. ids = [i \in DOMAIN doc |-> ids[i]] /\ \A i \in DOMAIN doc : ids[i] = Sorted(A)[i]
    BY <1>6
  <2> HIDE DEF ids
  <2> QED BY <1>1, <1>6, <2>1, RowsFollow
<1>8. \A ack \in ToSet(doc) : ack \in acks /\ <<ack.record, ack.number>> \in S
  BY <1>1, <1>6 DEF ToSet
<1> QED BY <1>7, <1>8 DEF doc, S

\* Two units of a record are neighbours when the later names the earlier one's content.
LEMMA NamesPredecessor ==
  ASSUME NEW s \in UnitRows, NEW p \in UnitRows, s.record = p.record
  PROVE  s.predecessor_content_hash = <<p.content_hash>> <=> s.number = p.number + 1
<1>1. /\ s.record \in Records /\ s.number \in Nat \ {0} /\ p.number \in 1..MaxNumber /\ p.number \in Nat \ {0}
      /\ p.content_hash = Hash(Envelope(s.record, p.number))
  BY UnitRowIs
<1>2. CASE s.number = 1
  <2>1. s.predecessor_content_hash = <<>> /\ <<p.content_hash>> # <<>>
    BY <1>2, PredecessorIs
  <2> QED BY <1>1, <1>2, <2>1
<1>3. CASE s.number # 1
  <2>1. /\ s.number - 1 \in 1..MaxNumber
        /\ s.predecessor_content_hash = <<Hash(Envelope(s.record, s.number - 1))>>
    BY <1>3, PredecessorIs
  <2>2. Envelope(s.record, s.number - 1).number = s.number - 1 /\ Envelope(s.record, p.number).number = p.number
    BY <1>1, <2>1, EnvelopeIs
  <2>3. \A b, c : Hash(b) = Hash(c) => b = c
    BY DEF Hash
  <2>4. s.predecessor_content_hash = <<p.content_hash>> <=> s.number - 1 = p.number
    BY <1>1, <2>1, <2>2, <2>3
  <2> QED BY <1>1, <2>4
<1> QED BY <1>2, <1>3

LEMMA SuccessorIs ==
  ASSUME Store, NEW format \in Formats, NEW scope, WholeScope(scope),
         NEW r \in Records, NEW n \in 1..MaxNumber
  PROVE  LET a == ArchiveOf(Stated(format, scope))
         IN  /\ \A s \in SuccessorOf(a, r, n) :
                  /\ s.record = r /\ s.number = n + 1 /\ <<r, n + 1>> \in InScopeNow(scope)
             /\ <<r, n>> \in InScopeNow(scope) /\ n < sealed[r] =>
                  \E s \in SuccessorOf(a, r, n) : s.number = n + 1
<1> DEFINE a == ArchiveOf(Stated(format, scope))
           units == ToSet(a.manifest.units)
<1>1. /\ \A e \in units : e \in UnitRows /\ Identity(e) \in InScopeNow(scope)
      /\ \A v \in InScopeNow(scope) : UnitEntry(v[1], v[2]) \in units
  BY CarriedIs
<1>2. SuccessorOf(a, r, n) =
        {s \in units : /\ s.record = r
                       /\ \E p \in units : /\ p.record = r /\ p.number = n
                                           /\ s.predecessor_content_hash = <<p.content_hash>>}
  BY DEF SuccessorOf
<1> HIDE DEF a, units
<1>3. ASSUME NEW s \in SuccessorOf(a, r, n)
      PROVE  s.record = r /\ s.number = n + 1 /\ <<r, n + 1>> \in InScopeNow(scope)
  <2>1. PICK p \in units : p.record = r /\ p.number = n /\ s.predecessor_content_hash = <<p.content_hash>>
    BY <1>2
  <2>2. s \in units /\ s.record = r
    BY <1>2
  <2>3. s.number = n + 1
    BY <1>1, <2>1, <2>2, NamesPredecessor
  <2> QED BY <1>1, <2>2, <2>3 DEF Identity
<1>4. ASSUME <<r, n>> \in InScopeNow(scope), n < sealed[r]
      PROVE  \E s \in SuccessorOf(a, r, n) : s.number = n + 1
  <2>1. n + 1 \in 1..MaxNumber /\ n + 1 <= sealed[r]
    BY <1>4, RecordsAreNumbers DEF Store
  <2>2. InScope(scope, r, n + 1)
    <3>1. InScope(scope, r, n)
      BY <1>4, ScopeIsStored
    <3> QED BY <3>1 DEF InScope, WholeScope
  <2>3. <<r, n + 1>> \in InScopeNow(scope)
    BY <2>1, <2>2, ScopeIsStored
  <2> DEFINE s == UnitEntry(r, n + 1)
             p == UnitEntry(r, n)
  <2>4. s \in units /\ p \in units
    BY <1>1, <1>4, <2>3
  <2>5. s.record = r /\ s.number = n + 1 /\ p.record = r /\ p.number = n
    BY DEF UnitEntry
  <2> HIDE DEF s, p
  <2>6. s.predecessor_content_hash = <<p.content_hash>>
    BY <1>1, <2>4, <2>5, NamesPredecessor
  <2> QED BY <1>2, <2>4, <2>5, <2>6
<1> QED BY <1>3, <1>4 DEF a

LEMMA AmendmentDocIs ==
  ASSUME Store, NEW scope
  PROVE  LET doc == AmendmentDoc(scope)
             A == {v \in amendments : InScope(scope, v[1], v[2])}
         IN  /\ A \in SUBSET Versions /\ DOMAIN doc = DOMAIN Sorted(A)
             /\ \A i \in DOMAIN doc :
                  /\ <<doc[i].record, doc[i].predecessor>> = Sorted(A)[i]
                  /\ <<doc[i].record, doc[i].predecessor>> \in A
                  /\ doc[i].successor = IF doc[i].predecessor < sealed[doc[i].record]
                                        THEN <<doc[i].predecessor + 1>> ELSE <<>>
             /\ \A v \in A : \E m \in ToSet(doc) : <<m.record, m.predecessor>> = v
<1> DEFINE A == {v \in amendments : InScope(scope, v[1], v[2])}
           doc == AmendmentDoc(scope)
<1>1. A \in SUBSET Versions
  BY DEF Store
<1>2. doc = [i \in DOMAIN Sorted(A) |->
         [record |-> Sorted(A)[i][1], predecessor |-> Sorted(A)[i][2],
          successor |-> IF Sorted(A)[i][2] < sealed[Sorted(A)[i][1]]
                        THEN <<Sorted(A)[i][2] + 1>> ELSE <<>>]]
  BY DEF AmendmentDoc
<1>3. /\ \A i \in DOMAIN Sorted(A) : Sorted(A)[i] \in A
      /\ \A v \in A : \E i \in DOMAIN Sorted(A) : Sorted(A)[i] = v
  BY <1>1, SortedIs
<1>4. \A v \in A : <<v[1], v[2]>> = v
  BY <1>1, PairsAre
<1> HIDE DEF A, doc
<1>5. ASSUME NEW i \in DOMAIN doc
      PROVE  /\ <<doc[i].record, doc[i].predecessor>> = Sorted(A)[i]
             /\ <<doc[i].record, doc[i].predecessor>> \in A
             /\ doc[i].successor = IF doc[i].predecessor < sealed[doc[i].record]
                                   THEN <<doc[i].predecessor + 1>> ELSE <<>>
  <2>1. doc[i].record = Sorted(A)[i][1] /\ doc[i].predecessor = Sorted(A)[i][2] /\ i \in DOMAIN Sorted(A)
    BY <1>2
  <2>2. doc[i].successor = IF Sorted(A)[i][2] < sealed[Sorted(A)[i][1]]
                           THEN <<Sorted(A)[i][2] + 1>> ELSE <<>>
    BY <1>2
  <2> QED BY <1>3, <1>4, <2>1, <2>2
<1>6. ASSUME NEW v \in A PROVE \E m \in ToSet(doc) : <<m.record, m.predecessor>> = v
  <2>1. PICK i \in DOMAIN Sorted(A) : Sorted(A)[i] = v
    BY <1>3
  <2>2. i \in DOMAIN doc
    BY <1>2
  <2>3. doc[i] \in ToSet(doc) /\ <<doc[i].record, doc[i].predecessor>> = v
    BY <1>5, <2>1, <2>2 DEF ToSet
  <2> QED BY <2>3
<1> QED BY <1>1, <1>2, <1>5, <1>6 DEF A, doc

\* The scope of a trainee's packet.
LEMMA PacketScopeIs ==
  ASSUME NEW scope \in Scopes("packet")
  PROVE  /\ scope.kind = "enrollment" /\ WholeScope(scope)
         /\ \A r \in Records, n \in 1..MaxNumber :
              InScope(scope, r, n) <=> EnrollmentOf[r] = scope.enrollment
<1>1. PICK e \in Enrollments : scope = EnrollmentScope(e)
  BY DEF Scopes
<1>2. scope.kind = "enrollment"
  BY <1>1 DEF EnrollmentScope
<1> QED BY <1>2 DEF WholeScope, InScope

LEMMA AmendmentsAgree ==
  ASSUME Store, NEW scope \in Scopes("packet")
  PROVE  AmendmentsCheck(ArchiveOf(Stated("packet", scope)))
<1> DEFINE x == Stated("packet", scope)
           a == ArchiveOf(x)
           doc == AmendmentDoc(scope)
           A == {v \in amendments : InScope(scope, v[1], v[2])}
           recorded == {<<m.record, m.predecessor>> : m \in ToSet(doc)}
           ids == [i \in DOMAIN doc |-> <<doc[i].record, doc[i].predecessor>>]
<1>1. "packet" \in Formats /\ WholeScope(scope)
  BY PacketScopeIs DEF Formats
<1>2. Finished(x)
  BY <1>1, StatedIsFinished
<1>3. Rows(a, "amendments") = doc
  <2>1. 2 \in DOMAIN NamesOf(x) /\ NamesOf(x)[2] = "amendments" /\ x.documents[2] = doc
    BY DEF NamesOf, DocumentNames, PacketDocuments, Documents, Stated
  <2> HIDE DEF a, x, doc
  <2>2. Rows(a, NamesOf(x)[2]) = x.documents[2]
    BY <1>2, <2>1, ArchiveReads DEF a
  <2> QED BY <2>1, <2>2
<1>4. Carried(a) = InScopeNow(scope)
  BY <1>1, CarriedIs
<1>5. /\ A \in SUBSET Versions /\ DOMAIN doc = DOMAIN Sorted(A)
      /\ \A i \in DOMAIN doc :
           /\ <<doc[i].record, doc[i].predecessor>> = Sorted(A)[i]
           /\ <<doc[i].record, doc[i].predecessor>> \in A
           /\ doc[i].successor = IF doc[i].predecessor < sealed[doc[i].record]
                                 THEN <<doc[i].predecessor + 1>> ELSE <<>>
      /\ \A v \in A : \E m \in ToSet(doc) : <<m.record, m.predecessor>> = v
  BY AmendmentDocIs
<1>6. A \subseteq InScopeNow(scope)
  <2>1. \A v \in A : v \in Stored /\ InScope(scope, v[1], v[2])
    BY StoredIs
  <2> QED BY <2>1 DEF InScopeNow
<1> HIDE DEF a, x, doc, A
<1>7. Ascending(ids)
  <2>1. ids = [i \in DOMAIN doc |-> ids[i]] /\ \A i \in DOMAIN doc : ids[i] = Sorted(A)[i]
    BY <1>5
  <2> HIDE DEF ids
  <2> QED BY <1>5, <2>1, RowsFollow
<1>8. ASSUME NEW m \in ToSet(doc)
      PROVE  /\ <<m.record, m.predecessor>> \in Carried(a)
             /\ {s.number : s \in SuccessorOf(a, m.record, m.predecessor)} = ToSet(m.successor)
  <2>1. /\ <<m.record, m.predecessor>> \in A
        /\ m.successor = IF m.predecessor < sealed[m.record] THEN <<m.predecessor + 1>> ELSE <<>>
    BY <1>5 DEF ToSet
  <2>2. m.record \in Records /\ m.predecessor \in 1..MaxNumber
    BY <1>5, <2>1 DEF Versions
  <2>3. <<m.record, m.predecessor>> \in InScopeNow(scope)
    BY <1>6, <2>1
  <2> DEFINE successors == SuccessorOf(a, m.record, m.predecessor)
  <2>4. /\ \A s \in successors : /\ s.number = m.predecessor + 1
                                 /\ <<m.record, m.predecessor + 1>> \in InScopeNow(scope)
        /\ m.predecessor < sealed[m.record] => \E s \in successors : s.number = m.predecessor + 1
    BY <1>1, <2>2, <2>3, SuccessorIs DEF a, x
  <2> HIDE DEF successors
  <2>5. CASE m.predecessor < sealed[m.record]
    <3>1. ToSet(m.successor) = {m.predecessor + 1}
      BY <2>1, <2>5 DEF ToSet
    <3> QED BY <1>4, <2>3, <2>4, <2>5, <3>1 DEF successors
  <2>6. CASE ~(m.predecessor < sealed[m.record])
    <3>1. ToSet(m.successor) = {}
      BY <2>1, <2>6 DEF ToSet
    <3>2. successors = {}
      <4> SUFFICES ASSUME NEW s \in successors PROVE FALSE
        OBVIOUS
      <4>1. <<m.record, m.predecessor + 1>> \in Stored
        BY <2>4, ScopeIsStored
      <4>2. m.predecessor + 1 <= sealed[m.record]
        BY <2>2, <4>1 DEF Stored
      <4> QED BY <2>2, <2>6, <4>2 DEF Store
    <3> QED BY <1>4, <2>3, <3>1, <3>2 DEF successors
  <2> QED BY <2>5, <2>6
<1>9. ASSUME NEW v \in Carried(a), SuccessorOf(a, v[1], v[2]) # {} PROVE v \in recorded
  <2>1. v \in InScopeNow(scope) /\ v \in Versions
    BY <1>4, ScopeIsStored
  <2>2. v[1] \in Records /\ v[2] \in 1..MaxNumber /\ v = <<v[1], v[2]>>
    BY <2>1, PairsAre
  <2>3. <<v[1], v[2] + 1>> \in InScopeNow(scope)
    BY <1>1, <1>9, <2>2, SuccessorIs DEF a, x
  <2>4. v[2] + 1 <= sealed[v[1]]
    BY <2>3, ScopeIsStored DEF Stored
  <2>5. v \in amendments
    BY <2>2, <2>4 DEF Store
  <2>6. v \in A
    BY <2>1, <2>5, ScopeIsStored DEF A
  <2> QED BY <1>5, <2>6
<1>10. AmendmentsCheck(a)
  BY <1>3, <1>7, <1>8, <1>9 DEF AmendmentsCheck
<1> QED BY <1>10 DEF a, x

-----------------------------------------------------------------------------
(***************************************************************************)
(* A trainee's packet.                                                     *)
(***************************************************************************)
LEMMA AcknowledgmentsAgree ==
  ASSUME Store, NEW scope \in Scopes("packet")
  PROVE  AcknowledgmentsCheck(ArchiveOf(Stated("packet", scope)))
<1> DEFINE x == Stated("packet", scope)
           a == ArchiveOf(x)
           doc == AckDoc(scope)
<1>1. "packet" \in Formats
  BY DEF Formats
<1>2. Finished(x)
  BY <1>1, StatedIsFinished
<1>3. Rows(a, "acknowledgments") = doc
  <2>1. 1 \in DOMAIN NamesOf(x) /\ NamesOf(x)[1] = "acknowledgments" /\ x.documents[1] = doc
    BY DEF NamesOf, DocumentNames, PacketDocuments, Documents, Stated
  <2> HIDE DEF a, x, doc
  <2>2. Rows(a, NamesOf(x)[1]) = x.documents[1]
    BY <1>2, <2>1, ArchiveReads DEF a
  <2> QED BY <2>1, <2>2
<1>4. Carried(a) = InScopeNow(scope) /\ a.manifest.scope = scope
  BY <1>1, CarriedIs
<1>5. /\ Ascending([i \in DOMAIN doc |-> <<doc[i].record, doc[i].number>>])
      /\ \A ack \in ToSet(doc) : ack \in acks /\ <<ack.record, ack.number>> \in InScopeNow(scope)
  BY AckDocIs
<1> HIDE DEF a, x, doc
<1>6. ASSUME NEW ack \in ToSet(doc)
      PROVE  /\ ack.user = TraineeOf[scope.enrollment] /\ AckShape(ack)
             /\ <<ack.record, ack.number>> \in Carried(a)
  <2>1. ack \in acks /\ <<ack.record, ack.number>> \in InScopeNow(scope)
    BY <1>5
  <2>2. ack.user = Trainee(ack.record) /\ AckShape(ack)
    BY <2>1 DEF Store
  <2>3. InScope(scope, ack.record, ack.number) /\ ack.record \in Records /\ ack.number \in 1..MaxNumber
    BY <2>1, ScopeIsStored DEF Versions
  <2>4. EnrollmentOf[ack.record] = scope.enrollment
    BY <2>3, PacketScopeIs
  <2> QED BY <1>4, <2>1, <2>2, <2>4 DEF Trainee
<1>7. AcknowledgmentsCheck(a)
  BY <1>3, <1>4, <1>5, <1>6 DEF AcknowledgmentsCheck
<1> QED BY <1>7 DEF a, x

LEMMA PacketsAreVerified ==
  ASSUME Store, NEW scope \in Scopes("packet")
  PROVE  Verifies(ArchiveOf(Stated("packet", scope)))
<1> DEFINE x == Stated("packet", scope)
           a == ArchiveOf(x)
<1>1. "packet" \in Formats /\ WholeScope(scope)
  BY PacketScopeIs DEF Formats
<1>2. Finished(x)
  BY <1>1, StatedIsFinished
<1>3. NoDuplicates(a) /\ UnitsVerify(a) /\ NothingUnlisted(a) /\ DocumentsRead(a, NamesOf(x))
  BY <1>2, NoDuplicatesInArchive, UnitsOfArchiveVerify, NothingIsUnlisted, DocumentsAreRead
<1>4. NamesOf(x) = PacketDocuments
  BY DEF NamesOf, DocumentNames, Stated
<1>5. a.manifest.scope = scope /\ a.manifest.format = "packet" /\ a.manifest.units = x.units
  BY ManifestIs DEF Stated
<1>6. ASSUME NEW e \in ToSet(a.manifest.units)
      PROVE  /\ EntryAt(a, RecordPath(e.path)).trainee = TraineeOf[scope.enrollment]
             /\ ~NotInExport(a, e)
  <2>1. PICK k \in DOMAIN x.units : x.units[k] = e
    BY <1>5 DEF ToSet
  <2>2. EntryAt(a, RecordPath(e.path)) = Envelope(e.record, e.number)
    BY <1>2, <2>1, ArchiveReads
  <2>3. e \in UnitRows /\ Identity(e) \in InScopeNow(scope)
    BY <1>1, CarriedIs
  <2>4. e.record \in Records /\ e.number \in 1..MaxNumber
    BY <2>3, UnitRowIs
  <2>5. InScope(scope, e.record, e.number)
    BY <2>3, ScopeIsStored DEF Identity
  <2>6. Envelope(e.record, e.number).trainee = TraineeOf[EnrollmentOf[e.record]]
    BY <2>4, EnvelopeIs DEF Trainee
  <2>7. EnrollmentOf[e.record] = scope.enrollment
    BY <2>4, <2>5, PacketScopeIs
  <2>8. ~NotInExport(a, e)
    BY <1>1, NothingIsLeftOut
  <2> QED BY <2>2, <2>6, <2>7, <2>8
<1>7. AcknowledgmentsCheck(a) /\ AmendmentsCheck(a)
  BY AcknowledgmentsAgree, AmendmentsAgree
<1> HIDE DEF a, x
<1>8. PacketVerifies(a)
  BY <1>3, <1>4, <1>5, <1>6, <1>7 DEF PacketVerifies
<1>9. Verifies(a)
  BY <1>3, <1>5, <1>8 DEF Verifies
<1> QED BY <1>9 DEF a, x

-----------------------------------------------------------------------------
(***************************************************************************)
(* An installation export.                                                 *)
(***************************************************************************)
LEMMA InstallationScopeIs ==
  /\ Scopes("installation") = {InstallationScope} /\ WholeScope(InstallationScope)
  /\ \A r, n : InScope(InstallationScope, r, n)
<1>1. InstallationScope.kind = "installation"
  BY DEF InstallationScope
<1> QED BY <1>1 DEF Scopes, WholeScope, InScope

TablesOf(a) ==
  /\ Rows(a, "acknowledgment") = AckDoc(InstallationScope)
  /\ Rows(a, "amendment") = AmendmentTable
  /\ Rows(a, "evaluation_record") = RecordTable
  /\ Rows(a, "evaluation_version") = VersionTable

LEMMA TablesAre ==
  ASSUME Store
  PROVE  TablesOf(ArchiveOf(Stated("installation", InstallationScope)))
<1> DEFINE x == Stated("installation", InstallationScope)
           a == ArchiveOf(x)
<1>1. Finished(x)
  BY StatedIsFinished DEF Formats
<1>2. /\ DOMAIN NamesOf(x) = 1..4 /\ NamesOf(x)[1] = "acknowledgment" /\ NamesOf(x)[2] = "amendment"
      /\ NamesOf(x)[3] = "evaluation_record" /\ NamesOf(x)[4] = "evaluation_version"
  BY DEF NamesOf, DocumentNames, Tables, Stated
<1>3. /\ x.documents[1] = AckDoc(InstallationScope) /\ x.documents[2] = AmendmentTable
      /\ x.documents[3] = RecordTable /\ x.documents[4] = VersionTable
  BY DEF Documents, Stated
<1> HIDE DEF a, x
<1>4. \A j \in 1..4 : Rows(a, NamesOf(x)[j]) = x.documents[j]
  BY <1>1, <1>2, ArchiveReads DEF a
<1>5. TablesOf(a)
  BY <1>2, <1>3, <1>4 DEF TablesOf
<1> QED BY <1>5 DEF a, x

LEMMA EverythingIsInScope ==
  ASSUME Store
  PROVE  InScopeNow(InstallationScope) = Stored /\ Stored \in SUBSET Versions
BY StoredIs, InstallationScopeIs DEF InScopeNow

LEMMA VersionTableIs ==
  ASSUME Store
  PROVE  /\ DOMAIN VersionTable = DOMAIN Sorted(Stored)
         /\ \A i \in DOMAIN VersionTable :
              /\ VersionTable[i].id = Sorted(Stored)[i] /\ Sorted(Stored)[i] \in Stored
              /\ VersionTable[i] = VersionRow(Sorted(Stored)[i][1], Sorted(Stored)[i][2])
              /\ <<VersionTable[i].record, VersionTable[i].number>> = Sorted(Stored)[i]
         /\ \A row \in ToSet(VersionTable) :
              row.id \in Stored /\ row = VersionRow(row.id[1], row.id[2])
         /\ \A v \in Stored : VersionRow(v[1], v[2]) \in ToSet(VersionTable)
<1>1. Stored \in SUBSET Versions
  BY StoredIs
<1>2. /\ \A i \in DOMAIN Sorted(Stored) : Sorted(Stored)[i] \in Stored
      /\ \A v \in Stored : \E i \in DOMAIN Sorted(Stored) : Sorted(Stored)[i] = v
  BY <1>1, SortedIs
<1>3. VersionTable = [i \in DOMAIN Sorted(Stored) |-> VersionRow(Sorted(Stored)[i][1], Sorted(Stored)[i][2])]
  BY DEF VersionTable
<1>4. \A v \in Stored : v = <<v[1], v[2]>>
  BY <1>1, PairsAre
<1>5. \A v \in Stored : /\ VersionRow(v[1], v[2]).id = v
                        /\ VersionRow(v[1], v[2]).record = v[1] /\ VersionRow(v[1], v[2]).number = v[2]
  BY <1>4 DEF VersionRow
<1>6. ASSUME NEW i \in DOMAIN VersionTable
      PROVE  /\ VersionTable[i].id = Sorted(Stored)[i] /\ Sorted(Stored)[i] \in Stored
             /\ VersionTable[i] = VersionRow(Sorted(Stored)[i][1], Sorted(Stored)[i][2])
             /\ <<VersionTable[i].record, VersionTable[i].number>> = Sorted(Stored)[i]
  BY <1>2, <1>3, <1>4, <1>5
<1>7. ASSUME NEW row \in ToSet(VersionTable)
      PROVE  row.id \in Stored /\ row = VersionRow(row.id[1], row.id[2])
  BY <1>6 DEF ToSet
<1>8. ASSUME NEW v \in Stored PROVE VersionRow(v[1], v[2]) \in ToSet(VersionTable)
  BY <1>2, <1>3 DEF ToSet
<1> QED BY <1>3, <1>6, <1>7, <1>8

LEMMA AmendmentTableIs ==
  ASSUME Store
  PROVE  /\ amendments \in SUBSET Versions /\ DOMAIN AmendmentTable = DOMAIN Sorted(amendments)
         /\ \A i \in DOMAIN AmendmentTable :
              /\ <<AmendmentTable[i].record, AmendmentTable[i].predecessor>> = Sorted(amendments)[i]
              /\ <<AmendmentTable[i].record, AmendmentTable[i].predecessor>> \in amendments
<1>1. amendments \in SUBSET Versions
  BY DEF Store
<1>2. \A i \in DOMAIN Sorted(amendments) : Sorted(amendments)[i] \in amendments
  BY <1>1, SortedIs
<1>3. \A v \in amendments : v = <<v[1], v[2]>>
  BY <1>1, PairsAre
<1> QED BY <1>1, <1>2, <1>3 DEF AmendmentTable

LEMMA RecordTableIs ==
  /\ DOMAIN RecordTable = 1..Cardinality(Records)
  /\ \A i \in DOMAIN RecordTable : RecordTable[i].id = i
  /\ \A r \in Records : \E row \in ToSet(RecordTable) : row.id = r
<1>1. DOMAIN RecordTable = 1..Cardinality(Records) /\ \A i \in DOMAIN RecordTable : RecordTable[i].id = i
  BY RecordsAreNumbers DEF RecordTable
<1> QED BY <1>1, RecordsAreNumbers DEF ToSet

LEMMA TablesAscend ==
  ASSUME Store, NEW a, TablesOf(a)
  PROVE  RowsAscend(a)
<1>1. ToSet(Tables) = {"acknowledgment", "amendment", "evaluation_record", "evaluation_version"}
  BY DEF ToSet, Tables
<1>2. Ascending([i \in DOMAIN AckDoc(InstallationScope) |->
                   KeyOf("acknowledgment", AckDoc(InstallationScope)[i])])
  BY AckDocIs DEF KeyOf
<1>3. Ascending([i \in DOMAIN AmendmentTable |-> KeyOf("amendment", AmendmentTable[i])])
  <2> DEFINE ids == [i \in DOMAIN AmendmentTable |-> KeyOf("amendment", AmendmentTable[i])]
  <2>1. \A row : KeyOf("amendment", row) = <<row.record, row.predecessor>>
    BY DEF KeyOf
  <2>2. ids = [i \in DOMAIN AmendmentTable |-> ids[i]]
        /\ \A i \in DOMAIN AmendmentTable : ids[i] = Sorted(amendments)[i]
    BY <2>1, AmendmentTableIs
  <2> HIDE DEF ids
  <2>3. Ascending(ids)
    BY <2>2, AmendmentTableIs, RowsFollow
  <2> QED BY <2>3 DEF ids
<1>4. Ascending([i \in DOMAIN RecordTable |-> KeyOf("evaluation_record", RecordTable[i])])
  <2> DEFINE ids == [i \in DOMAIN RecordTable |-> KeyOf("evaluation_record", RecordTable[i])]
  <2>1. \A i \in DOMAIN RecordTable : KeyOf("evaluation_record", RecordTable[i]) = <<i, 0>>
    BY RecordTableIs DEF KeyOf
  <2>2. ids = [i \in 1..Cardinality(Records) |-> <<i, 0>>]
    BY <2>1, RecordTableIs
  <2>3. \A i, j \in 1..Cardinality(Records) : i < j => Earlier(ids[i], ids[j])
    BY <2>2 DEF Earlier
  <2>4. DOMAIN ids = 1..Cardinality(Records) /\ Len(ids) = Cardinality(Records)
    BY <2>2, RecordsAreNumbers
  <2> HIDE DEF ids
  <2>5. Ascending(ids)
    BY <2>3, <2>4, RecordsAreNumbers, AscendingIf
  <2> QED BY <2>5 DEF ids
<1>5. Ascending([i \in DOMAIN VersionTable |-> KeyOf("evaluation_version", VersionTable[i])])
  <2> DEFINE ids == [i \in DOMAIN VersionTable |-> KeyOf("evaluation_version", VersionTable[i])]
  <2>1. \A row : KeyOf("evaluation_version", row) = <<row.record, row.number>>
    BY DEF KeyOf
  <2>2. ids = [i \in DOMAIN VersionTable |-> ids[i]]
        /\ \A i \in DOMAIN VersionTable : ids[i] = Sorted(Stored)[i]
    BY <2>1, VersionTableIs
  <2> HIDE DEF ids
  <2>3. Ascending(ids)
    BY <2>2, VersionTableIs, StoredIs, RowsFollow
  <2> QED BY <2>3 DEF ids
<1> QED BY <1>1, <1>2, <1>3, <1>4, <1>5 DEF RowsAscend, TablesOf

LEMMA VersionRowIs ==
  ASSUME NEW v \in Versions
  PROVE  LET row == VersionRow(v[1], v[2])
             e == UnitEntry(v[1], v[2])
         IN  /\ row.id = v /\ row.record = v[1] /\ row.number = v[2]
             /\ e.record = row.record /\ e.number = row.number
             /\ e.content_hash = row.content_hash /\ e.chain_hash = row.chain_hash
             /\ row.content_hash = Hash(Envelope(v[1], v[2]))
             /\ row.predecessor_id = IF v[2] = 1 THEN <<>> ELSE << <<v[1], v[2] - 1>> >>
BY PairsAre DEF VersionRow, UnitEntry

LEMMA VersionsResolve ==
  ASSUME Store, NEW a, TablesOf(a)
  PROVE  ReferencesResolve(a)
<1>1. RecordIds(a) = Records
  <2>1. \A row \in ToSet(RecordTable) : row.id \in Records
    BY RecordTableIs, RecordsAreNumbers DEF ToSet
  <2> QED BY <2>1, RecordTableIs DEF RecordIds, TablesOf
<1>2. VersionIds(a) = Stored
  <2>1. \A v \in Stored : VersionRow(v[1], v[2]).id = v
    BY StoredIs, VersionRowIs
  <2> QED BY <2>1, VersionTableIs DEF VersionIds, TablesOf
<1>3. \A v \in Stored : v[1] \in Records
  BY StoredIs, PairsAre
<1>4. \A ack \in ToSet(AckDoc(InstallationScope)) : <<ack.record, ack.number>> \in Stored
  BY AckDocIs, EverythingIsInScope
<1>5. \A row \in ToSet(AmendmentTable) :
        row.record \in Records /\ <<row.record, row.predecessor>> \in Stored
  <2>1. \A row \in ToSet(AmendmentTable) : <<row.record, row.predecessor>> \in amendments
    BY AmendmentTableIs DEF ToSet
  <2>2. \A v \in amendments : v \in Stored /\ v[1] \in Records
    BY StoredIs, <1>3
  <2> QED BY <2>1, <2>2
<1>6. ASSUME NEW row \in ToSet(VersionTable)
      PROVE  row.record \in Records /\ \A id \in ToSet(row.predecessor_id) : id \in Stored
  <2>1. row.id \in Stored /\ row = VersionRow(row.id[1], row.id[2])
    BY VersionTableIs
  <2>2. /\ row.id \in Versions /\ row.id[1] \in Records /\ row.id[2] \in 1..MaxNumber
        /\ row.id = <<row.id[1], row.id[2]>>
    BY <2>1, StoredIs, PairsAre
  <2>3. /\ row.record = row.id[1]
        /\ row.predecessor_id = IF row.id[2] = 1 THEN <<>> ELSE << <<row.id[1], row.id[2] - 1>> >>
    BY <2>1, <2>2, VersionRowIs
  <2>4. CASE row.id[2] = 1
    BY <2>2, <2>3, <2>4 DEF ToSet
  <2>5. CASE row.id[2] # 1
    <3>1. row.id[2] <= sealed[row.id[1]]
      BY <2>1, <2>2, StoredIs
    <3>2. row.id[2] - 1 \in 1..MaxNumber /\ row.id[2] - 1 <= sealed[row.id[1]]
      BY <2>2, <2>5, <3>1, RecordsAreNumbers DEF Store
    <3>3. <<row.id[1], row.id[2] - 1>> \in Stored
      BY <2>2, <3>2, StoredIs
    <3>4. ToSet(row.predecessor_id) = {<<row.id[1], row.id[2] - 1>>}
      BY <2>3, <2>5 DEF ToSet
    <3> QED BY <2>2, <2>3, <3>3, <3>4
  <2> QED BY <2>4, <2>5
<1> HIDE DEF ReferencesResolve
<1> QED BY <1>1, <1>2, <1>4, <1>5, <1>6 DEF ReferencesResolve, TablesOf

LEMMA VersionRowsAgree ==
  ASSUME Store, NEW a, TablesOf(a), NEW v \in Stored,
         UnitEntry(v[1], v[2]) \in ToSet(a.manifest.units)
  PROVE  VersionAgreesWithUnit(a, VersionRow(v[1], v[2]))
<1> DEFINE row == VersionRow(v[1], v[2])
           e == UnitEntry(v[1], v[2])
           rows == ToSet(Rows(a, "evaluation_version"))
           RowOf(id) == CHOOSE p \in rows : p.id = id
<1>1. v \in Versions /\ v[1] \in Records /\ v[2] \in 1..MaxNumber /\ v = <<v[1], v[2]>>
  BY StoredIs, PairsAre
<1>2. /\ e.record = row.record /\ e.number = row.number
      /\ e.content_hash = row.content_hash /\ e.chain_hash = row.chain_hash
      /\ row.predecessor_id = IF v[2] = 1 THEN <<>> ELSE << <<v[1], v[2] - 1>> >>
  BY <1>1, VersionRowIs
<1>3. e \in UnitRows /\ e.number = v[2] /\ e.record = v[1]
  BY <1>1 DEF UnitRows, UnitEntry
<1>rows. rows = ToSet(VersionTable)
  BY DEF TablesOf
<1>4. e.predecessor_content_hash = [i \in DOMAIN row.predecessor_id |-> RowOf(row.predecessor_id[i]).content_hash]
  <2>1. CASE v[2] = 1
    <3>1. e.predecessor_content_hash = <<>>
      BY <1>3, <2>1, PredecessorIs
    <3>2. row.predecessor_id = <<>>
      BY <1>2, <2>1
    <3> HIDE DEF e, row, RowOf
    <3> QED BY <3>1, <3>2
  <2>2. CASE v[2] # 1
    <3>1. /\ v[2] - 1 \in 1..MaxNumber
          /\ e.predecessor_content_hash = <<Hash(Envelope(v[1], v[2] - 1))>>
      BY <1>3, <2>2, PredecessorIs
    <3> DEFINE w == <<v[1], v[2] - 1>>
    <3>2. row.predecessor_id = <<w>>
      BY <1>2, <2>2
    <3>3. w \in Stored /\ w \in Versions /\ w[1] = v[1] /\ w[2] = v[2] - 1
      <4>1. v[2] <= sealed[v[1]]
        BY <1>1, StoredIs
      <4>2. v[2] - 1 <= sealed[v[1]]
        BY <1>1, <4>1 DEF Store
      <4> QED BY <1>1, <3>1, <4>2, StoredIs
    <3> HIDE DEF w
    <3>4. VersionRow(w[1], w[2]) \in rows /\ VersionRow(w[1], w[2]).id = w
      BY <3>3, <1>rows, VersionTableIs, VersionRowIs
    <3>5. \A p \in rows : p.id = w => p = VersionRow(w[1], w[2])
      BY <1>rows, VersionTableIs
    <3>6. RowOf(w) = VersionRow(w[1], w[2])
      BY <3>4, <3>5
    <3>7. RowOf(w).content_hash = Hash(Envelope(v[1], v[2] - 1))
      BY <3>3, <3>6, VersionRowIs
    <3> HIDE DEF e, row, RowOf, rows
    <3>8. [i \in DOMAIN row.predecessor_id |-> RowOf(row.predecessor_id[i]).content_hash] = <<RowOf(w).content_hash>>
      BY <3>2
    <3> QED BY <3>1, <3>7, <3>8
  <2> QED BY <2>1, <2>2
<1>5. e \in ToSet(a.manifest.units)
  OBVIOUS
<1> HIDE DEF e, row
<1>6. VersionAgreesWithUnit(a, row)
  BY <1>2, <1>4, <1>5 DEF VersionAgreesWithUnit
<1> QED BY <1>6 DEF row

LEMMA VersionsAgree ==
  ASSUME Store, NEW a, TablesOf(a), Carried(a) = Stored,
         \A v \in Stored : UnitEntry(v[1], v[2]) \in ToSet(a.manifest.units)
  PROVE  UnitsAgree(a)
<1>1. \A row \in ToSet(VersionTable) : VersionAgreesWithUnit(a, row)
  BY VersionTableIs, VersionRowsAgree
<1>2. ASSUME NEW v \in Stored
      PROVE  Cardinality({i \in DOMAIN VersionTable : VersionTable[i].id = v}) = 1
  <2>1. Stored \in SUBSET Versions
    BY StoredIs
  <2> DEFINE n == Cardinality(Stored)
  <2>2. /\ DOMAIN Sorted(Stored) = 1..n /\ n \in Nat
        /\ \A i, j \in 1..n : i < j => Earlier(Sorted(Stored)[i], Sorted(Stored)[j])
        /\ \A w \in Stored : \E i \in 1..n : Sorted(Stored)[i] = w
    BY <2>1, SortedIs
  <2>3. \A i \in DOMAIN VersionTable : VersionTable[i].id = Sorted(Stored)[i]
    BY VersionTableIs
  <2>4. DOMAIN VersionTable = 1..n
    BY <2>2, VersionTableIs
  <2> HIDE DEF n
  <2>5. PICK k \in 1..n : Sorted(Stored)[k] = v
    BY <2>2
  <2>6. ASSUME NEW i \in 1..n, Sorted(Stored)[i] = v PROVE i = k
    <3>1. ~(i < k) /\ ~(k < i)
      BY <2>1, <2>2, <2>5, <2>6, EarlierOrders
    <3> QED BY <2>2, <3>1
  <2>7. {i \in DOMAIN VersionTable : VersionTable[i].id = v} = {k}
    BY <2>3, <2>4, <2>5, <2>6
  <2> QED BY <2>7, FS_Singleton
<1>3. Rows(a, "evaluation_version") = VersionTable
  BY DEF TablesOf
<1> QED BY <1>1, <1>2, <1>3 DEF UnitsAgree

LEMMA InstallationsAreVerified ==
  ASSUME Store, NEW scope \in Scopes("installation")
  PROVE  Verifies(ArchiveOf(Stated("installation", scope)))
<1> DEFINE x == Stated("installation", scope)
           a == ArchiveOf(x)
<1>1. "installation" \in Formats /\ scope = InstallationScope /\ WholeScope(scope)
  BY InstallationScopeIs DEF Formats
<1>2. Finished(x)
  BY <1>1, StatedIsFinished
<1>3. NoDuplicates(a) /\ UnitsVerify(a) /\ NothingUnlisted(a) /\ DocumentsRead(a, NamesOf(x))
  BY <1>2, NoDuplicatesInArchive, UnitsOfArchiveVerify, NothingIsUnlisted, DocumentsAreRead
<1>4. NamesOf(x) = Tables
  BY DEF NamesOf, DocumentNames, Stated
<1>5. a.manifest.format = "installation"
  BY ManifestIs DEF Stated
<1>6. TablesOf(a)
  BY <1>1, TablesAre
<1>7. \A e \in ToSet(a.manifest.units) : ~NotInExport(a, e)
  BY <1>1, NothingIsLeftOut
<1>8. /\ Carried(a) = Stored
      /\ \A v \in Stored : UnitEntry(v[1], v[2]) \in ToSet(a.manifest.units)
  BY <1>1, CarriedIs, EverythingIsInScope
<1> HIDE DEF a, x
<1>9. RowsAscend(a) /\ ReferencesResolve(a) /\ UnitsAgree(a)
  BY <1>6, <1>8, TablesAscend, VersionsResolve, VersionsAgree
<1>10. InstallationVerifies(a)
  BY <1>3, <1>4, <1>7, <1>9 DEF InstallationVerifies
<1>11. Verifies(a)
  BY <1>3, <1>5, <1>10 DEF Verifies
<1> QED BY <1>11 DEF a, x


LEMMA EveryExportVerifies ==
  ASSUME Store, NEW format \in Formats, NEW scope \in Scopes(format),
         format = "export" => InScopeNow(scope) # {}
  PROVE  /\ Verifies(ArchiveOf(Stated(format, scope)))
         /\ Carried(ArchiveOf(Stated(format, scope))) = InScopeNow(scope)
<1>1. Carried(ArchiveOf(Stated(format, scope))) = InScopeNow(scope)
  BY CarriedIs
<1>2. CASE format = "export"
  BY <1>1, <1>2, ExportsVerify
<1>3. CASE format = "packet"
  BY <1>1, <1>3, PacketsAreVerified
<1>4. CASE format = "installation"
  BY <1>1, <1>4, InstallationsAreVerified
<1> QED BY <1>2, <1>3, <1>4 DEF Formats

-----------------------------------------------------------------------------
(***************************************************************************)
(* Damage.  Two archives with one manifest that both verify have the same  *)
(* entries under the same paths; so nothing can be taken out of an archive *)
(* that verifies, added to it or exchanged within it.                      *)
(***************************************************************************)

LEMMA WhatVerifies ==
  ASSUME NEW a, Verifies(a), a.manifest.format \in Formats
  PROVE  /\ NoDuplicates(a) /\ NothingUnlisted(a)
         /\ \A e \in ToSet(a.manifest.units) : UnitVerifies(a, e)
         /\ a.manifest.format # "export" =>
              \A d \in ToSet(a.manifest.documents) : DocumentReads(a, d)
<1>1. CASE a.manifest.format = "export"
  BY <1>1 DEF Verifies, ExportVerifies, UnitsVerify
<1>2. CASE a.manifest.format = "packet"
  BY <1>2 DEF Verifies, PacketVerifies, UnitsVerify, DocumentsRead
<1>3. CASE a.manifest.format = "installation"
  BY <1>3 DEF Verifies, InstallationVerifies, UnitsVerify, DocumentsRead
<1> QED BY <1>1, <1>2, <1>3 DEF Formats

LEMMA OneManifestOneContent ==
  ASSUME NEW a, NEW b, a.manifest = b.manifest, Verifies(a), Verifies(b),
         a.manifest.format \in Formats,
         a.manifest.format = "export" => a.manifest.documents = <<>>,
         NEW path \in Paths(a)
  PROVE  path \in Paths(b) /\ EntryAt(a, path) = EntryAt(b, path)
<1>1. path \in ListedUnits(a) \/ path \in ListedDocuments(a)
  BY WhatVerifies DEF NothingUnlisted
<1>2. ASSUME NEW e \in ToSet(a.manifest.units),
             path \in {RecordPath(e.path), UnitManifestPath(e.path)}
      PROVE  path \in Paths(b) /\ EntryAt(a, path) = EntryAt(b, path)
  <2>1. UnitVerifies(a, e) /\ UnitVerifies(b, e)
    BY WhatVerifies
  <2>2. /\ {RecordPath(e.path), UnitManifestPath(e.path)} \subseteq Paths(b)
        /\ EntryAt(a, UnitManifestPath(e.path)) = EntryAt(b, UnitManifestPath(e.path))
        /\ Hash(EntryAt(a, RecordPath(e.path))) = Hash(EntryAt(b, RecordPath(e.path)))
    BY <2>1 DEF UnitVerifies
  <2>3. \A s, t : Hash(s) = Hash(t) => s = t
    BY DEF Hash
  <2> QED BY <1>2, <2>2, <2>3
<1>3. ASSUME NEW d \in ToSet(a.manifest.documents), path = d.path
      PROVE  path \in Paths(b) /\ EntryAt(a, path) = EntryAt(b, path)
  <2>1. a.manifest.format # "export"
    BY DEF ToSet
  <2>2. DocumentReads(a, d) /\ DocumentReads(b, d)
    BY <2>1, WhatVerifies
  <2> QED BY <1>3, <2>2 DEF DocumentReads, Rows, Hash
<1> QED BY <1>1, <1>2, <1>3 DEF ListedUnits, ListedDocuments

\* What a producer writes is a container of its kind.
Container(a) ==
  /\ a = [manifest |-> a.manifest, entries |-> a.entries]
  /\ \E S : a.entries \in Seq(S)
  /\ \A i \in DOMAIN a.entries : a.entries[i] = Entry(a.entries[i].path, a.entries[i].bytes)
  /\ a.manifest.format \in Formats
  /\ a.manifest.format = "export" => a.manifest.documents = <<>>
  /\ DocumentPath("unlisted") \notin Paths(a)

LEMMA Removed ==
  ASSUME NEW S, NEW s \in Seq(S), NEW i \in DOMAIN s
  PROVE  LET t == RemoveAt(s, i)
         IN  /\ t \in Seq(S) /\ Len(t) = Len(s) - 1
             /\ \A j \in DOMAIN t : \E k \in DOMAIN s : k # i /\ t[j] = s[k]
             /\ \A k \in DOMAIN s : k # i => \E j \in DOMAIN t : t[j] = s[k]
<1> DEFINE n == Len(s)
           s1 == SubSeq(s, 1, i - 1)
           s2 == SubSeq(s, i + 1, n)
<1>1. n \in Nat /\ DOMAIN s = 1..n /\ i \in 1..n /\ \A k \in 1..n : s[k] \in S
  BY ElementOfSeq
<1>2. /\ s1 \in Seq(S) /\ Len(s1) = i - 1 /\ \A j \in 1..(i - 1) : s1[j] = s[j]
  <2>1. \A k \in 1..(i - 1) : s[k] \in S
    BY <1>1
  <2>2. /\ s1 \in Seq(S) /\ Len(s1) = IF 1 <= i - 1 THEN i - 1 - 1 + 1 ELSE 0
        /\ \A j \in 1..(i - 1 - 1 + 1) : s1[j] = s[1 + j - 1]
    BY <1>1, <2>1, SubSeqProperties
  <2> HIDE DEF s1, n
  <2> QED BY <1>1, <2>2
<1>3. /\ s2 \in Seq(S) /\ Len(s2) = n - i /\ \A j \in 1..(n - i) : s2[j] = s[i + j]
  <2>1. \A k \in (i + 1)..n : s[k] \in S
    BY <1>1
  <2>2. /\ s2 \in Seq(S) /\ Len(s2) = IF i + 1 <= n THEN n - (i + 1) + 1 ELSE 0
        /\ \A j \in 1..(n - (i + 1) + 1) : s2[j] = s[i + 1 + j - 1]
    BY <1>1, <2>1, SubSeqProperties
  <2> HIDE DEF s2, n
  <2>3. Len(s2) = n - i
    BY <1>1, <2>2
  <2>4. ASSUME NEW j \in 1..(n - i) PROVE s2[j] = s[i + j]
    <3>1. j \in 1..(n - (i + 1) + 1) /\ i + 1 + j - 1 = i + j
      BY <1>1
    <3> QED BY <2>2, <3>1
  <2> QED BY <2>2, <2>3, <2>4
<1>4. RemoveAt(s, i) = s1 \o s2
  BY DEF RemoveAt
<1> HIDE DEF s1, s2
<1>5. /\ s1 \o s2 \in Seq(S) /\ Len(s1 \o s2) = n - 1
      /\ \A j \in 1..(n - 1) : (s1 \o s2)[j] = IF j < i THEN s[j] ELSE s[j + 1]
  <2>1. /\ s1 \o s2 \in Seq(S) /\ Len(s1 \o s2) = Len(s1) + Len(s2)
        /\ \A j \in 1..(Len(s1) + Len(s2)) : (s1 \o s2)[j] = IF j <= Len(s1) THEN s1[j] ELSE s2[j - Len(s1)]
    BY <1>2, <1>3, ConcatProperties
  <2> DEFINE t == s1 \o s2
  <2> HIDE DEF t, n
  <2>2. ASSUME NEW j \in 1..(n - 1) PROVE t[j] = IF j < i THEN s[j] ELSE s[j + 1]
    <3>1. t[j] = IF j <= i - 1 THEN s1[j] ELSE s2[j - (i - 1)]
      BY <1>1, <1>2, <1>3, <2>1 DEF t
    <3>2. CASE j < i
      BY <1>1, <1>2, <3>1, <3>2
    <3>3. CASE ~(j < i)
      <4>1. j - (i - 1) \in 1..(n - i) /\ i + (j - (i - 1)) = j + 1
        BY <1>1, <3>3
      <4> QED BY <1>1, <1>3, <3>1, <3>3, <4>1
    <3> QED BY <3>2, <3>3
  <2> QED BY <1>1, <1>2, <1>3, <2>1, <2>2 DEF t
<1> DEFINE t == s1 \o s2
<1> HIDE DEF t, n
<1>6. t \in Seq(S) /\ Len(t) = n - 1 /\ DOMAIN t = 1..(n - 1)
  BY <1>1, <1>5 DEF t
<1>7. \A j \in 1..(n - 1) : t[j] = IF j < i THEN s[j] ELSE s[j + 1]
  BY <1>5 DEF t
<1>8. \A j \in 1..(n - 1) : \E k \in 1..n : k # i /\ t[j] = s[k]
  <2>1. ASSUME NEW j \in 1..(n - 1) PROVE \E k \in 1..n : k # i /\ t[j] = s[k]
    <3>1. CASE j < i
      BY <1>1, <1>7, <3>1
    <3>2. CASE ~(j < i)
      <4>1. j + 1 \in 1..n /\ j + 1 # i /\ t[j] = s[j + 1]
        BY <1>1, <1>7, <3>2
      <4> QED BY <4>1
    <3> QED BY <3>1, <3>2
  <2> QED BY <2>1
<1>9. ASSUME NEW k \in 1..n, k # i PROVE \E j \in 1..(n - 1) : t[j] = s[k]
  <2>1. CASE k < i
    <3>1. k \in 1..(n - 1) /\ t[k] = s[k]
      BY <1>1, <1>7, <2>1
    <3> QED BY <3>1
  <2>2. CASE ~(k < i)
    <3>1. k - 1 \in 1..(n - 1) /\ ~(k - 1 < i) /\ (k - 1) + 1 = k
      BY <1>1, <1>9, <2>2
    <3>2. t[k - 1] = s[k]
      BY <1>7, <3>1
    <3> QED BY <3>1, <3>2
  <2> QED BY <2>1, <2>2
<1> QED BY <1>1, <1>4, <1>6, <1>8, <1>9 DEF t, n


\* Nothing taken out, added, repeated or exchanged goes unnoticed.
LEMMA NothingIsExchanged ==
  ASSUME NEW a, Container(a), Verifies(a), NEW damaged \in Damaged(a), damaged # a
  PROVE  ~Verifies(damaged)
<1> SUFFICES ASSUME Verifies(damaged) PROVE FALSE
  OBVIOUS
<1>1. /\ a = [manifest |-> a.manifest, entries |-> a.entries]
      /\ a.manifest.format \in Formats
      /\ a.manifest.format = "export" => a.manifest.documents = <<>>
      /\ \A i \in DOMAIN a.entries : a.entries[i] = Entry(a.entries[i].path, a.entries[i].bytes)
      /\ DocumentPath("unlisted") \notin Paths(a)
  BY DEF Container
<1>2. PICK S : a.entries \in Seq(S)
  BY DEF Container
<1>3. \A entries : /\ WithEntries(a, entries).manifest = a.manifest
                   /\ WithEntries(a, entries).entries = entries
  BY <1>1 DEF WithEntries
<1> DEFINE n == Len(a.entries)
<1>4. n \in Nat /\ DOMAIN a.entries = 1..n /\ \A i \in 1..n : a.entries[i] \in S
  BY <1>2, ElementOfSeq
<1>5. ASSUME NEW entries, damaged = WithEntries(a, entries), NEW path
      PROVE  path \in Paths(a) <=> path \in Paths(damaged)
  <2>1. damaged.manifest = a.manifest
    BY <1>3, <1>5
  <2> QED BY <1>1, <2>1, OneManifestOneContent
<1>6. ASSUME NEW i \in DOMAIN a.entries, damaged = WithEntries(a, RemoveAt(a.entries, i))
      PROVE  FALSE
  <2> DEFINE t == RemoveAt(a.entries, i)
  <2>1. damaged.entries = t
    BY <1>3, <1>6
  <2>2. \A j \in DOMAIN t : \E k \in DOMAIN a.entries : k # i /\ t[j] = a.entries[k]
    BY <1>2, <1>6, Removed
  <2>3. a.entries[i].path \notin Paths(damaged)
    <3>1. \A k \in DOMAIN a.entries : a.entries[k].path = a.entries[i].path => k = i
      BY <1>1, WhatVerifies DEF NoDuplicates
    <3> HIDE DEF t
    <3> QED BY <2>1, <2>2, <3>1 DEF Paths
  <2>4. a.entries[i].path \in Paths(a)
    BY DEF Paths
  <2> QED BY <1>5, <1>6, <2>3, <2>4
<1>7. ASSUME NEW i \in DOMAIN a.entries,
             damaged = WithEntries(a, Append(a.entries, a.entries[i]))
      PROVE  FALSE
  <2> DEFINE t == Append(a.entries, a.entries[i])
  <2>1. damaged.entries = t
    BY <1>3, <1>7
  <2>2. /\ t \in Seq(S) /\ Len(t) = n + 1 /\ t[n + 1] = a.entries[i]
        /\ \A j \in 1..n : t[j] = a.entries[j]
    BY <1>2, <1>4, AppendProperties
  <2> HIDE DEF t, n
  <2>3. i \in DOMAIN t /\ n + 1 \in DOMAIN t /\ i # n + 1 /\ t[i].path = t[n + 1].path
    BY <1>4, <2>2
  <2>4. NoDuplicates(damaged)
    BY DEF Verifies
  <2> QED BY <2>1, <2>3, <2>4 DEF NoDuplicates
<1>8. ASSUME NEW i \in DOMAIN a.entries, NEW bytes,
             damaged = WithEntries(a, [a.entries EXCEPT ![i].bytes = bytes])
      PROVE  FALSE
  <2> DEFINE t == [a.entries EXCEPT ![i].bytes = bytes]
             path == a.entries[i].path
  <2>1. damaged.entries = t /\ damaged.manifest = a.manifest
    BY <1>3, <1>8
  <2>2. DOMAIN t = 1..n /\ DOMAIN a.entries = 1..n
    BY <1>4
  <2>3. t[i].path = path /\ t[i].bytes = bytes
    BY <1>1 DEF Entry
  <2>4. EntryAt(damaged, path) = bytes
    <3>1. NoDuplicates(damaged) /\ DOMAIN damaged.entries \subseteq Nat /\ i \in DOMAIN damaged.entries
      BY <1>4, <2>1, <2>2 DEF Verifies
    <3> HIDE DEF t, n
    <3>2. EntryAt(damaged, damaged.entries[i].path) = damaged.entries[i].bytes
      BY <3>1, EntryIsRead
    <3> QED BY <2>1, <2>3, <3>2
  <2>5. EntryAt(a, path) = a.entries[i].bytes /\ path \in Paths(a)
    <3>1. NoDuplicates(a) /\ DOMAIN a.entries \subseteq Nat
      BY <1>4 DEF Verifies
    <3> QED BY <3>1, EntryIsRead
  <2>6. bytes = a.entries[i].bytes
    <3> HIDE DEF path
    <3> QED BY <1>1, <2>1, <2>4, <2>5, OneManifestOneContent
  <2>7. t = a.entries
    <3>1. [a.entries[i] EXCEPT !.bytes = bytes] = a.entries[i]
      BY <1>1, <2>6 DEF Entry
    <3>2. a.entries = [j \in 1..n |-> a.entries[j]]
      BY <1>2
    <3> QED BY <3>1, <3>2
  <2>8. damaged = a
    BY <1>1, <1>8, <2>7 DEF WithEntries
  <2> QED BY <2>8
<1>9. ASSUME damaged = WithEntries(a, Append(a.entries, Unlisted))
      PROVE  FALSE
  <2> DEFINE t == Append(a.entries, Unlisted)
  <2>1. damaged.entries = t
    BY <1>3, <1>9
  <2>2. /\ Len(t) = n + 1 /\ t[n + 1] = Unlisted /\ t \in Seq(S \union {Unlisted})
    <3>1. a.entries \in Seq(S \union {Unlisted})
      BY <1>2
    <3> QED BY <3>1, AppendProperties
  <2> HIDE DEF t, n
  <2>3. n + 1 \in DOMAIN t
    BY <1>4, <2>2
  <2>4. Unlisted.path = DocumentPath("unlisted")
    BY DEF Unlisted, Entry
  <2>5. DocumentPath("unlisted") \in Paths(damaged)
    BY <2>1, <2>2, <2>3, <2>4 DEF Paths
  <2> QED BY <1>1, <1>5, <1>9, <2>5
<1> HIDE DEF n
<1> QED BY <1>6, <1>7, <1>8, <1>9 DEF Damaged


-----------------------------------------------------------------------------
(***************************************************************************)
(* A unit taken out of the entries and out of the manifest.                *)
(***************************************************************************)
LEMMA WithoutUnitIs ==
  ASSUME NEW x, Finished(x), NEW k \in DOMAIN x.units
  PROVE  LET a == ArchiveOf(x)
             b == WithoutUnit(a, k)
         IN  /\ b.manifest.format = a.manifest.format
             /\ b.manifest.documents = a.manifest.documents
             /\ \A e \in ToSet(a.manifest.units) : e # x.units[k] => e \in ToSet(b.manifest.units)
             /\ \A e \in ToSet(b.manifest.units) :
                  e \in ToSet(a.manifest.units) /\ Identity(e) # Identity(x.units[k])
<1> DEFINE a == ArchiveOf(x)
           b == WithoutUnit(a, k)
           t == RemoveAt(x.units, k)
<1>1. a.manifest.units = x.units /\ a = [manifest |-> a.manifest, entries |-> a.entries]
  BY ManifestIs
<1>2. a.manifest = [format |-> a.manifest.format, scope |-> a.manifest.scope,
                    exported_at |-> a.manifest.exported_at, units |-> a.manifest.units,
                    documents |-> a.manifest.documents]
  BY DEF ArchiveOf
<1> HIDE DEF a
<1>3. /\ b.manifest.format = a.manifest.format
      /\ b.manifest.documents = a.manifest.documents
      /\ b.manifest.units = t
  BY <1>1, <1>2 DEF WithoutUnit
<1>4. x.units \in Seq(UnitRows) /\ k \in DOMAIN x.units
  BY DEF Finished
<1>5. /\ \A j \in DOMAIN t : \E i \in DOMAIN x.units : i # k /\ t[j] = x.units[i]
      /\ \A i \in DOMAIN x.units : i # k => \E j \in DOMAIN t : t[j] = x.units[i]
  BY <1>4, Removed
<1> HIDE DEF b, t
<1>6. \A i \in DOMAIN x.units : i # k => Identity(x.units[i]) # Identity(x.units[k])
  BY <1>4, UnitsDiffer
<1>7. ASSUME NEW e \in ToSet(a.manifest.units), e # x.units[k] PROVE e \in ToSet(b.manifest.units)
  BY <1>1, <1>3, <1>5, <1>7 DEF ToSet
<1>8. ASSUME NEW e \in ToSet(b.manifest.units)
      PROVE  e \in ToSet(a.manifest.units) /\ Identity(e) # Identity(x.units[k])
  BY <1>1, <1>3, <1>5, <1>6 DEF ToSet
<1> QED BY <1>3, <1>7, <1>8 DEF a, b

\* Documents are what the manifest says they are.
LEMMA OneManifestOneTable ==
  ASSUME NEW a, NEW b, a.manifest.documents = b.manifest.documents,
         Verifies(a), Verifies(b), a.manifest.format \in {"packet", "installation"},
         b.manifest.format = a.manifest.format,
         NEW d \in ToSet(a.manifest.documents)
  PROVE  Rows(a, d.name) = Rows(b, d.name)
<1>1. a.manifest.format \in Formats /\ a.manifest.format # "export"
  BY DEF Formats
<1>2. DocumentReads(a, d) /\ DocumentReads(b, d)
  BY <1>1, WhatVerifies
<1> QED BY <1>2 DEF DocumentReads, Hash

LEMMA RowsStay ==
  ASSUME NEW x, Finished(x), x.format \in {"packet", "installation"}, NEW k \in DOMAIN x.units,
         Verifies(ArchiveOf(x)), Verifies(WithoutUnit(ArchiveOf(x), k)), NEW j \in DOMAIN NamesOf(x)
  PROVE  Rows(WithoutUnit(ArchiveOf(x), k), NamesOf(x)[j]) = x.documents[j]
<1> DEFINE a == ArchiveOf(x)
           b == WithoutUnit(a, k)
           d == DocumentEntry(NamesOf(x)[j], x.documents[j])
<1>1. a.manifest.format = x.format /\ d \in ToSet(a.manifest.documents) /\ d.name = NamesOf(x)[j]
  <2>1. /\ a.manifest.format = x.format
        /\ a.manifest.documents =
             [i \in DOMAIN NamesOf(x) |-> DocumentEntry(NamesOf(x)[i], x.documents[i])]
    BY ManifestIs
  <2>2. d.name = NamesOf(x)[j]
    BY DEF DocumentEntry
  <2> HIDE DEF a
  <2>3. j \in DOMAIN a.manifest.documents /\ a.manifest.documents[j] = d
    BY <2>1
  <2> HIDE DEF d
  <2> QED BY <2>1, <2>2, <2>3 DEF ToSet
<1>2. b.manifest.format = a.manifest.format /\ b.manifest.documents = a.manifest.documents
  BY WithoutUnitIs
<1>3. Rows(a, NamesOf(x)[j]) = x.documents[j]
  BY ArchiveReads
<1>4. Verifies(a) /\ Verifies(b)
  OBVIOUS
<1> HIDE DEF a, b, d
<1>5. Rows(a, d.name) = Rows(b, d.name)
  BY <1>1, <1>2, <1>4, OneManifestOneTable
<1> QED BY <1>1, <1>3, <1>5 DEF a, b

LEMMA MissingFromInstallation ==
  ASSUME Store, NEW scope \in Scopes("installation"),
         NEW k \in DOMAIN UnitsOf(scope)
  PROVE  ~Verifies(WithoutUnit(ArchiveOf(Stated("installation", scope)), k))
<1> DEFINE x == Stated("installation", scope)
           a == ArchiveOf(x)
           b == WithoutUnit(a, k)
<1> SUFFICES ASSUME Verifies(b) PROVE FALSE
  OBVIOUS
<1>1. "installation" \in Formats /\ scope = InstallationScope
  BY InstallationScopeIs DEF Formats
<1>2. /\ Finished(x) /\ Verifies(a) /\ x.format = "installation" /\ x.units = UnitsOf(scope)
      /\ x.documents[4] = VersionTable /\ 4 \in DOMAIN NamesOf(x)
      /\ NamesOf(x)[4] = "evaluation_version"
  BY <1>1, StatedIsFinished, InstallationsAreVerified
  DEF Stated, Documents, NamesOf, DocumentNames, Tables
<1> DEFINE e == UnitsOf(scope)[k]
<1>3. e \in UnitRows /\ Identity(e) \in Stored
  BY UnitsAre, ScopeIsStored
<1>4. VersionRow(e.record, e.number) \in ToSet(VersionTable)
  BY <1>3, VersionTableIs DEF Identity
<1> HIDE DEF x, e
<1>5. Rows(b, "evaluation_version") = VersionTable
  BY <1>2, RowsStay
<1>6. b.manifest.format = "installation" /\ \A u \in ToSet(b.manifest.units) : Identity(u) # Identity(e)
  <2>1. e = x.units[k] /\ k \in DOMAIN x.units
    BY <1>2 DEF e
  <2>2. a.manifest.format = "installation"
    BY <1>2, ManifestIs
  <2>3. b.manifest.format = a.manifest.format
    BY <1>2, <2>1, WithoutUnitIs
  <2>4. \A u \in ToSet(b.manifest.units) : Identity(u) # Identity(x.units[k])
    BY <1>2, <2>1, WithoutUnitIs
  <2> QED BY <2>1, <2>2, <2>3, <2>4
<1> HIDE DEF a, b
<1>7. VersionAgreesWithUnit(b, VersionRow(e.record, e.number))
  BY <1>4, <1>5, <1>6 DEF Verifies, InstallationVerifies, UnitsAgree
<1>8. PICK u \in ToSet(b.manifest.units) : u.record = e.record /\ u.number = e.number
  BY <1>7 DEF VersionAgreesWithUnit, VersionRow
<1> QED BY <1>6, <1>8 DEF Identity


LEMMA MissingFromPacket ==
  ASSUME Store, NEW scope \in Scopes("packet"), NEW k \in DOMAIN UnitsOf(scope),
         RefersTo(ArchiveOf(Stated("packet", scope)), UnitsOf(scope)[k])
  PROVE  ~Verifies(WithoutUnit(ArchiveOf(Stated("packet", scope)), k))
<1> DEFINE x == Stated("packet", scope)
           a == ArchiveOf(x)
           b == WithoutUnit(a, k)
           e == UnitsOf(scope)[k]
<1> SUFFICES ASSUME Verifies(b) PROVE FALSE
  OBVIOUS
<1>1. "packet" \in Formats /\ WholeScope(scope)
  BY PacketScopeIs DEF Formats
<1>2. /\ Finished(x) /\ Verifies(a) /\ x.format = "packet" /\ x.units = UnitsOf(scope)
      /\ x.documents[1] = AckDoc(scope) /\ 1 \in DOMAIN NamesOf(x)
      /\ NamesOf(x)[1] = "acknowledgments"
      /\ x.documents[2] = AmendmentDoc(scope) /\ 2 \in DOMAIN NamesOf(x)
      /\ NamesOf(x)[2] = "amendments"
  BY <1>1, StatedIsFinished, PacketsAreVerified
  DEF Stated, Documents, NamesOf, DocumentNames, PacketDocuments
<1>3. /\ a.manifest.format = "packet"
      /\ \A u \in ToSet(a.manifest.units) : u \in UnitRows /\ Identity(u) \in InScopeNow(scope)
      /\ \A v \in InScopeNow(scope) : UnitEntry(v[1], v[2]) \in ToSet(a.manifest.units)
  BY <1>1, CarriedIs
<1>4. /\ e.record \in Records /\ e.number \in 1..MaxNumber /\ e.number \in Nat \ {0}
      /\ <<e.record, e.number>> \in InScopeNow(scope)
  <2>1. e \in UnitRows /\ Identity(e) \in InScopeNow(scope)
    BY UnitsAre
  <2> HIDE DEF e
  <2> QED BY <2>1, UnitRowIs DEF Identity
<1>5. RefersTo(a, e)
  OBVIOUS
<1> HIDE DEF x
<1>6. Rows(a, "acknowledgments") = AckDoc(scope)
  BY <1>2, ArchiveReads
<1>7. Rows(b, "acknowledgments") = AckDoc(scope) /\ Rows(b, "amendments") = AmendmentDoc(scope)
  BY <1>2, RowsStay
<1>8. /\ b.manifest.format = "packet"
      /\ \A u \in ToSet(a.manifest.units) : u # e => u \in ToSet(b.manifest.units)
      /\ \A u \in ToSet(b.manifest.units) : ~(u.record = e.record /\ u.number = e.number)
  BY <1>2, <1>3, WithoutUnitIs DEF Identity
<1> HIDE DEF a, b, e
<1>9. PacketVerifies(b)
  BY <1>8 DEF Verifies
<1>10. CASE \E ack \in ToSet(Rows(a, "acknowledgments")) :
              <<ack.record, ack.number>> = <<e.record, e.number>>
  <2>1. <<e.record, e.number>> \in Carried(b)
    BY <1>6, <1>7, <1>9, <1>10 DEF PacketVerifies, AcknowledgmentsCheck
  <2>2. PICK i \in DOMAIN b.manifest.units :
          <<b.manifest.units[i].record, b.manifest.units[i].number>> = <<e.record, e.number>>
    BY <2>1 DEF Carried, Identities, ToSet
  <2> QED BY <1>8, <2>2 DEF ToSet
<1>11. CASE <<e.record, e.number + 1>> \in InScopeNow(scope)
  <2> DEFINE s == UnitEntry(e.record, e.number + 1)
  <2>1. <<e.record, e.number + 1>> \in Versions
    BY <1>11, ScopeIsStored
  <2>2. s \in UnitRows /\ s.record = e.record /\ s.number = e.number + 1 /\ s \in ToSet(a.manifest.units)
    BY <1>3, <1>11, <2>1 DEF UnitRows, UnitEntry
  <2> HIDE DEF s
  <2>3. s \in ToSet(b.manifest.units) /\ s.number # 1
    BY <1>4, <1>8, <2>2
  <2>4. s.predecessor_content_hash # <<>>
    BY <2>2, <2>3, PredecessorIs
  <2>5. Previous(b, s) = {}
    BY <1>4, <1>8, <2>2 DEF Previous
  <2> QED BY <1>9, <2>3, <2>4, <2>5 DEF PacketVerifies, NotInExport
<1>12. CASE /\ <<e.record, e.number + 1>> \notin InScopeNow(scope)
            /\ \E u \in ToSet(a.manifest.units) : u.record = e.record /\ u # e
  <2>1. PICK u \in ToSet(a.manifest.units) : u.record = e.record /\ u # e
    BY <1>12
  <2>2. /\ u.number \in Nat \ {0} /\ <<e.record, u.number>> \in InScopeNow(scope)
        /\ u.number # e.number
    BY <1>3, <1>8, <2>1, UnitRowIs DEF Identity
  <2> DEFINE r == e.record
             n == e.number
  <2>3. /\ InScope(scope, r, n) /\ n <= sealed[r] /\ u.number <= sealed[r]
        /\ sealed[r] \in 0..MaxNumber
    BY <1>4, <2>2, ScopeIsStored, StoredIs DEF Store, Stored
  <2>4. InScope(scope, r, n + 1) /\ InScope(scope, r, n - 1)
    BY <1>1, <2>3 DEF WholeScope, InScope
  <2> HIDE DEF r, n
  <2>5. r \in Records /\ n \in 1..MaxNumber /\ n \in Nat \ {0} /\ MaxNumber \in Nat
    BY <1>4, RecordsAreNumbers DEF r, n
  <2>6. n = sealed[r]
    <3>1. ~(n + 1 \in 1..MaxNumber /\ n + 1 <= sealed[r])
      BY <1>12, <2>4, <2>5, ScopeIsStored DEF r, n
    <3> QED BY <2>3, <2>5, <3>1
  <2>7. n - 1 \in 1..MaxNumber /\ n - 1 < sealed[r]
    BY <2>2, <2>3, <2>5, <2>6 DEF n
  <2>8. <<r, n - 1>> \in amendments
    BY <2>5, <2>7 DEF Store
  <2>9. PICK m \in ToSet(AmendmentDoc(scope)) : <<m.record, m.predecessor>> = <<r, n - 1>>
    BY <2>4, <2>8, AmendmentDocIs
  <2>10. m.record = r /\ m.predecessor = n - 1
    BY <2>9
  <2>11. ToSet(m.successor) = {n}
    <3>1. m.successor = IF m.predecessor < sealed[m.record] THEN <<m.predecessor + 1>> ELSE <<>>
      <4>1. PICK i \in DOMAIN AmendmentDoc(scope) : m = AmendmentDoc(scope)[i]
        BY DEF ToSet
      <4> QED BY <4>1, AmendmentDocIs
    <3>2. m.successor = <<n>>
      BY <2>5, <2>7, <2>10, <3>1
    <3> QED BY <3>2 DEF ToSet
  <2>12. {s.number : s \in SuccessorOf(b, r, n - 1)} = {n}
    BY <1>7, <1>9, <2>10, <2>11 DEF PacketVerifies, AmendmentsCheck
  <2>13. PICK s \in SuccessorOf(b, r, n - 1) : s.number = n
    BY <2>12
  <2>14. s \in ToSet(b.manifest.units) /\ s.record = r
    BY DEF SuccessorOf
  <2> QED BY <1>8, <2>13, <2>14 DEF r, n
<1> QED BY <1>3, <1>5, <1>10, <1>11, <1>12 DEF RefersTo

\* Whatever is done to an archive is found.
DamageFound(a) ==
  /\ \A damaged \in Damaged(a) : damaged # a => ~Verifies(damaged)
  /\ \A k \in DOMAIN a.manifest.units :
       RefersTo(a, a.manifest.units[k]) => ~Verifies(WithoutUnit(a, k))

LEMMA ProducersWriteContainers ==
  ASSUME NEW x, Finished(x)
  PROVE  Container(ArchiveOf(x))
<1> DEFINE a == ArchiveOf(x)
<1>1. /\ a = [manifest |-> a.manifest, entries |-> a.entries]
      /\ a.manifest.format = x.format /\ x.format \in Formats
      /\ a.manifest.documents =
           [i \in DOMAIN NamesOf(x) |-> DocumentEntry(NamesOf(x)[i], x.documents[i])]
  BY ManifestIs DEF Finished
<1>2. /\ DOMAIN a.entries = 1..Size(x) /\ \E S : a.entries \in Seq(S)
      /\ \A k \in DOMAIN x.units : /\ a.entries[2 * k - 1] = RecordEntry(x.units[k])
                                   /\ a.entries[2 * k] = ManifestEntry(x.units[k])
      /\ \A j \in DOMAIN NamesOf(x) :
           a.entries[2 * Len(x.units) + j] = Entry(DocumentPath(NamesOf(x)[j]), x.documents[j])
  BY Layout
<1>3. \A j \in DOMAIN NamesOf(x) : NamesOf(x)[j] # "unlisted"
  BY <1>1, NamesAre DEF NamesOf
<1> HIDE DEF a
<1>4. ASSUME NEW i \in 1..Size(x)
      PROVE  /\ a.entries[i] = Entry(a.entries[i].path, a.entries[i].bytes)
             /\ a.entries[i].path # DocumentPath("unlisted")
  <2>1. \A path, bytes : /\ Entry(path, bytes).path = path
                         /\ Entry(path, bytes) = Entry(Entry(path, bytes).path, Entry(path, bytes).bytes)
    BY DEF Entry
  <2>2. /\ \A path : RecordPath(path) # DocumentPath("unlisted")
        /\ \A path : UnitManifestPath(path) # DocumentPath("unlisted")
        /\ \A name : name # "unlisted" => DocumentPath(name) # DocumentPath("unlisted")
    BY DEF RecordPath, UnitManifestPath, DocumentPath, PathOf
  <2>3. CASE \E k \in DOMAIN x.units : i = 2 * k - 1
    BY <1>2, <2>1, <2>2, <2>3 DEF RecordEntry
  <2>4. CASE \E k \in DOMAIN x.units : i = 2 * k
    BY <1>2, <2>1, <2>2, <2>4 DEF ManifestEntry
  <2>5. CASE \E j \in DOMAIN NamesOf(x) : i = 2 * Len(x.units) + j
    BY <1>2, <1>3, <2>1, <2>2, <2>5
  <2> QED BY <2>3, <2>4, <2>5, LayoutIsAll
<1>5. a.manifest.format = "export" => a.manifest.documents = <<>>
  <2>1. a.manifest.format = "export" => NamesOf(x) = <<>>
    BY <1>1 DEF NamesOf, DocumentNames
  <2> QED BY <1>1, <2>1
<1>6. Container(a)
  BY <1>1, <1>2, <1>4, <1>5 DEF Container, Paths
<1> QED BY <1>6 DEF a

LEMMA EveryDamageIsFound ==
  ASSUME Store, NEW format \in Formats, NEW scope \in Scopes(format),
         format = "export" => InScopeNow(scope) # {}
  PROVE  DamageFound(ArchiveOf(Stated(format, scope)))
<1> DEFINE a == ArchiveOf(Stated(format, scope))
<1>1. Container(a)
  BY StatedIsFinished, ProducersWriteContainers
<1>2. Verifies(a)
  BY EveryExportVerifies
<1>3. a.manifest.format = format /\ a.manifest.units = UnitsOf(scope)
  BY CarriedIs
<1>4. ASSUME NEW k \in DOMAIN a.manifest.units, RefersTo(a, a.manifest.units[k])
      PROVE  ~Verifies(WithoutUnit(a, k))
  <2>1. format \in {"packet", "installation"}
    BY <1>3, <1>4 DEF RefersTo
  <2>2. CASE format = "packet"
    BY <1>3, <1>4, <2>2, MissingFromPacket
  <2>3. CASE format = "installation"
    BY <1>3, <1>4, <2>3, MissingFromInstallation
  <2> QED BY <2>1, <2>2, <2>3
<1> HIDE DEF a
<1>5. DamageFound(a)
  BY <1>1, <1>2, <1>4, NothingIsExchanged DEF DamageFound
<1> QED BY <1>5 DEF a

-----------------------------------------------------------------------------
(***************************************************************************)
(* The database, step by step.                                             *)
(***************************************************************************)

LEMMA StoreInitially == Init => Store
<1> SUFFICES ASSUME Init PROVE Store
  OBVIOUS
<1>1. sealed \in [Records -> 0..MaxNumber] /\ amendments = {} /\ acks = {}
  BY ArchivesAssumption DEF Init
<1>2. \A r \in Records, n \in 1..MaxNumber : ~(n < sealed[r])
  BY ArchivesAssumption DEF Init
<1> QED BY <1>1, <1>2 DEF Store

\* Versions are only ever added.
LEMMA VersionsStay ==
  ASSUME Store, [Next]_vars
  PROVE  /\ Stored \subseteq Stored'
         /\ sealed' # sealed => UNCHANGED <<amendments, acks, export, held>>
<1>1. CASE UNCHANGED sealed
  BY <1>1 DEF Stored
<1>2. ASSUME NEW r \in Records, Finalize(r)
      PROVE  Stored \subseteq Stored' /\ UNCHANGED <<amendments, acks, export, held>>
  <2>1. sealed[r] \in 0..MaxNumber /\ \A q \in Records : sealed[q] \in 0..MaxNumber
    BY DEF Store
  <2>2. \A q \in Records : sealed'[q] \in Nat /\ sealed[q] <= sealed'[q]
    BY <1>2, <2>1, ArchivesAssumption DEF Finalize, Store
  <2>3. ASSUME NEW v \in Records \X (1..MaxNumber), v[2] <= sealed[v[1]]
        PROVE  v[2] <= sealed'[v[1]]
    <3>1. v[1] \in Records /\ v[2] \in Nat
      BY <2>3
    <3> QED BY <2>1, <2>2, <2>3, <3>1
  <2> QED BY <1>2, <2>3 DEF Stored, Finalize
<1>3. \/ \E r \in Records : Finalize(r)
      \/ UNCHANGED sealed
  BY DEF Next, vars, storeVars, Amend, Acknowledge, Attest, RecordAck, Request, Audit, List,
         WriteUnit, Finish, End
<1> QED BY <1>1, <1>2, <1>3

LEMMA AcksKept ==
  ASSUME Store, Stored \subseteq Stored', NEW r \in Records, NEW kind, NEW by,
         RecordAck(r, kind, by), (kind \in TraineeKinds) = (by = Trainee(r))
  PROVE  Store'
<1> DEFINE new == [record |-> r, number |-> sealed[r], kind |-> kind,
                   user |-> Trainee(r), recorded_by |-> by]
<1>1. new.record = r /\ new.number = sealed[r] /\ new.user = Trainee(r) /\ AckShape(new)
  BY DEF AckShape
<1>2. acks' = acks \union {new} /\ UNCHANGED <<sealed, amendments>>
  BY DEF RecordAck
<1>3. <<r, sealed[r]>> \in Stored
  <2>1. sealed[r] \in 1..MaxNumber
    BY ArchivesAssumption DEF Store, RecordAck
  <2> QED BY <2>1, StoredIs
<1> HIDE DEF new
<1>4. Stored' = Stored
  BY <1>2 DEF Stored
<1>5. \A ack \in acks' :
        /\ <<ack.record, ack.number>> \in Stored'
        /\ ack.user = Trainee(ack.record) /\ AckShape(ack)
  BY <1>1, <1>2, <1>3, <1>4 DEF Store
<1> QED BY <1>2, <1>5 DEF Store

LEMMA FinalizeKept ==
  ASSUME Store, Stored \subseteq Stored', NEW r \in Records, Finalize(r)
  PROVE  Store'
<1>1. /\ sealed[r] \in 0..(MaxNumber - 1) /\ MaxNumber \in Nat
      /\ sealed' = [sealed EXCEPT ![r] = sealed[r] + 1]
      /\ sealed[r] = 0 \/ <<r, sealed[r]>> \in amendments
      /\ UNCHANGED <<amendments, acks>>
  BY ArchivesAssumption DEF Finalize, Store
<1>2. sealed' \in [Records -> 0..MaxNumber]
  BY <1>1 DEF Store
<1>3. \A q \in Records : sealed[q] \in Nat /\ sealed'[q] \in Nat /\ sealed[q] <= sealed'[q]
  BY <1>1, <1>2 DEF Store
<1>4. \A m \in amendments' : m[2] <= sealed'[m[1]]
  <2>1. ASSUME NEW m \in amendments PROVE m[2] <= sealed'[m[1]]
    <3>1. m[1] \in Records /\ m[2] \in Nat /\ m[2] <= sealed[m[1]]
      BY ArchivesAssumption DEF Store, Versions
    <3> QED BY <1>3, <3>1
  <2> QED BY <1>1, <2>1
<1>5. ASSUME NEW q \in Records, NEW n \in 1..MaxNumber, n < sealed'[q]
      PROVE  <<q, n>> \in amendments
  <2>1. CASE n < sealed[q]
    BY <2>1 DEF Store
  <2>2. CASE ~(n < sealed[q])
    <3>1. n \in Nat \ {0} /\ q = r
      BY <1>1, <1>2, <1>5, <2>2 DEF Store
    <3>2. n = sealed[r]
      BY <1>1, <1>5, <2>2, <3>1 DEF Store
    <3> QED BY <1>1, <3>1, <3>2
  <2> QED BY <2>1, <2>2
<1> QED BY <1>1, <1>2, <1>4, <1>5 DEF Store

LEMMA StoreKept == Store /\ [Next]_vars => Store'
<1> SUFFICES ASSUME Store, [Next]_vars PROVE Store'
  OBVIOUS
<1>1. Stored \subseteq Stored'
  BY VersionsStay
<1>2. ASSUME NEW r \in Records, Finalize(r) PROVE Store'
  BY <1>1, <1>2, FinalizeKept
<1>3. ASSUME NEW r \in Records, Amend(r) PROVE Store'
  <2>1. sealed[r] \in 1..(MaxNumber - 1) /\ amendments' = amendments \union {<<r, sealed[r]>>}
        /\ UNCHANGED <<sealed, acks>>
    BY <1>3 DEF Amend
  <2>2. <<r, sealed[r]>> \in Versions
    BY <2>1, ArchivesAssumption DEF Versions
  <2>3. \A m \in amendments' : m \in Versions /\ m[2] <= sealed'[m[1]]
    BY <2>1, <2>2 DEF Store
  <2>4. Stored' = Stored
    BY <2>1 DEF Stored
  <2> QED BY <2>1, <2>3, <2>4 DEF Store
<1>4. ASSUME NEW r \in Records, NEW kind \in TraineeKinds, Acknowledge(r, kind) PROVE Store'
  BY <1>1, <1>4, AcksKept DEF Acknowledge
<1>5. ASSUME NEW r \in Records, NEW u, NEW kind \in AttestedKinds, Attest(u, r, kind) PROVE Store'
  <2>1. kind \notin TraineeKinds /\ u # Trainee(r) /\ RecordAck(r, kind, u)
    BY <1>5, ArchivesAssumption DEF Attest
  <2> QED BY <1>1, <2>1, AcksKept
<1>6. CASE UNCHANGED storeVars
  <2>1. UNCHANGED <<sealed, amendments, acks>> /\ Stored' = Stored
    BY <1>6 DEF storeVars, Stored
  <2> QED BY <2>1 DEF Store
<1>7. \/ \E r \in Records :
           \/ Finalize(r) \/ Amend(r)
           \/ \E kind \in TraineeKinds : Acknowledge(r, kind)
           \/ \E u \in Attesters, kind \in AttestedKinds : Attest(u, r, kind)
      \/ UNCHANGED storeVars
  BY DEF Next, vars, storeVars, Request, Audit, List, WriteUnit, Finish, End
<1> QED BY <1>2, <1>3, <1>4, <1>5, <1>6, <1>7


-----------------------------------------------------------------------------
(***************************************************************************)
(* An export in progress, while the database goes on changing.  What it    *)
(* will state is settled in the transaction that lists it, and from there  *)
(* on it is the archive it becomes once every listed unit is written.      *)
(***************************************************************************)

AllWritten(x) ==
  [state |-> "done", format |-> x.format, scope |-> x.scope,
   units |-> x.units, documents |-> x.documents, written |-> x.units]

Asks(x) ==
  /\ x = [state |-> x.state, format |-> x.format, scope |-> x.scope,
          units |-> x.units, documents |-> x.documents, written |-> x.written]
  /\ x.state \in {"asked", "audited", "listed", "done"}
  /\ x.format \in Formats /\ x.scope \in Scopes(x.format)

\* What has been written is what was listed, so far.
WrittenSoFar(x) ==
  /\ x.units \in Seq(UnitRows) /\ x.written \in Seq(UnitRows)
  /\ Len(x.written) <= Len(x.units)
  /\ \A i \in 1..Len(x.written) : x.written[i] = x.units[i]
  /\ x.state = "done" => x.written = x.units

ExportKept ==
  \/ export = NoOneAsks
  \/ /\ Asks(export)
     /\ export.state \in {"asked", "audited"} =>
          /\ export.written = <<>>
          /\ \A v \in held : v \in Stored /\ InScope(export.scope, v[1], v[2])
     /\ export.state = "audited" =>
          /\ export.format \in {"export", "installation"}
          /\ export.format = "export" => \E v \in Stored : InScope(export.scope, v[1], v[2])
     /\ export.state \in {"listed", "done"} =>
          /\ WrittenSoFar(export)
          /\ Verifies(ArchiveOf(AllWritten(export)))
          /\ DamageFound(ArchiveOf(AllWritten(export)))
          /\ held \subseteq Carried(ArchiveOf(AllWritten(export)))

ProductionInv == Store /\ ExportKept

LEMMA RequestKept ==
  ASSUME Store, NEW format \in Formats, NEW scope \in Scopes(format), Request(format, scope)
  PROVE  ExportKept'
<1>1. /\ export' = [state |-> "asked", format |-> format, scope |-> scope,
                    units |-> <<>>, documents |-> <<>>, written |-> <<>>]
      /\ held' = InScopeNow(scope) /\ Stored' = Stored
  BY DEF Request, storeVars, Stored
<1>2. \A v \in held' : v \in Stored' /\ InScope(export'.scope, v[1], v[2])
  BY <1>1, ScopeIsStored
<1>3. Asks(export') /\ export'.state = "asked" /\ export'.written = <<>>
  BY <1>1 DEF Asks
<1> QED BY <1>2, <1>3 DEF ExportKept

LEMMA AuditKept ==
  ASSUME ExportKept, Audit
  PROVE  ExportKept'
<1>1. Asks(export) /\ export.state = "asked" /\ Stored' = Stored
  BY DEF ExportKept, Audit, NoOneAsks, storeVars, Stored
<1>2. CASE NothingIsKept
  BY <1>2 DEF NothingIsKept, ExportKept
<1>3. CASE /\ export.format \in {"export", "installation"}
           /\ export.format = "installation" \/ InScopeNow(export.scope) # {}
           /\ Becomes("audited")
           /\ UNCHANGED held
  <2>1. /\ export'.state = "audited" /\ export'.format = export.format
        /\ export'.scope = export.scope /\ export'.written = export.written /\ Asks(export')
    BY <1>1, <1>3 DEF Becomes, Asks
  <2>2. \A v \in held' : v \in Stored' /\ InScope(export'.scope, v[1], v[2])
    BY <1>1, <1>3, <2>1 DEF ExportKept, NoOneAsks
  <2>3. export'.format = "export" => \E v \in Stored' : InScope(export'.scope, v[1], v[2])
    BY <1>1, <1>3, <2>1 DEF InScopeNow
  <2>4. export'.written = <<>>
    BY <1>1, <2>1 DEF ExportKept, NoOneAsks
  <2> QED BY <1>3, <2>1, <2>2, <2>3, <2>4 DEF ExportKept
<1> QED BY <1>2, <1>3 DEF Audit

LEMMA ListKept ==
  ASSUME Store, ExportKept, List
  PROVE  ExportKept'
<1> DEFINE format == export.format
           scope == export.scope
<1>1. /\ Asks(export) /\ export.state \in {"asked", "audited"}
      /\ export.state = "asked" => format = "packet"
      /\ export.written = <<>>
      /\ \A v \in held : v \in Stored /\ InScope(scope, v[1], v[2])
      /\ export.state = "audited" =>
          /\ export.format \in {"export", "installation"}
          /\ export.format = "export" => \E v \in Stored : InScope(export.scope, v[1], v[2])
  BY DEF ExportKept, List, NoOneAsks
<1>2. /\ export'.state = "listed" /\ export'.format = format /\ export'.scope = scope
      /\ export'.units = UnitsOf(scope) /\ export'.documents = Documents(format, scope)
      /\ export'.written = export.written
      /\ Asks(export') /\ held' = held
  BY <1>1 DEF List, Asks
<1>3. format \in Formats /\ scope \in Scopes(format)
  BY <1>1 DEF Asks
<1>4. AllWritten(export') = Stated(format, scope)
  BY <1>2 DEF AllWritten, Stated
<1>5. format = "export" => InScopeNow(scope) # {}
  BY <1>1 DEF InScopeNow
<1>6. held \subseteq InScopeNow(scope)
  BY <1>1 DEF InScopeNow
<1>7. UnitsOf(scope) \in Seq(UnitRows)
  BY UnitsAre
<1> HIDE DEF format, scope
<1>8. /\ Verifies(ArchiveOf(AllWritten(export')))
      /\ DamageFound(ArchiveOf(AllWritten(export')))
      /\ held' \subseteq Carried(ArchiveOf(AllWritten(export')))
  BY <1>2, <1>3, <1>4, <1>5, <1>6, EveryExportVerifies, EveryDamageIsFound
<1>9. WrittenSoFar(export')
  BY <1>1, <1>2, <1>7 DEF WrittenSoFar
<1> QED BY <1>2, <1>8, <1>9 DEF ExportKept


LEMMA WriteUnitKept ==
  ASSUME ExportKept, WriteUnit
  PROVE  ExportKept'
<1>1. Asks(export) /\ export.state = "listed" /\ WrittenSoFar(export)
  BY DEF ExportKept, WriteUnit, NoOneAsks
<1> DEFINE n == Len(export.written)
           e == export.units[n + 1]
<1>2. n \in Nat /\ n < Len(export.units) /\ e \in UnitRows /\ held' = held
  BY <1>1, ElementOfSeq DEF WriteUnit, WrittenSoFar
<1>3. /\ export'.written = Append(export.written, e)
      /\ export'.state = "listed" /\ export'.format = export.format
      /\ export'.scope = export.scope /\ export'.units = export.units
      /\ export'.documents = export.documents
      /\ Asks(export')
  BY <1>1 DEF WriteUnit, Asks
<1>4. AllWritten(export') = AllWritten(export)
  BY <1>3 DEF AllWritten
<1>5. WrittenSoFar(export')
  <2>1. /\ export'.written \in Seq(UnitRows) /\ Len(export'.written) = n + 1
        /\ \A i \in 1..n : export'.written[i] = export.written[i]
        /\ export'.written[n + 1] = e
    BY <1>1, <1>2, <1>3, AppendProperties DEF WrittenSoFar
  <2>2. n + 1 <= Len(export'.units)
    BY <1>1, <1>2, <1>3 DEF WrittenSoFar
  <2>3. \A i \in 1..(n + 1) : export'.written[i] = export'.units[i]
    BY <1>1, <1>2, <1>3, <2>1 DEF WrittenSoFar
  <2> QED BY <1>1, <1>3, <2>1, <2>2, <2>3 DEF WrittenSoFar
<1> HIDE DEF n, e
<1> QED BY <1>1, <1>2, <1>3, <1>4, <1>5 DEF ExportKept, NoOneAsks

LEMMA FinishKept ==
  ASSUME ExportKept, Finish
  PROVE  ExportKept'
<1>1. Asks(export) /\ export.state = "listed" /\ WrittenSoFar(export) /\ held' = held
  BY DEF ExportKept, Finish, NoOneAsks
<1>2. /\ export'.state = "done" /\ export'.format = export.format
      /\ export'.scope = export.scope /\ export'.units = export.units
      /\ export'.documents = export.documents /\ export'.written = export.written
      /\ Asks(export')
  BY <1>1 DEF Finish, Becomes, Asks
<1>3. AllWritten(export') = AllWritten(export)
  BY <1>2 DEF AllWritten
<1>4. export.written = export.units
  <2>1. Len(export.written) = Len(export.units)
    BY DEF Finish
  <2> QED BY <1>1, <2>1, SeqEqual DEF WrittenSoFar
<1>5. WrittenSoFar(export')
  BY <1>1, <1>2, <1>4 DEF WrittenSoFar
<1> QED BY <1>1, <1>2, <1>3, <1>5 DEF ExportKept, NoOneAsks

LEMMA ExportStandsStill ==
  ASSUME ExportKept, Stored \subseteq Stored', UNCHANGED <<export, held>>
  PROVE  ExportKept'
<1>1. CASE export = NoOneAsks
  BY <1>1 DEF ExportKept
<1>2. CASE export # NoOneAsks
  <2>1. /\ export.state \in {"asked", "audited"} =>
             \A v \in held' : v \in Stored' /\ InScope(export'.scope, v[1], v[2])
        /\ export.state = "audited" /\ export.format = "export" =>
             \E v \in Stored' : InScope(export'.scope, v[1], v[2])
    BY <1>2 DEF ExportKept
  <2> QED BY <1>2, <2>1 DEF ExportKept
<1> QED BY <1>1, <1>2

LEMMA ProductionInvInitially == Init => ProductionInv
BY StoreInitially DEF ProductionInv, ExportKept, Init

LEMMA ProductionInvKept == ProductionInv /\ [Next]_vars => ProductionInv'
<1> SUFFICES ASSUME ProductionInv, [Next]_vars PROVE ProductionInv'
  OBVIOUS
<1>1. Store /\ ExportKept /\ Store' /\ Stored \subseteq Stored'
  BY StoreKept, VersionsStay DEF ProductionInv
<1>2. ASSUME NEW format \in Formats, NEW scope \in Scopes(format), Request(format, scope)
      PROVE  ExportKept'
  BY <1>1, <1>2, RequestKept
<1>3. ASSUME Audit PROVE ExportKept'
  BY <1>1, <1>3, AuditKept
<1>4. ASSUME List PROVE ExportKept'
  BY <1>1, <1>4, ListKept
<1>5. ASSUME WriteUnit PROVE ExportKept'
  BY <1>1, <1>5, WriteUnitKept
<1>6. ASSUME Finish PROVE ExportKept'
  BY <1>1, <1>6, FinishKept
<1>7. ASSUME End PROVE ExportKept'
  BY <1>7 DEF End, NothingIsKept, ExportKept
<1>8. ASSUME UNCHANGED <<export, held>> PROVE ExportKept'
  BY <1>1, <1>8, ExportStandsStill
<1>9. \/ \E format \in Formats : \E scope \in Scopes(format) : Request(format, scope)
      \/ Audit \/ List \/ WriteUnit \/ Finish \/ End
      \/ UNCHANGED <<export, held>>
  BY DEF Next, vars, Finalize, Amend, Acknowledge, Attest, RecordAck
<1> QED BY <1>1, <1>2, <1>3, <1>4, <1>5, <1>6, <1>7, <1>8, <1>9 DEF ProductionInv

LEMMA DoneIsWritten ==
  ASSUME ProductionInv, export.state = "done"
  PROVE  /\ Verifies(Archive) /\ held \subseteq Carried(Archive)
         /\ DamageFound(Archive)
<1>1. /\ Asks(export) /\ WrittenSoFar(export)
      /\ Verifies(ArchiveOf(AllWritten(export)))
      /\ DamageFound(ArchiveOf(AllWritten(export)))
      /\ held \subseteq Carried(ArchiveOf(AllWritten(export)))
  BY DEF ProductionInv, ExportKept, NoOneAsks
<1>2. AllWritten(export) = export
  BY <1>1 DEF AllWritten, Asks, WrittenSoFar
<1> QED BY <1>1, <1>2 DEF Archive

\* Every archive an export, a packet or an installation export ends with verifies
\* offline and carries every version that was in its scope when it was asked for,
\* whatever was finalized, amended or acknowledged in between (export_to,
\* collect_meta and write_units_streaming against verify_archive): for any number
\* of records, versions and acknowledgments.
THEOREM ExportsComplete == Spec => []ExportsAreComplete
<1>1. Spec => []ProductionInv
  BY ProductionInvInitially, ProductionInvKept, PTL DEF Spec
<1>2. ProductionInv => ExportsAreComplete
  BY DoneIsWritten DEF ExportsAreComplete
<1> QED BY <1>1, <1>2, PTL

\* The offline verifier finds whatever was taken out of a finished archive, added to
\* it, repeated or exchanged within it, and a unit missing from a packet or from an
\* installation export as long as anything else there speaks of it (verify_archive
\* against a producer's output): for any number of records, versions and
\* acknowledgments.
THEOREM DamageNeverPasses == Spec => []DamageIsFound
<1>1. Spec => []ProductionInv
  BY ProductionInvInitially, ProductionInvKept, PTL DEF Spec
<1>2. ProductionInv => DamageIsFound
  BY DoneIsWritten DEF DamageIsFound, DamageFound
<1> QED BY <1>1, <1>2, PTL

-----------------------------------------------------------------------------
(***************************************************************************)
(* Delivery.                                                               *)
(***************************************************************************)
\* The states a producer passes once its export is audited, and once it is listed.
Audited == {"audited", "read", "writing", "flushed"}
Listed == {"read", "writing", "flushed"}

\* A request nobody made has no producer, and a receiver is open for as long as its
\* handler waits or streams.
HandlerKept(r) ==
  /\ handler[r] = "idle" => producer[r] = "none"
  /\ body[r].open <=> handler[r] \in {"waiting", "streaming"}

\* Where the chunks are: received, queued before an open receiver, or lost with a
\* receiver that closed.
ChunksKept(r) ==
  /\ archive[r].received + body[r].queued <= archive[r].sent
  /\ body[r].open => archive[r].received + body[r].queued = archive[r].sent
  /\ producer[r] \in Preparing \union {"none"} => archive[r].sent = 0
  /\ achieved[r] => producer[r] \in {"flushed", "ended"} /\ archive[r].sent = Length(r)

\* What was true before the first of them left.
Grounds(r) ==
  /\ producer[r] \in Audited =>
       audited[r] /\ (archive[r].kind = "records" => finalized > 0)
  /\ producer[r] \in Listed => (archive[r].kind = "records" => archive[r].listed > 0)
  /\ archive[r].sent > 0 =>
       audited[r] /\ (archive[r].kind = "records" => archive[r].listed > 0)

Whole(r) ==
  handler[r] = "whole" => producer[r] = "ended" /\ archive[r].received = Length(r)

Kept(r) == HandlerKept(r) /\ ChunksKept(r) /\ Grounds(r) /\ Whole(r)

DeliveryInv ==
  /\ DeliveryTypeOK
  /\ \A r \in Requests : Kept(r)

LEMMA InvInitially == DeliveryInit => DeliveryInv
BY DeliveryAssumption
DEF DeliveryInit, DeliveryInv, Kept, DeliveryTypeOK, HandlerKept, ChunksKept, Grounds, Whole, NoArchive,
    Progress, Bodies, ClosedBody, Kinds, HandlerStates, Ended, ProducerStates, Preparing, Audited, Listed

LEMMA RequestTypes ==
  ASSUME DeliveryTypeOK, NEW r \in Requests
  PROVE  /\ body[r] \in Bodies
         /\ archive[r] \in Progress
         /\ archive[r].sent \in Nat /\ archive[r].received \in Nat /\ archive[r].listed \in Nat
         /\ body[r].queued \in Nat /\ body[r].open \in BOOLEAN
         /\ finalized \in Nat
         /\ MaxFinalized \in Nat /\ BODY_CHUNKS \in Nat
BY DeliveryAssumption DEF DeliveryTypeOK, Bodies, Progress

LEMMA BodyUpdates ==
  ASSUME NEW b \in Bodies
  PROVE  /\ ClosedBody \in Bodies
         /\ [b EXCEPT !.open = TRUE] \in Bodies
         /\ [b EXCEPT !.signal = TRUE] \in Bodies
         /\ b.queued < BODY_CHUNKS => [b EXCEPT !.queued = b.queued + 1] \in Bodies
         /\ b.queued > 0 => [b EXCEPT !.queued = b.queued - 1] \in Bodies
<1> USE DeliveryAssumption DEF Bodies
<1>1. 0 \in 0..BODY_CHUNKS /\ b.queued \in 0..BODY_CHUNKS
  OBVIOUS
<1>2. ClosedBody \in Bodies
  BY <1>1 DEF ClosedBody
<1>3. [b EXCEPT !.open = TRUE] \in Bodies /\ [b EXCEPT !.signal = TRUE] \in Bodies
  OBVIOUS
<1>4. ASSUME b.queued < BODY_CHUNKS PROVE [b EXCEPT !.queued = b.queued + 1] \in Bodies
  <2>1. b.queued + 1 \in 0..BODY_CHUNKS
    BY <1>1, <1>4
  <2> QED BY <2>1
<1>5. ASSUME b.queued > 0 PROVE [b EXCEPT !.queued = b.queued - 1] \in Bodies
  <2>1. b.queued - 1 \in 0..BODY_CHUNKS
    BY <1>1, <1>5
  <2> QED BY <2>1
<1> QED BY <1>2, <1>3, <1>4, <1>5

LEMMA ProgressUpdates ==
  ASSUME NEW a \in Progress, NEW kind \in Kinds, NEW n \in Nat
  PROVE  /\ [a EXCEPT !.kind = kind] \in Progress
         /\ [a EXCEPT !.listed = n] \in Progress
         /\ [a EXCEPT !.sent = a.sent + 1] \in Progress
         /\ [a EXCEPT !.received = a.received + 1] \in Progress
BY DEF Progress

LEMMA TypesKept ==
  ASSUME DeliveryTypeOK, DeliveryNext PROVE DeliveryTypeOK'
<1> USE DEF DeliveryTypeOK
<1>1. ASSUME NEW r \in Requests, NEW kind \in Kinds, Deliver(r, kind) PROVE DeliveryTypeOK'
  <2>1. [body[r] EXCEPT !.open = TRUE] \in Bodies
    BY BodyUpdates
  <2>2. [archive[r] EXCEPT !.kind = kind] \in Progress
    BY ProgressUpdates
  <2>3. handler' \in [Requests -> HandlerStates] /\ producer' \in [Requests -> ProducerStates]
    BY <1>1 DEF Deliver, Goes, HandlerStates, Ended, ProducerStates, Preparing
  <2>4. body' \in [Requests -> Bodies] /\ archive' \in [Requests -> Progress]
    BY <1>1, <2>1, <2>2 DEF Deliver
  <2> QED BY <1>1, <2>3, <2>4 DEF Deliver
<1>2. ASSUME NEW r \in Requests, Prepare(r) \/ Fails(r) \/ Panic(r) PROVE DeliveryTypeOK'
  <2>1. CASE Authorize(r) \/ AuditExport(r) \/ Ready(r) \/ Abandons(r) \/ Fails(r) \/ Panic(r)
    BY <2>1
    DEF Authorize, AuditExport, Ready, Abandons, Fails, Panic, Goes, PreparationVars,
        ProducerStates, Preparing
  <2>2. CASE ReadMetadata(r)
    <3>1. [archive[r] EXCEPT !.listed = finalized] \in Progress
      BY ProgressUpdates, RequestTypes DEF Kinds
    <3> QED
      BY <2>2, <3>1 DEF ReadMetadata, Goes, PreparationVars, ProducerStates, Preparing
  <2> QED BY <1>2, <2>1, <2>2 DEF Prepare
<1>3. ASSUME NEW r \in Requests, Send(r) PROVE DeliveryTypeOK'
  <2>1. CASE Goes(r, "gone") /\ UNCHANGED <<body, archive>>
    BY <1>3, <2>1 DEF Send, Goes, ProducerStates
  <2>2. CASE /\ QueueLength(r) < BODY_CHUNKS
             /\ body' = [body EXCEPT ![r].queued = @ + 1]
             /\ archive' = [archive EXCEPT ![r].sent = @ + 1]
             /\ UNCHANGED producer
    <3>1. body[r].queued < BODY_CHUNKS
      BY <2>2, RequestTypes DEF QueueLength
    <3>2. [body[r] EXCEPT !.queued = body[r].queued + 1] \in Bodies
      BY <3>1, BodyUpdates
    <3>3. [archive[r] EXCEPT !.sent = archive[r].sent + 1] \in Progress
      BY ProgressUpdates DEF Kinds
    <3> QED BY <1>3, <2>2, <3>2, <3>3 DEF Send
  <2> QED BY <1>3, <2>1, <2>2 DEF Send
<1>4. ASSUME NEW r \in Requests, Stall(r) \/ Complete(r) \/ Signal(r) \/ EndProducer(r)
      PROVE DeliveryTypeOK'
  <2>1. [body[r] EXCEPT !.signal = TRUE] \in Bodies
    BY BodyUpdates
  <2>2. Answered(r) \in {"unsent", "ready", "refused"}
    BY DEF Answered
  <2> QED
    BY <1>4, <2>1, <2>2
    DEF Stall, Complete, Signal, EndProducer, Goes, PreparationVars, ProducerStates
<1>5. ASSUME NEW r \in Requests, Answer(r) \/ Leave(r) PROVE DeliveryTypeOK'
  <2>1. ClosedBody \in Bodies
    BY BodyUpdates
  <2> QED
    BY <1>5, <2>1
    DEF Answer, Respond, Refuse, GiveUp, Leave, AnswersWith, HandlerStates, Ended
<1>6. ASSUME NEW r \in Requests, Read(r) PROVE DeliveryTypeOK'
  <2>1. CASE PollSignal(r) \/ PollEnd(r)
    <3>1. ClosedBody \in Bodies
      BY BodyUpdates
    <3> QED BY <2>1, <3>1 DEF PollSignal, PollEnd, AnswersWith, HandlerStates, Ended
  <2>2. CASE PollChunk(r)
    <3>1. [body[r] EXCEPT !.queued = body[r].queued - 1] \in Bodies
      BY <2>2, BodyUpdates DEF PollChunk
    <3>2. [archive[r] EXCEPT !.received = archive[r].received + 1] \in Progress
      BY ProgressUpdates DEF Kinds
    <3> QED BY <2>2, <3>1, <3>2 DEF PollChunk
  <2> QED BY <1>6, <2>1, <2>2 DEF Read
<1>7. CASE FinalizeMeanwhile
  BY <1>7, DeliveryAssumption DEF FinalizeMeanwhile
<1> QED
  BY <1>1, <1>2, <1>3, <1>4, <1>5, <1>6, <1>7 DEF DeliveryNext, Produce

\* A step of one request leaves what is said of the others.
LEMMA OthersKept ==
  ASSUME DeliveryInv, NEW q \in Requests,
         finalized' = finalized,
         handler'[q] = handler[q], producer'[q] = producer[q], body'[q] = body[q],
         archive'[q] = archive[q], achieved'[q] = achieved[q], audited'[q] = audited[q]
  PROVE  Kept(q)'
BY DEF DeliveryInv, Kept, HandlerKept, ChunksKept, Grounds, Whole, Length

RequestStep(r) ==
  \/ \E kind \in Kinds : Deliver(r, kind)
  \/ Produce(r) \/ Fails(r) \/ Panic(r) \/ Answer(r) \/ Read(r) \/ Leave(r)

LEMMA StepsAreLocal ==
  ASSUME DeliveryTypeOK, NEW r \in Requests, RequestStep(r), NEW q \in Requests, q # r
  PROVE  /\ finalized' = finalized
         /\ handler'[q] = handler[q] /\ producer'[q] = producer[q]
         /\ body'[q] = body[q] /\ archive'[q] = archive[q]
         /\ achieved'[q] = achieved[q] /\ audited'[q] = audited[q]
<1> USE DEF DeliveryTypeOK, Goes, PreparationVars, AnswersWith
<1>1. CASE \E kind \in Kinds : Deliver(r, kind)
  BY <1>1 DEF Deliver
<1>2. CASE Authorize(r) \/ AuditExport(r) \/ ReadMetadata(r) \/ Ready(r) \/ Abandons(r)
  BY <1>2 DEF Authorize, AuditExport, ReadMetadata, Ready, Abandons
<1>3. CASE Send(r)
  BY <1>3 DEF Send
<1>4. CASE Stall(r) \/ Complete(r) \/ Signal(r) \/ EndProducer(r) \/ Fails(r) \/ Panic(r)
  BY <1>4 DEF Stall, Complete, Signal, EndProducer, Fails, Panic
<1>5. CASE Answer(r) \/ Leave(r)
  BY <1>5 DEF Answer, Respond, Refuse, GiveUp, Leave
<1>6. CASE Read(r)
  BY <1>6 DEF Read, PollChunk, PollSignal, PollEnd
<1> QED
  BY <1>1, <1>2, <1>3, <1>4, <1>5, <1>6 DEF RequestStep, Produce, Prepare

\* What a step of a request keeps of it, one action at a time.
LEMMA StepsKeepTheirs ==
  ASSUME DeliveryInv, NEW r \in Requests, RequestStep(r)
  PROVE  Kept(r)'
<1>t. DeliveryTypeOK /\ Kept(r)
  BY DEF DeliveryInv
<1>f. /\ body[r] \in Bodies /\ archive[r] \in Progress
      /\ archive[r].sent \in Nat /\ archive[r].received \in Nat /\ archive[r].listed \in Nat
      /\ body[r].queued \in Nat /\ finalized \in Nat
  BY <1>t, RequestTypes
<1> USE <1>t DEF Kept, HandlerKept, ChunksKept, Grounds, Whole, Length, Preparing, Audited, Listed
\* What an answer leaves: the body closed, and the rest of the request as it was.
<1>a. ASSUME NEW answer, AnswersWith(r, answer)
      PROVE  /\ handler'[r] = answer /\ ~body'[r].open /\ body'[r].queued = 0
             /\ finalized' = finalized /\ producer' = producer /\ archive' = archive
             /\ achieved' = achieved /\ audited' = audited
  <2>1. body'[r] = ClosedBody /\ handler'[r] = answer
    BY <1>a DEF AnswersWith, DeliveryTypeOK
  <2> QED BY <1>a, <2>1 DEF AnswersWith, ClosedBody
<1>c. ASSUME NEW answer \in {"refused", "failed", "broken", "left"},
             handler[r] \in {"waiting", "streaming"}, AnswersWith(r, answer)
      PROVE  Kept(r)'
  BY <1>a, <1>c, <1>f
<1>1. CASE \E kind \in Kinds : Deliver(r, kind)
  <2>1. PICK kind \in Kinds : Deliver(r, kind)
    BY <1>1
  <2>2. handler[r] = "idle" /\ producer[r] = "none" /\ archive[r].sent = 0
    BY <2>1 DEF Deliver
  <2>3. CASE /\ handler'[r] = "busy"
             /\ UNCHANGED <<producer, body, archive, finalized, achieved, audited>>
    BY <2>2, <2>3
  <2>4. CASE /\ handler'[r] = "waiting" /\ producer'[r] = "asked"
             /\ body'[r] = [body[r] EXCEPT !.open = TRUE]
             /\ archive'[r] = [archive[r] EXCEPT !.kind = kind]
             /\ UNCHANGED <<finalized, achieved, audited>>
    <3>1. /\ body'[r].open /\ body'[r].queued = body[r].queued
          /\ archive'[r].sent = archive[r].sent
          /\ archive'[r].received = archive[r].received
          /\ archive'[r].listed = archive[r].listed
      BY <2>4, <1>f DEF Bodies, Progress
    <3>2. ~achieved'[r] /\ handler'[r] = "waiting" /\ producer'[r] = "asked"
      BY <2>2, <2>4
    <3>3. archive'[r].sent = 0 /\ archive'[r].received = 0 /\ body'[r].queued = 0
      <4>1. archive[r].received + body[r].queued <= 0
        BY <2>2
      <4>2. archive[r].received = 0 /\ body[r].queued = 0
        BY <4>1, <1>f
      <4> QED BY <2>2, <3>1, <4>2
    <3> QED BY <3>1, <3>2, <3>3
  <2> QED BY <2>1, <2>3, <2>4 DEF Deliver, Goes, DeliveryTypeOK
<1>2. CASE Authorize(r)
  BY <1>2, <1>f DEF Authorize, Goes, PreparationVars, DeliveryTypeOK
<1>3. CASE AuditExport(r)
  BY <1>3, <1>f DEF AuditExport, Goes, PreparationVars, DeliveryTypeOK
<1>4. CASE ReadMetadata(r)
  BY <1>4, <1>f DEF ReadMetadata, Goes, PreparationVars, DeliveryTypeOK
<1>5. CASE Ready(r)
  BY <1>5, <1>f DEF Ready, Goes, DeliveryTypeOK
<1>6. CASE Abandons(r)
  BY <1>6, <1>f DEF Abandons, Goes, PreparationVars, DeliveryTypeOK
<1>7. CASE Send(r)
  <2>1. /\ producer[r] = "writing" /\ archive[r].sent < Length(r)
        /\ handler' = handler /\ finalized' = finalized
        /\ achieved' = achieved /\ audited' = audited
    BY <1>7 DEF Send
  <2>2. CASE producer'[r] = "gone" /\ body' = body /\ archive' = archive
    BY <2>1, <2>2
  <2>3. CASE /\ producer' = producer
             /\ body'[r] = [body[r] EXCEPT !.queued = body[r].queued + 1]
             /\ archive'[r] = [archive[r] EXCEPT !.sent = archive[r].sent + 1]
    <3>1. /\ body'[r].open = body[r].open /\ body'[r].queued = body[r].queued + 1
          /\ archive'[r].kind = archive[r].kind
          /\ archive'[r].sent = archive[r].sent + 1
          /\ archive'[r].received = archive[r].received
          /\ archive'[r].listed = archive[r].listed
      BY <2>3, <1>f DEF Bodies, Progress
    <3> QED BY <2>1, <2>3, <3>1, <1>f
  <2> QED BY <1>7, <2>2, <2>3 DEF Send, Goes, DeliveryTypeOK
<1>8. CASE Stall(r)
  BY <1>8, <1>f DEF Stall, Goes, PreparationVars, DeliveryTypeOK
<1>9. CASE Complete(r)
  BY <1>9, <1>f DEF Complete, Goes, DeliveryTypeOK
<1>10. CASE Signal(r)
  <2>1. /\ producer[r] = "failed" /\ producer'[r] = "ended"
        /\ handler' = handler /\ finalized' = finalized /\ archive' = archive
        /\ achieved' = achieved /\ audited' = audited
    BY <1>10 DEF Signal, Goes, DeliveryTypeOK
  <2>2. body'[r].open = body[r].open /\ body'[r].queued = body[r].queued
    <3>1. body' = body \/ body'[r] = [body[r] EXCEPT !.signal = TRUE]
      BY <1>10 DEF Signal, DeliveryTypeOK
    <3> QED BY <3>1, <1>f DEF Bodies
  <2> QED BY <2>1, <2>2, <1>f
<1>11. CASE EndProducer(r)
  BY <1>11, <1>f DEF EndProducer, Goes, DeliveryTypeOK
<1>12. CASE Fails(r)
  BY <1>12, <1>f DEF Fails, Goes, PreparationVars, DeliveryTypeOK
<1>13. CASE Panic(r)
  BY <1>13, <1>f DEF Panic, Goes, PreparationVars, DeliveryTypeOK
<1>14. CASE Respond(r)
  BY <1>14, <1>f DEF Respond, DeliveryTypeOK
<1>15. CASE Refuse(r)
  BY <1>15, <1>c DEF Refuse
<1>16. CASE GiveUp(r)
  BY <1>16, <1>c DEF GiveUp
<1>17. CASE Leave(r)
  BY <1>17, <1>c DEF Leave
<1>18. CASE PollChunk(r)
  BY <1>18, <1>f DEF PollChunk, DeliveryTypeOK
<1>19. CASE PollSignal(r)
  BY <1>19, <1>c DEF PollSignal
<1>20. CASE PollEnd(r)
  <2>1. /\ AnswersWith(r, IF achieved[r] THEN "whole" ELSE "broken")
        /\ body[r].queued = 0 /\ body[r].open /\ producer[r] = "ended"
    BY <1>20, <1>f DEF PollEnd, QueueLength
  <2>2. CASE achieved[r]
    <3>1. AnswersWith(r, "whole") /\ archive[r].received = Length(r)
      BY <2>1, <2>2, <1>f
    <3> QED BY <2>1, <2>2, <3>1, <1>a, <1>f
  <2>3. CASE ~achieved[r]
    <3>1. AnswersWith(r, "broken") /\ handler[r] = "streaming"
      BY <1>20, <2>1, <2>3 DEF PollEnd
    <3> QED BY <3>1, <1>c
  <2> QED BY <2>2, <2>3
<1> QED
  BY <1>1, <1>2, <1>3, <1>4, <1>5, <1>6, <1>7, <1>8, <1>9, <1>10, <1>11, <1>12, <1>13,
     <1>14, <1>15, <1>16, <1>17, <1>18, <1>19, <1>20
  DEF RequestStep, Produce, Prepare, Answer, Read

LEMMA StepsKeepInv ==
  ASSUME DeliveryInv, DeliveryNext PROVE DeliveryInv'
<1>1. DeliveryTypeOK'
  BY TypesKept DEF DeliveryInv
<1>2. ASSUME NEW r \in Requests, RequestStep(r), NEW q \in Requests PROVE Kept(q)'
  <2>1. CASE q = r
    BY <1>2, <2>1, StepsKeepTheirs
  <2>2. CASE q # r
    BY <1>2, <2>2, StepsAreLocal, OthersKept DEF DeliveryInv
  <2> QED BY <2>1, <2>2
<1>3. ASSUME FinalizeMeanwhile, NEW q \in Requests PROVE Kept(q)'
  BY <1>3, RequestTypes
  DEF FinalizeMeanwhile, DeliveryInv, DeliveryTypeOK, Kept, HandlerKept, ChunksKept, Grounds, Whole, Length
<1> QED
  BY <1>1, <1>2, <1>3 DEF DeliveryNext, RequestStep, DeliveryInv

LEMMA InvKept == DeliveryInv /\ [DeliveryNext]_deliveryVars => DeliveryInv'
<1> SUFFICES ASSUME DeliveryInv, [DeliveryNext]_deliveryVars PROVE DeliveryInv'
  OBVIOUS
<1>1. CASE DeliveryNext
  BY <1>1, StepsKeepInv
<1>2. CASE UNCHANGED deliveryVars
  BY <1>2
  DEF deliveryVars, DeliveryInv, Kept, DeliveryTypeOK, HandlerKept, ChunksKept, Grounds, Whole, Length
<1> QED BY <1>1, <1>2

LEMMA InvDelivers == DeliveryInv => WholeIsComplete
<1> SUFFICES ASSUME DeliveryInv, NEW r \in Requests
             PROVE  /\ handler[r] = "whole" => archive[r].received = Length(r)
                    /\ archive[r].received > 0 =>
                         audited[r] /\ (archive[r].kind = "records" => archive[r].listed > 0)
  BY DEF WholeIsComplete
<1> QED BY RequestTypes DEF DeliveryInv, Kept, ChunksKept, Grounds, Whole

\* The rows of the delivery keep their types: no queue outgrows BODY_CHUNKS (the
\* bounded channel of deliver).
THEOREM DeliveryTypesHold == DeliverySpec => []DeliveryTypeOK
<1>1. DeliveryInv => DeliveryTypeOK
  BY DEF DeliveryInv
<1> QED BY <1>1, InvInitially, InvKept, PTL DEF DeliverySpec

\* A download that ends cleanly is whole and was audited (ExportBody::poll_frame),
\* for every number of requests, slots, chunks and versions, and with no fairness.
THEOREM WholeDownloadsAreComplete == DeliverySpec => []WholeIsComplete
BY InvInitially, InvKept, InvDelivers, PTL DEF DeliverySpec
===============================================================================
