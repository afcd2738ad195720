------------------------------- MODULE Archives -------------------------------
(***************************************************************************)
(* What an exported archive is and what the offline verifier says of one:  *)
(* the record export (record_export.rs, export_verify.rs), the trainee     *)
(* packet (trainee_packet.rs, packet_verify.rs) and the installation       *)
(* export (installation_export/, installation_verify.rs).                  *)
(*                                                                         *)
(* An archive is a manifest and the entries beside it, in the order of the *)
(* container's directory.  The manifest lists units, one per finalized     *)
(* version, each with its hashes, and documents, each with its hash.  A    *)
(* verifier has nothing else: no database and no key.  Findings are not    *)
(* told apart: an archive verifies or it does not.                         *)
(***************************************************************************)
EXTENDS Integers, Sequences, FiniteSets, SequencesExt

CONSTANTS
  Records,       \* evaluation_record ids
  Enrollments,
  EnrollmentOf,  \* the enrollment of each record
  TraineeOf,     \* the trainee of each enrollment
  Attesters,     \* users with review_evaluation
  TraineeKinds,  \* the kinds of acknowledgment a trainee gives
  AttestedKinds, \* the kinds someone else records about them
  MaxNumber      \* bound: versions of one record

ASSUME ArchivesAssumption ==
  /\ MaxNumber \in Nat
  /\ IsFiniteSet(Records) /\ Records = 1..Cardinality(Records)
  /\ Enrollments \subseteq Nat \ {0}
  /\ EnrollmentOf \in [Records -> Enrollments]
  /\ TraineeKinds \intersect AttestedKinds = {}

Trainee(r) == TraineeOf[EnrollmentOf[r]]
AckKinds == TraineeKinds \union AttestedKinds

(***************************************************************************)
(* Bytes and hashes.  SHA-256 is taken to be injective.  An optional member *)
(* is a sequence: empty for null.                                          *)
(***************************************************************************)
Hash(bytes) == <<"content", bytes>>
ChainHash(predecessor, bytes) == <<"chain", predecessor, bytes>>

\* The envelope of a record's n-th version: its identity, its trainee and the
\* content hash of its predecessor.
Envelopes[v \in Records \X (1..MaxNumber)] ==
  [record |-> v[1], number |-> v[2], trainee |-> Trainee(v[1]),
   predecessor |-> IF v[2] = 1 THEN <<>> ELSE <<Hash(Envelopes[<<v[1], v[2] - 1>>])>>]
Envelope(r, n) == Envelopes[<<r, n>>]

\* Bytes that are no envelope at all.
Garbage == [record |-> 0, number |-> 0, trainee |-> "none", predecessor |-> <<>>]

(***************************************************************************)
(* Entries.                                                                *)
(***************************************************************************)
PathOf(what, r, n) == [what |-> what, record |-> r, number |-> n]
RecordPath(path) == PathOf("record.json", path[1], path[2])
UnitManifestPath(path) == PathOf("manifest.json", path[1], path[2])
DocumentPath(name) == PathOf(name, 0, 0)

Entry(path, bytes) == [path |-> path, bytes |-> bytes]

\* unit_path.
unit_path(r, n) == <<r, n>>

UnitEntry(r, n) ==
  LET bytes == Envelope(r, n)
  IN  [path |-> unit_path(r, n), record |-> r, number |-> n,
       content_hash |-> Hash(bytes),
       chain_hash |-> ChainHash(bytes.predecessor, bytes),
       predecessor_content_hash |-> bytes.predecessor]

UnitManifest(at, e) ==
  [exported_at |-> at, record |-> e.record, number |-> e.number,
   content_hash |-> e.content_hash, chain_hash |-> e.chain_hash,
   predecessor_content_hash |-> e.predecessor_content_hash]

\* What a producer writes for one unit.
UnitEntries(at, e) ==
  <<Entry(RecordPath(e.path), Envelope(e.record, e.number)),
    Entry(UnitManifestPath(e.path), UnitManifest(at, e))>>

DocumentEntry(name, rows) == [name |-> name, path |-> DocumentPath(name), sha256 |-> Hash(rows)]

(***************************************************************************)
(* Scopes.                                                                 *)
(***************************************************************************)
VersionScope(r, n) == [kind |-> "version", record |-> r, number |-> n, enrollment |-> 0]
RecordScope(r) == [kind |-> "record", record |-> r, number |-> 0, enrollment |-> 0]
EnrollmentScope(e) == [kind |-> "enrollment", record |-> 0, number |-> 0, enrollment |-> e]
InstallationScope == [kind |-> "installation", record |-> 0, number |-> 0, enrollment |-> 0]

InScope(scope, r, n) ==
  CASE scope.kind = "version" -> r = scope.record /\ n = scope.number
    [] scope.kind = "record" -> r = scope.record
    [] scope.kind = "enrollment" -> EnrollmentOf[r] = scope.enrollment
    [] scope.kind = "installation" -> TRUE

\* The ORDER BY of every reader: each version at its rank.
Earlier(u, v) == u[1] < v[1] \/ (u[1] = v[1] /\ u[2] < v[2])
Sorted(versions) ==
  [i \in 1..Cardinality(versions) |->
     CHOOSE v \in versions : Cardinality({u \in versions : Earlier(u, v)}) = i - 1]

(***************************************************************************)
(* Reading an archive.                                                     *)
(***************************************************************************)
Ascending(s) == \A i \in 1..(Len(s) - 1) : Earlier(s[i], s[i + 1])

Paths(a) == {a.entries[i].path : i \in DOMAIN a.entries}
EntryAt(a, path) ==
  a.entries[CHOOSE i \in DOMAIN a.entries :
              a.entries[i].path = path /\ \A j \in DOMAIN a.entries :
                a.entries[j].path = path => j <= i].bytes

NoDuplicates(a) ==
  \A i, j \in DOMAIN a.entries : a.entries[i].path = a.entries[j].path => i = j

(***************************************************************************)
(* Units: verify_units and verify_unit.                                    *)
(***************************************************************************)
\* A link to the version before: carried and equal, or not carried.
Previous(a, e) ==
  {p \in ToSet(a.manifest.units) : p.record = e.record /\ p.number = e.number - 1}
NotInExport(a, e) == e.predecessor_content_hash # <<>> /\ Previous(a, e) = {}

EnvelopeAgrees(bytes, e) ==
  /\ bytes.record = e.record
  /\ bytes.number = e.number
  /\ bytes.predecessor = e.predecessor_content_hash

\* Variant: a unit's bytes are taken as its manifest describes them.
UnitVerifiesByManifest(a, e) ==
  /\ {RecordPath(e.path), UnitManifestPath(e.path)} \subseteq Paths(a)
  /\ EntryAt(a, UnitManifestPath(e.path)) = UnitManifest(a.manifest.exported_at, e)
  /\ (e.number = 1) = (e.predecessor_content_hash = <<>>)

UnitVerifies(a, e) ==
  /\ {RecordPath(e.path), UnitManifestPath(e.path)} \subseteq Paths(a)
  /\ EntryAt(a, UnitManifestPath(e.path)) = UnitManifest(a.manifest.exported_at, e)
  /\ LET bytes == EntryAt(a, RecordPath(e.path))
     IN  /\ Hash(bytes) = e.content_hash
         /\ bytes # Garbage
         /\ EnvelopeAgrees(bytes, e)
         /\ ChainHash(e.predecessor_content_hash, bytes) = e.chain_hash
  /\ e.record >= 1 /\ e.number >= 1
  /\ (e.number = 1) = (e.predecessor_content_hash = <<>>)
  /\ \A p \in Previous(a, e) : e.predecessor_content_hash = <<p.content_hash>>

Identities(a) == [i \in DOMAIN a.manifest.units |->
  <<a.manifest.units[i].record, a.manifest.units[i].number>>]
Carried(a) == ToSet(Identities(a))

UnitsVerify(a) ==
  /\ Ascending(Identities(a))
  /\ \A e \in ToSet(a.manifest.units) :
       e.path = unit_path(e.record, e.number) /\ UnitVerifies(a, e)

ListedUnits(a) ==
  UNION {{RecordPath(e.path), UnitManifestPath(e.path)} : e \in ToSet(a.manifest.units)}
ListedDocuments(a) == {d.path : d \in ToSet(a.manifest.documents)}
NothingUnlisted(a) == Paths(a) \subseteq ListedUnits(a) \union ListedDocuments(a)

(***************************************************************************)
(* The record export.                                                      *)
(***************************************************************************)
ScopeHolds(a) ==
  /\ a.manifest.units # <<>>
  /\ a.manifest.scope.kind = "version" => Len(a.manifest.units) = 1
  /\ a.manifest.scope.kind \in {"version", "record"} =>
       \A v \in Carried(a) : InScope(a.manifest.scope, v[1], v[2])

ExportVerifies(a) == ScopeHolds(a) /\ UnitsVerify(a) /\ NothingUnlisted(a)

(***************************************************************************)
(* Documents: a row's references resolve into the units, and their lineage *)
(* agrees with what the documents say of it.                               *)
(***************************************************************************)
Rows(a, name) == EntryAt(a, DocumentPath(name))

DocumentReads(a, d) ==
  /\ d.path = DocumentPath(d.name)
  /\ d.path \in Paths(a)
  /\ Hash(Rows(a, d.name)) = d.sha256

DocumentsRead(a, names) ==
  /\ [i \in DOMAIN a.manifest.documents |-> a.manifest.documents[i].name] = names
  /\ \A d \in ToSet(a.manifest.documents) : DocumentReads(a, d)

\* Who an acknowledgment says spoke, and who recorded it.
AckShape(ack) ==
  (ack.kind \in TraineeKinds) = (ack.recorded_by = ack.user)

AcknowledgmentsCheck(a) ==
  LET acks == Rows(a, "acknowledgments")
  IN  /\ Ascending([i \in DOMAIN acks |-> <<acks[i].record, acks[i].number>>])
      /\ \A ack \in ToSet(acks) :
           /\ ack.user = TraineeOf[a.manifest.scope.enrollment]
           /\ <<ack.record, ack.number>> \in Carried(a)
           /\ AckShape(ack)

\* Lineage: the version whose unit names this one's content as its predecessor.
SuccessorOf(a, r, n) ==
  {s \in ToSet(a.manifest.units) :
     /\ s.record = r
     /\ \E p \in ToSet(a.manifest.units) :
          /\ p.record = r /\ p.number = n
          /\ s.predecessor_content_hash = <<p.content_hash>>}

AmendmentsCheck(a) ==
  LET amendments == Rows(a, "amendments")
      recorded == {<<m.record, m.predecessor>> : m \in ToSet(amendments)}
  IN  /\ Ascending([i \in DOMAIN amendments |->
                      <<amendments[i].record, amendments[i].predecessor>>])
      /\ \A m \in ToSet(amendments) :
           /\ <<m.record, m.predecessor>> \in Carried(a)
           /\ {s.number : s \in SuccessorOf(a, m.record, m.predecessor)} = ToSet(m.successor)
      /\ \A v \in Carried(a) : SuccessorOf(a, v[1], v[2]) # {} => v \in recorded

(***************************************************************************)
(* The trainee packet.  Its two other documents are PhaseHistory's.        *)
(***************************************************************************)
PacketDocuments == <<"acknowledgments", "amendments">>

PacketVerifies(a) ==
  /\ UnitsVerify(a)
  /\ \A e \in ToSet(a.manifest.units) :
       /\ EntryAt(a, RecordPath(e.path)).trainee = TraineeOf[a.manifest.scope.enrollment]
       /\ ~NotInExport(a, e)
  /\ DocumentsRead(a, PacketDocuments)
  /\ AcknowledgmentsCheck(a)
  /\ AmendmentsCheck(a)
  /\ NothingUnlisted(a)

(***************************************************************************)
(* The installation export: the tables of its ledger, each with its key    *)
(* and the tables its columns refer to, and the version rows against the   *)
(* units both ways.                                                        *)
(***************************************************************************)
Tables == <<"acknowledgment", "amendment", "evaluation_record", "evaluation_version">>

\* id of a version row; its other columns repeat its unit.
VersionRow(r, n) ==
  [id |-> <<r, n>>, record |-> r, number |-> n,
   content_hash |-> Hash(Envelope(r, n)),
   chain_hash |-> ChainHash(Envelope(r, n).predecessor, Envelope(r, n)),
   predecessor_id |-> IF n = 1 THEN <<>> ELSE << <<r, n - 1>> >>]

RecordIds(a) == {row.id : row \in ToSet(Rows(a, "evaluation_record"))}
VersionIds(a) == {row.id : row \in ToSet(Rows(a, "evaluation_version"))}

ReferencesResolve(a) ==
  /\ \A row \in ToSet(Rows(a, "acknowledgment")) :
       <<row.record, row.number>> \in VersionIds(a)
  /\ \A row \in ToSet(Rows(a, "amendment")) :
       row.record \in RecordIds(a) /\ <<row.record, row.predecessor>> \in VersionIds(a)
  /\ \A row \in ToSet(Rows(a, "evaluation_version")) :
       /\ row.record \in RecordIds(a)
       /\ \A id \in ToSet(row.predecessor_id) : id \in VersionIds(a)

\* A row's key: ids ascend as rows are inserted, and rows are told apart here by
\* what they are about instead.
KeyOf(name, row) ==
  CASE name = "amendment" -> <<row.record, row.predecessor>>
    [] name = "evaluation_record" -> <<row.id, 0>>
    [] OTHER -> <<row.record, row.number>>

RowsAscend(a) ==
  \A name \in ToSet(Tables) :
    LET rows == Rows(a, name)
    IN  Ascending([i \in DOMAIN rows |-> KeyOf(name, rows[i])])

VersionAgreesWithUnit(a, row) ==
  \E e \in ToSet(a.manifest.units) :
    /\ e.record = row.record /\ e.number = row.number
    /\ e.content_hash = row.content_hash /\ e.chain_hash = row.chain_hash
    /\ e.predecessor_content_hash =
         [i \in DOMAIN row.predecessor_id |->
            (CHOOSE p \in ToSet(Rows(a, "evaluation_version")) :
               p.id = row.predecessor_id[i]).content_hash]

UnitsAgree(a) ==
  /\ \A row \in ToSet(Rows(a, "evaluation_version")) : VersionAgreesWithUnit(a, row)
  /\ \A v \in Carried(a) :
       Cardinality({i \in DOMAIN Rows(a, "evaluation_version") :
         Rows(a, "evaluation_version")[i].id = v}) = 1

InstallationVerifies(a) ==
  /\ UnitsVerify(a)
  /\ \A e \in ToSet(a.manifest.units) : ~NotInExport(a, e)
  /\ DocumentsRead(a, Tables)
  /\ RowsAscend(a)
  /\ ReferencesResolve(a)
  /\ UnitsAgree(a)
  /\ NothingUnlisted(a)

\* verify_archive: the manifest names the format the rest is checked against.
Verifies(a) ==
  /\ NoDuplicates(a)
  /\ CASE a.manifest.format = "export" -> ExportVerifies(a)
       [] a.manifest.format = "packet" -> PacketVerifies(a)
       [] a.manifest.format = "installation" -> InstallationVerifies(a)
===============================================================================
