----------------------------- MODULE RecordExports -----------------------------
(***************************************************************************)
(* Producing the archives of Archives from a database that goes on         *)
(* changing: versions are finalized, amendments opened and acknowledgments *)
(* recorded between any two steps of an export.                            *)
(*                                                                         *)
(* A record export and an installation export audit, list what they carry  *)
(* in one read transaction, and then read each version again by its key,   *)
(* outside any transaction, as they write it.  A packet reads everything   *)
(* in one transaction, writes the archive in memory and audits last.  How  *)
(* the bytes reach a client, or do not, is ExportDelivery.                 *)
(***************************************************************************)
EXTENDS Archives

CONSTANTS
  MaxVersions, \* bound: versions finalized
  MaxAcks      \* bound: acknowledgments recorded

ASSUME RecordExportsAssumption == MaxVersions \in Nat /\ MaxAcks \in Nat

VARIABLES
  sealed,      \* how many versions each record has; rows are never changed or removed
  amendments,  \* amendment: the version each corrects
  acks,        \* acknowledgment
  export,      \* the export in progress
  held         \* observer: the versions in the export's scope when it was asked for

vars == <<sealed, amendments, acks, export, held>>
storeVars == <<sealed, amendments, acks>>

NoOneAsks == [state |-> "idle"]

Stored == {v \in Records \X (1..MaxNumber) : v[2] <= sealed[v[1]]}
InScopeNow(scope) == {v \in Stored : InScope(scope, v[1], v[2])}

Formats == {"export", "packet", "installation"}
Scopes(format) ==
  CASE format = "export" ->
         {VersionScope(r, n) : r \in Records, n \in 1..MaxNumber}
           \union {RecordScope(r) : r \in Records}
           \union {EnrollmentScope(e) : e \in Enrollments}
           \union {InstallationScope}
    [] format = "packet" -> {EnrollmentScope(e) : e \in Enrollments}
    [] format = "installation" -> {InstallationScope}

Init ==
  /\ sealed = [r \in Records |-> 0]
  /\ amendments = {}
  /\ acks = {}
  /\ export = NoOneAsks
  /\ held = {}

(***************************************************************************)
(* The database.                                                           *)
(***************************************************************************)
\* A first version, or the successor an open amendment asks for.
Finalize(r) ==
  /\ sealed[r] < MaxNumber
  /\ Cardinality(Stored) < MaxVersions
  /\ sealed[r] = 0 \/ <<r, sealed[r]>> \in amendments
  /\ sealed' = [sealed EXCEPT ![r] = @ + 1]
  /\ UNCHANGED <<amendments, acks, export, held>>

Amend(r) ==
  /\ sealed[r] \in 1..(MaxNumber - 1)
  /\ <<r, sealed[r]>> \notin amendments
  /\ amendments' = amendments \union {<<r, sealed[r]>>}
  /\ UNCHANGED <<sealed, acks, export, held>>

AlreadyAcknowledged(r, n) == \E ack \in acks : ack.record = r /\ ack.number = n

RecordAck(r, kind, by) ==
  /\ sealed[r] > 0
  /\ Cardinality(acks) < MaxAcks
  /\ ~AlreadyAcknowledged(r, sealed[r])
  /\ acks' = acks \union {[record |-> r, number |-> sealed[r], kind |-> kind,
                           user |-> Trainee(r), recorded_by |-> by]}
  /\ UNCHANGED <<sealed, amendments, export, held>>

\* acknowledge: the latest version at the moment it commits.
Acknowledge(r, kind) == RecordAck(r, kind, Trainee(r))

\* attest: nobody attests about themselves.
Attest(u, r, kind) == u # Trainee(r) /\ RecordAck(r, kind, u)

(***************************************************************************)
(* What each document states, read in the transaction that lists the units. *)
(***************************************************************************)
AckOf(v) == CHOOSE ack \in acks : ack.record = v[1] /\ ack.number = v[2]
AckDoc(scope) ==
  LET acknowledged == {v \in InScopeNow(scope) : AlreadyAcknowledged(v[1], v[2])}
      order == Sorted(acknowledged)
  IN  [i \in DOMAIN order |-> AckOf(order[i])]

\* The successor is the version whose predecessor the amendment names, if it has
\* been finalized.
AmendmentDoc(scope) ==
  LET order == Sorted({v \in amendments : InScope(scope, v[1], v[2])})
  IN  [i \in DOMAIN order |->
         [record |-> order[i][1], predecessor |-> order[i][2],
          successor |-> IF order[i][2] < sealed[order[i][1]] THEN <<order[i][2] + 1>> ELSE <<>>]]

AmendmentTable ==
  LET order == Sorted(amendments)
  IN  [i \in DOMAIN order |-> [record |-> order[i][1], predecessor |-> order[i][2]]]

VersionTable ==
  LET order == Sorted(Stored)
  IN  [i \in DOMAIN order |-> VersionRow(order[i][1], order[i][2])]

RecordTable == [r \in Records |-> [id |-> r, enrollment |-> EnrollmentOf[r]]]

Documents(format, scope) ==
  CASE format = "export" -> <<>>
    [] format = "packet" -> <<AckDoc(scope), AmendmentDoc(scope)>>
    [] format = "installation" ->
         <<AckDoc(scope), AmendmentTable, RecordTable, VersionTable>>
DocumentNames(format) ==
  CASE format = "export" -> <<>>
    [] format = "packet" -> PacketDocuments
    [] format = "installation" -> Tables

(***************************************************************************)
(* An export.                                                              *)
(***************************************************************************)
NothingIsKept == export' = NoOneAsks /\ held' = {}
Becomes(state) == export' = [export EXCEPT !.state = state]

Request(format, scope) ==
  /\ export.state = "idle"
  /\ export' = [state |-> "asked", format |-> format, scope |-> scope,
                units |-> <<>>, documents |-> <<>>, written |-> <<>>]
  /\ held' = InScopeNow(scope)
  /\ UNCHANGED storeVars

\* The audit's transaction refuses a record export of nothing.
Audit ==
  /\ export.state = "asked"
  /\ \/ /\ export.format = "export" /\ InScopeNow(export.scope) = {}
        /\ NothingIsKept
     \/ /\ export.format \in {"export", "installation"}
        /\ export.format = "installation" \/ InScopeNow(export.scope) # {}
        /\ Becomes("audited")
        /\ UNCHANGED held
  /\ UNCHANGED storeVars

\* Variant: the join on the predecessor is an inner one.
UnitsWithAPredecessor(scope) ==
  LET order == Sorted({v \in InScopeNow(scope) : v[2] > 1})
  IN  [i \in DOMAIN order |-> UnitEntry(order[i][1], order[i][2])]

\* collect_meta: the units the archive will state, from one committed state.
UnitsOf(scope) ==
  LET order == Sorted(InScopeNow(scope))
  IN  [i \in DOMAIN order |-> UnitEntry(order[i][1], order[i][2])]

List ==
  /\ \/ export.state = "audited"
     \/ export.state = "asked" /\ export.format = "packet"
  /\ export' = [export EXCEPT
       !.state = "listed",
       !.units = UnitsOf(export.scope),
       !.documents = Documents(export.format, export.scope)]
  /\ UNCHANGED <<storeVars, held>>

\* write_units_streaming, one unit: what is stored under the listed key, if it
\* still is what the manifest states.
WriteUnit ==
  /\ export.state = "listed"
  /\ Len(export.written) < Len(export.units)
  /\ LET e == export.units[Len(export.written) + 1]
     IN  /\ <<e.record, e.number>> \in Stored
         /\ UnitEntry(e.record, e.number) = e
         /\ export' = [export EXCEPT !.written = Append(@, e)]
  /\ UNCHANGED <<storeVars, held>>

\* The documents follow and the container is finished; a packet is audited now.
Finish ==
  /\ export.state = "listed"
  /\ Len(export.written) = Len(export.units)
  /\ Becomes("done")
  /\ UNCHANGED <<storeVars, held>>

\* It is delivered, or a read or a write fails, or the client leaves.
End ==
  /\ export.state # "idle"
  /\ NothingIsKept
  /\ UNCHANGED storeVars

\* The archive a finished export is.
ExportedAt == 1
ArchiveOf(x) ==
  LET names == DocumentNames(x.format)
      documents == [i \in DOMAIN names |-> DocumentEntry(names[i], x.documents[i])]
      units == [i \in 1..(2 * Len(x.written)) |->
                  UnitEntries(ExportedAt, x.written[(i + 1) \div 2])[2 - (i % 2)]]
  IN  [manifest |-> [format |-> x.format, scope |-> x.scope, exported_at |-> ExportedAt,
                     units |-> x.units, documents |-> documents],
       entries |-> units \o
         [i \in DOMAIN names |-> Entry(documents[i].path, x.documents[i])]]
Archive == ArchiveOf(export)

Next ==
  \/ \E r \in Records :
       \/ Finalize(r) \/ Amend(r)
       \/ \E kind \in TraineeKinds : Acknowledge(r, kind)
       \/ \E u \in Attesters, kind \in AttestedKinds : Attest(u, r, kind)
  \/ \E format \in Formats : \E scope \in Scopes(format) : Request(format, scope)
  \/ Audit \/ List \/ WriteUnit \/ Finish \/ End

Spec == Init /\ [][Next]_vars

(***************************************************************************)
(* Properties.                                                             *)
(***************************************************************************)
\* Whatever is finalized, amended or acknowledged between the steps of an
\* export, the archive that comes of it verifies offline and carries every
\* version that was in its scope when it was asked for (export_to, collect_meta
\* and write_units_streaming against verify_archive).
ExportsAreComplete ==
  export.state = "done" => Verifies(Archive) /\ held \subseteq Carried(Archive)

WithEntries(a, entries) == [a EXCEPT !.entries = entries]
Unlisted == Entry(DocumentPath("unlisted"), Garbage)

\* Other bytes an entry could have been given: another unit's, those of an
\* export at another time, or a document without its rows.
OtherBytes(a, i) ==
  LET what == a.entries[i].path.what
  IN  {a.entries[j].bytes : j \in {k \in DOMAIN a.entries : a.entries[k].path.what = what}}
        \union
      CASE what = "record.json" -> {Garbage}
        [] what = "manifest.json" -> {[a.entries[i].bytes EXCEPT !.exported_at = ExportedAt - 1]}
        [] OTHER -> {<<>>}

Damaged(a) ==
  {WithEntries(a, RemoveAt(a.entries, i)) : i \in DOMAIN a.entries}
    \union {WithEntries(a, Append(a.entries, a.entries[i])) : i \in DOMAIN a.entries}
    \union {WithEntries(a, Append(a.entries, Unlisted))}
    \union UNION {{WithEntries(a, [a.entries EXCEPT ![i].bytes = bytes]) :
                    bytes \in OtherBytes(a, i)} : i \in DOMAIN a.entries}

\* The archive without its k-th unit, taken out of the manifest as well.
WithoutUnit(a, k) ==
  [a EXCEPT !.manifest.units = RemoveAt(@, k),
            !.entries = RemoveAt(RemoveAt(@, 2 * k), 2 * k - 1)]

\* What the rest of an archive says of one of its units.
RefersTo(a, e) ==
  \/ a.manifest.format = "installation"
  \/ /\ a.manifest.format = "packet"
     /\ \/ \E u \in ToSet(a.manifest.units) : u.record = e.record /\ u # e
        \/ \E ack \in ToSet(Rows(a, "acknowledgments")) :
             <<ack.record, ack.number>> = <<e.record, e.number>>

\* The offline verifier finds whatever was taken out of an archive, added to it
\* or exchanged within it, and a unit missing from a packet or an installation
\* export as long as anything else there speaks of it.
DamageIsFound ==
  export.state = "done" =>
    /\ \A damaged \in Damaged(Archive) : damaged # Archive => ~Verifies(damaged)
    /\ \A k \in DOMAIN Archive.manifest.units :
         RefersTo(Archive, Archive.manifest.units[k]) => ~Verifies(WithoutUnit(Archive, k))
===============================================================================
