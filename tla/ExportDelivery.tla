---------------------------- MODULE ExportDelivery ----------------------------
(***************************************************************************)
(* Streaming an export to a client: deliver of exports_http.rs around the  *)
(* export_to of record_export.rs and of installation_export/produce.rs.    *)
(*                                                                         *)
(* A request has four parties: the handler, which answers; the producer, a *)
(* blocking thread nobody can cancel, which holds one of EXPORT_SLOTS; the *)
(* bounded queue between the producer and the response body; and the       *)
(* client, which may stop reading or leave at any moment.  The producer    *)
(* learns of a departure only by finding the queue's receiver closed.      *)
(*                                                                         *)
(* An archive is its manifest, one chunk for each unit the metadata pass   *)
(* listed and the central directory; an entry longer than one chunk is     *)
(* more of the same.  Which units those are, and what verification says of *)
(* them, is RecordExports.                                                 *)
(***************************************************************************)
EXTENDS Naturals, FiniteSets

CONSTANTS
  Requests,      \* downloads asked for
  EXPORT_SLOTS,
  BODY_CHUNKS,   \* the queue's bound
  MaxFinalized   \* bound: versions ever finalized

ASSUME DeliveryAssumption ==
  /\ IsFiniteSet(Requests)
  /\ EXPORT_SLOTS \in Nat /\ BODY_CHUNKS \in Nat \ {0}
  /\ MaxFinalized \in Nat

VARIABLES
  finalized,  \* how many versions the scope holds
  handler,    \* where each request's handler, then its response body, stands
  producer,   \* where each request's producer stands
  started,    \* what the oneshot carries from the producer to the handler
  body,       \* the receiver and what is queued before it
  archive,    \* what the producer listed, and how much of it it has handed on
  achieved,   \* Completion
  audited     \* the record_exported or installation_exported event is committed

deliveryVars == <<finalized, handler, producer, started, body, archive, achieved, audited>>

Kinds == {"records", "installation"}

\* What the client saw last: nothing, an error answer, a clean end of the body,
\* a transfer error, or its own departure.
Ended == {"busy", "refused", "failed", "whole", "broken", "left"}
HandlerStates == {"idle", "waiting", "streaming"} \union Ended

\* Before "writing" nothing of the archive has left; "failed" has an error to
\* signal, "gone" found its client away.
Preparing == {"asked", "authorized", "audited", "read"}
ProducerStates ==
  Preparing \union {"none", "writing", "flushed", "refusing", "failed", "gone", "ended"}

Bodies == [open : BOOLEAN, queued : 0..BODY_CHUNKS, signal : BOOLEAN]
ClosedBody == [open |-> FALSE, queued |-> 0, signal |-> FALSE]

Progress == [kind : Kinds, listed : Nat, sent : Nat, received : Nat]
NoArchive == [kind |-> "records", listed |-> 0, sent |-> 0, received |-> 0]

DeliveryTypeOK ==
  /\ finalized \in 0..MaxFinalized
  /\ handler \in [Requests -> HandlerStates]
  /\ producer \in [Requests -> ProducerStates]
  /\ started \in [Requests -> {"unsent", "ready", "refused"}]
  /\ body \in [Requests -> Bodies]
  /\ archive \in [Requests -> Progress]
  /\ achieved \in [Requests -> BOOLEAN]
  /\ audited \in [Requests -> BOOLEAN]

DeliveryInit ==
  /\ finalized = 0
  /\ handler = [r \in Requests |-> "idle"]
  /\ producer = [r \in Requests |-> "none"]
  /\ started = [r \in Requests |-> "unsent"]
  /\ body = [r \in Requests |-> ClosedBody]
  /\ archive = [r \in Requests |-> NoArchive]
  /\ achieved = [r \in Requests |-> FALSE]
  /\ audited = [r \in Requests |-> FALSE]

\* The manifest, the units and the central directory.
Length(r) == archive[r].listed + 2

Alive(r) == producer[r] \notin {"none", "ended"}
SlotTaken == Cardinality({r \in Requests : Alive(r)})

\* The items in the queue; the failure signal is always the last.
QueueLength(r) == body[r].queued + (IF body[r].signal THEN 1 ELSE 0)

\* abandoned.is_closed(): the receiver went with the handler or the response.
Cancelled(r) == ~body[r].open

Goes(r, state) == producer' = [producer EXCEPT ![r] = state]

(***************************************************************************)
(* The request.                                                            *)
(***************************************************************************)
\* deliver, to the spawn: admission before any work.
Deliver(r, kind) ==
  /\ handler[r] = "idle"
  /\ \/ /\ SlotTaken >= EXPORT_SLOTS
        /\ handler' = [handler EXCEPT ![r] = "busy"]
        /\ UNCHANGED <<producer, body, archive>>
     \/ /\ SlotTaken < EXPORT_SLOTS
        /\ handler' = [handler EXCEPT ![r] = "waiting"]
        /\ Goes(r, "asked")
        /\ body' = [body EXCEPT ![r].open = TRUE]
        /\ archive' = [archive EXCEPT ![r].kind = kind]
  /\ UNCHANGED <<finalized, started, achieved, audited>>

(***************************************************************************)
(* The producer.  Each step begins by asking whether anyone is waiting.    *)
(***************************************************************************)
PreparationVars == <<finalized, handler, started, body, achieved>>

\* The outcomes each step of the preparation shares: client_left, or an error of
\* the database.
Abandons(r) ==
  /\ producer[r] \in Preparing
  /\ Cancelled(r)
  /\ Goes(r, "gone")
  /\ UNCHANGED <<PreparationVars, archive, audited>>

Fails(r) ==
  /\ producer[r] \in Preparing \union {"writing"}
  /\ Goes(r, "failed")
  /\ UNCHANGED <<PreparationVars, archive, audited>>

Authorize(r) ==
  /\ producer[r] = "asked"
  /\ ~Cancelled(r)
  /\ \E admitted \in BOOLEAN : Goes(r, IF admitted THEN "authorized" ELSE "refusing")
  /\ UNCHANGED <<PreparationVars, archive, audited>>

\* A record export of an empty scope is refused here, in the transaction that
\* would have audited it; an installation always has something to export.
AuditExport(r) ==
  /\ producer[r] = "authorized"
  /\ ~Cancelled(r)
  /\ \/ /\ archive[r].kind = "records" /\ finalized = 0
        /\ Goes(r, "refusing")
        /\ UNCHANGED audited
     \/ /\ archive[r].kind = "installation" \/ finalized > 0
        /\ Goes(r, "audited")
        /\ audited' = [audited EXCEPT ![r] = TRUE]
  /\ UNCHANGED <<PreparationVars, archive>>

\* One read transaction lists the units.
ReadMetadata(r) ==
  /\ producer[r] = "audited"
  /\ ~Cancelled(r)
  /\ archive' = [archive EXCEPT ![r].listed = finalized]
  /\ Goes(r, "read")
  /\ UNCHANGED <<PreparationVars, audited>>

\* ready: the response may start, and from here a producer that disappears
\* leaves a failure behind.
Ready(r) ==
  /\ producer[r] = "read"
  /\ ~Cancelled(r)
  /\ started' = [started EXCEPT ![r] = "ready"]
  /\ Goes(r, "writing")
  /\ UNCHANGED <<finalized, handler, body, achieved, archive, audited>>

\* ChunkSink hands one chunk on, or finds the receiver gone.
Send(r) ==
  /\ producer[r] = "writing"
  /\ archive[r].sent < Length(r)
  /\ \/ /\ Cancelled(r)
        /\ Goes(r, "gone")
        /\ UNCHANGED <<body, archive>>
     \/ /\ ~Cancelled(r)
        /\ QueueLength(r) < BODY_CHUNKS
        /\ body' = [body EXCEPT ![r].queued = @ + 1]
        /\ archive' = [archive EXCEPT ![r].sent = @ + 1]
        /\ UNCHANGED producer
  /\ UNCHANGED <<finalized, handler, started, achieved, audited>>

\* Variant: the producer waits for room as long as the client keeps the body.
StallUnlessRead(r) ==
  /\ producer[r] = "writing"
  /\ archive[r].sent < Length(r)
  /\ Cancelled(r)
  /\ Goes(r, "failed")
  /\ UNCHANGED <<PreparationVars, archive, audited>>

\* EXPORT_STALL_LIMIT passes with the queue full.
Stall(r) ==
  /\ producer[r] = "writing"
  /\ archive[r].sent < Length(r)
  /\ ~Cancelled(r)
  /\ QueueLength(r) = BODY_CHUNKS
  /\ Goes(r, "failed")
  /\ UNCHANGED <<PreparationVars, archive, audited>>

\* The container is finished and flushed: completion is a fact.
Complete(r) ==
  /\ producer[r] = "writing"
  /\ archive[r].sent = Length(r)
  /\ achieved' = [achieved EXCEPT ![r] = TRUE]
  /\ Goes(r, "flushed")
  /\ UNCHANGED <<finalized, handler, started, body, archive, audited>>

\* A refusal answers a response that has not started, and so does an error.
Answered(r) == IF started[r] = "unsent" THEN "refused" ELSE started[r]

\* signal_failure: the detail reaches the body unless the queue stays full, or
\* nobody is left to read it.  Its senders and its slot go with the producer.
Signal(r) ==
  /\ producer[r] = "failed"
  /\ \/ /\ ~Cancelled(r) /\ QueueLength(r) < BODY_CHUNKS
        /\ body' = [body EXCEPT ![r].signal = TRUE]
     \/ /\ Cancelled(r) \/ QueueLength(r) = BODY_CHUNKS
        /\ UNCHANGED body
  /\ started' = [started EXCEPT ![r] = Answered(r)]
  /\ Goes(r, "ended")
  /\ UNCHANGED <<finalized, handler, archive, achieved, audited>>

EndProducer(r) ==
  /\ producer[r] \in {"refusing", "gone", "flushed"}
  /\ started' = [started EXCEPT ![r] = Answered(r)]
  /\ Goes(r, "ended")
  /\ UNCHANGED <<finalized, handler, body, archive, achieved, audited>>

\* The producer panics.  FailureGuard signals once it is armed; before that the
\* oneshot is dropped unsent.
Panic(r) ==
  /\ \/ producer[r] = "writing" /\ Goes(r, "failed")
     \/ producer[r] \in Preparing /\ Goes(r, "ended")
  /\ UNCHANGED <<PreparationVars, archive, audited>>

(***************************************************************************)
(* The handler and the response body.                                      *)
(***************************************************************************)
AnswersWith(r, answer) ==
  /\ handler' = [handler EXCEPT ![r] = answer]
  /\ body' = [body EXCEPT ![r] = ClosedBody]
  /\ UNCHANGED <<finalized, producer, started, archive, achieved, audited>>

Respond(r) ==
  /\ handler[r] = "waiting"
  /\ started[r] = "ready"
  /\ handler' = [handler EXCEPT ![r] = "streaming"]
  /\ UNCHANGED <<finalized, producer, started, body, archive, achieved, audited>>

Refuse(r) ==
  /\ handler[r] = "waiting"
  /\ started[r] = "refused"
  /\ AnswersWith(r, "refused")

\* PREFLIGHT_LIMIT passes, or the producer dropped the oneshot.
GiveUp(r) ==
  /\ handler[r] = "waiting"
  /\ started[r] = "unsent"
  /\ AnswersWith(r, "failed")

\* poll_frame.
PollChunk(r) ==
  /\ handler[r] = "streaming"
  /\ body[r].queued > 0
  /\ body' = [body EXCEPT ![r].queued = @ - 1]
  /\ archive' = [archive EXCEPT ![r].received = @ + 1]
  /\ UNCHANGED <<finalized, handler, producer, started, achieved, audited>>

PollSignal(r) ==
  /\ handler[r] = "streaming"
  /\ body[r].queued = 0 /\ body[r].signal
  /\ AnswersWith(r, "broken")

\* Variant: a closed channel is the end of the archive, as for a plain stream.
PollEndOfStream(r) ==
  /\ handler[r] = "streaming"
  /\ QueueLength(r) = 0
  /\ producer[r] = "ended"
  /\ AnswersWith(r, "whole")

\* Every sender is gone and nothing is queued.
PollEnd(r) ==
  /\ handler[r] = "streaming"
  /\ QueueLength(r) = 0
  /\ producer[r] = "ended"
  /\ AnswersWith(r, IF achieved[r] THEN "whole" ELSE "broken")

\* The client goes: its connection drops the handler or the body.
Leave(r) ==
  /\ handler[r] \in {"waiting", "streaming"}
  /\ AnswersWith(r, "left")

\* A version of the scope is finalized meanwhile.  None is ever removed.
FinalizeMeanwhile ==
  /\ finalized < MaxFinalized
  /\ finalized' = finalized + 1
  /\ UNCHANGED <<handler, producer, started, body, archive, achieved, audited>>

Prepare(r) ==
  Authorize(r) \/ AuditExport(r) \/ ReadMetadata(r) \/ Ready(r) \/ Abandons(r)
Produce(r) == Prepare(r) \/ Send(r) \/ Stall(r) \/ Complete(r) \/ Signal(r) \/ EndProducer(r)
Answer(r) == Respond(r) \/ Refuse(r) \/ GiveUp(r)
Read(r) == PollChunk(r) \/ PollSignal(r) \/ PollEnd(r)

DeliveryNext ==
  \/ \E r \in Requests :
       \/ \E kind \in Kinds : Deliver(r, kind)
       \/ Produce(r) \/ Fails(r) \/ Panic(r)
       \/ Answer(r) \/ Read(r) \/ Leave(r)
  \/ FinalizeMeanwhile

DeliverySpec == DeliveryInit /\ [][DeliveryNext]_deliveryVars

\* A thread that can run runs, and clocks pass their limits: the producer's steps
\* and the handler's.  Nothing is asked of the client.
FairDelivery ==
  /\ DeliverySpec
  /\ \A r \in Requests : WF_deliveryVars(Produce(r)) /\ WF_deliveryVars(Answer(r))

(***************************************************************************)
(* What a delivery promises.                                               *)
(***************************************************************************)
\* A body that ends cleanly ended because the client has every byte of an archive
\* of the versions its scope held (deliver, "a truncated stream cannot be mistaken
\* for them"), whatever stalled, failed, panicked or lost its signal; and not one
\* byte leaves before the export is audited, nor for a scope that holds nothing.
WholeIsComplete ==
  \A r \in Requests :
    /\ handler[r] = "whole" => archive[r].received = Length(r)
    /\ archive[r].received > 0 =>
         audited[r] /\ (archive[r].kind = "records" => archive[r].listed > 0)

\* Whatever the client does, its producer ends and frees its slot, and a request
\* that waits is answered.
SlotsComeBack ==
  \A r \in Requests :
    /\ Alive(r) ~> ~Alive(r)
    /\ handler[r] = "waiting" ~> handler[r] # "waiting"
===============================================================================
