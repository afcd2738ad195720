------------------------------ MODULE DraftEditor ------------------------------
(***************************************************************************)
(* The page an author writes a draft on, against the server that keeps it. *)
(*                                                                         *)
(* The controller in editor.svelte.ts owns the working copy, its debounced *)
(* timer, one chain of saves and the buffers that keep refused text; the   *)
(* page loads, submits and links.  Each of the page's steps is one turn of *)
(* its event loop: what runs between two awaits.  A request is a record    *)
(* that travels, is taken by the server, and is answered; either half can  *)
(* be lost, and a save the page gave up on can still arrive.  Others save  *)
(* the same draft, freeze it and reopen it at any moment.                  *)
(*                                                                         *)
(* A text is a name, fresh each time something is written; the content of  *)
(* a field is one text.  A rating and its modifiers are a field like any   *)
(* other.                                                                  *)
(***************************************************************************)
EXTENDS Naturals, FiniteSets, Functions

CONSTANTS
  Fields,    \* what the form asks: ratings and narratives
  MaxEdits,  \* bound: times the writer changes a field
  MaxOthers, \* bound: saves, freezes, reopenings and links that are not edits
  MaxFaults  \* bound: requests or answers lost

ASSUME EditorAssumption ==
  /\ Fields # {} /\ MaxEdits \in Nat /\ MaxOthers \in Nat /\ MaxFaults \in Nat

VARIABLES
  srv,     \* the stored draft: revision, content, open for editing or frozen
  text,    \* the working copy: values, modifiers and narratives
  revision, saveState, timer, dirty, reported, reloadFailed, refused,
  view,    \* the status of the draft the page loaded, or "none" while it has none
  alive,   \* the controller is not destroyed
  chain,   \* the save chain: not running, awaiting its save or its refresh
  call,    \* the save on its way
  ghosts,  \* saves reported as failed that are still on their way
  meta,    \* the refresh on its way
  load,    \* the reload on its way
  act,     \* the workflow act the writer started
  teardown,\* the last save of a destroyed controller
  edits, moves, faults,
  written, \* the texts written so far, by anyone
  mine,    \* observer: texts the writer typed and has not given up
  carried, \* observer: texts some stored revision has held
  seen     \* observer: texts the working copy has held

server == <<srv, carried>>
editor == <<text, revision, saveState, timer, dirty, reported, reloadFailed, refused>>
wire   == <<call, ghosts, meta>>
page   == <<view, alive, chain, load, act, teardown>>
counts == <<edits, moves, faults, written>>
vars   == <<server, editor, wire, page, counts, mine, seen>>

Texts == Nat
Contents == [Fields -> Texts]
Blank == [f \in Fields |-> 0]
Drafts == [revision : Nat, content : Contents, open : BOOLEAN]
SaveStates == {"idle", "pending", "saving", "saved", "failed"}
CallStates == {"travelling", "accepted", "stale", "frozen", "failed"}
Calls == [revision : Nat, content : Contents, state : CallStates, next : Nat]
NoCall == [revision |-> 0, content |-> Blank, state |-> "none", next |-> 0]
Sent(r, c) == [revision |-> r, content |-> c, state |-> "travelling", next |-> 0]
NoDraft == [revision |-> 0, content |-> Blank, open |-> FALSE]
NoLoad == [why |-> "none", state |-> "none", copy |-> NoDraft]
Loading(w) == [why |-> w, state |-> "travelling", copy |-> NoDraft]
NoAct == [kind |-> "none", stage |-> "none", revision |-> 0, shown |-> Blank]
NoTeardown == [stage |-> "none", content |-> Blank]

\* What a buffer kept of a copy: some of its fields.
IsBuffer(b) ==
  \E F \in SUBSET Fields : b \in [content : [F -> Texts], resolved : BOOLEAN]

(***************************************************************************)
(* What the page derives.                                                  *)
(***************************************************************************)
workflowRequest == act.stage \in {"asked", "done", "stale", "frozen", "failed", "reloading"}
Editable == alive /\ view = "open" /\ ~workflowRequest

Unresolved == reported \/ reloadFailed \/ \E b \in refused : ~b.resolved
HasUnsavedEdits == timer \/ chain # "none" \/ saveState = "failed"
HasPendingRecovery == reported /\ ~reloadFailed

\* beforeNavigate lets a departure through.
MayLeave == ~HasUnsavedEdits /\ ~HasPendingRecovery

Buffered == UNION {Range(b.content) : b \in refused}

(***************************************************************************)
(* The server.  A save is refused on a frozen draft first, then on a       *)
(* revision that is not the stored one.                                    *)
(***************************************************************************)
Verdict(r) ==
  IF ~srv.open THEN "frozen" ELSE IF r # srv.revision THEN "stale" ELSE "accepted"

StoreSave(r, c) ==
  IF Verdict(r) = "accepted"
  THEN /\ srv' = [srv EXCEPT !.revision = @ + 1, !.content = c]
       /\ carried' = carried \union Range(c)
  ELSE UNCHANGED server

ServerTakesSave ==
  /\ call.state = "travelling"
  /\ StoreSave(call.revision, call.content)
  /\ call' = [call EXCEPT !.state = Verdict(call.revision), !.next = srv.revision + 1]
  /\ UNCHANGED <<editor, ghosts, meta, page, counts, mine, seen>>

\* A save whose connection broke under the page, taken after all.
GhostArrives ==
  \E g \in ghosts :
    /\ StoreSave(g.revision, g.content)
    /\ ghosts' = ghosts \ {g}
    /\ UNCHANGED <<editor, call, meta, page, counts, mine, seen>>

ServerAnswersMeta ==
  /\ meta = "travelling"
  /\ meta' = IF srv.open THEN "open" ELSE "frozen"
  /\ UNCHANGED <<server, editor, call, ghosts, page, counts, mine, seen>>

ServerAnswersLoad ==
  /\ load.state = "travelling"
  /\ load' = [load EXCEPT !.state = "read", !.copy = srv]
  /\ UNCHANGED <<server, editor, wire, view, alive, chain, act, teardown, counts, mine, seen>>

\* Submission freezes the copy at the revision it names; a summary link advances
\* the revision and leaves the copy alone.
ServerTakesAct ==
  /\ act.stage = "asked"
  /\ LET v == Verdict(act.revision) IN
     /\ srv' = IF v # "accepted" THEN srv
               ELSE IF act.kind = "submit" THEN [srv EXCEPT !.open = FALSE]
               ELSE [srv EXCEPT !.revision = @ + 1]
     /\ act' = [act EXCEPT !.stage = IF v = "accepted" THEN "done" ELSE v]
  /\ UNCHANGED <<carried, editor, wire, view, alive, chain, load, teardown, counts, mine, seen>>

(***************************************************************************)
(* Others on the same draft.                                               *)
(***************************************************************************)
Moving == moves < MaxOthers /\ moves' = moves + 1
Elsewhere == UNCHANGED <<editor, wire, page, edits, faults, mine, seen>>

OtherSaves ==
  /\ Moving /\ srv.open
  /\ \E f \in Fields :
       LET c == [srv.content EXCEPT ![f] = written + 1] IN
       /\ srv' = [srv EXCEPT !.revision = @ + 1, !.content = c]
       /\ carried' = carried \union Range(c)
  /\ written' = written + 1
  /\ Elsewhere

\* A submission, an approval or a seal closes the draft; a decision or an
\* amendment opens it again.  None of them changes the revision.
OtherMovesDraft ==
  /\ Moving
  /\ srv' = [srv EXCEPT !.open = ~@]
  /\ UNCHANGED <<carried, written>> /\ Elsewhere

(***************************************************************************)
(* What is lost on the way.                                                *)
(***************************************************************************)
Faulty == faults < MaxFaults /\ faults' = faults + 1

\* The request or its answer is lost: either way the page sees a failure.
LoseSave ==
  /\ Faulty /\ call.state \in CallStates \ {"failed"}
  /\ call' = [call EXCEPT !.state = "failed"]
  /\ \/ UNCHANGED ghosts
     \/ /\ call.state = "travelling"
        /\ ghosts' = ghosts \union {[revision |-> call.revision, content |-> call.content]}
  /\ UNCHANGED <<server, editor, meta, page, edits, moves, written, mine, seen>>

LoseMeta ==
  /\ Faulty /\ meta = "travelling"
  /\ meta' = "failed"
  /\ UNCHANGED <<server, editor, call, ghosts, page, edits, moves, written, mine, seen>>

LoseLoad ==
  /\ Faulty /\ load.state = "travelling"
  /\ load' = [load EXCEPT !.state = "failed"]
  /\ UNCHANGED <<server, editor, wire, view, alive, chain, act, teardown, edits, moves, written, mine, seen>>

LoseAct ==
  /\ Faulty /\ act.stage \in {"asked", "done", "stale", "frozen"}
  /\ act' = [act EXCEPT !.stage = "failed"]
  /\ UNCHANGED <<server, editor, wire, view, alive, chain, load, teardown, edits, moves, written, mine, seen>>

(***************************************************************************)
(* The writer.                                                             *)
(***************************************************************************)
\* An edit lands in the working copy and arms the debounce.
Edit(f, t) ==
  /\ Editable /\ edits < MaxEdits
  /\ text' = [text EXCEPT ![f] = t]
  /\ saveState' = "pending"
  /\ dirty' = (dirty \/ chain # "none")
  /\ timer' = TRUE
  /\ seen' = seen \union {t}
  /\ edits' = edits + 1
  /\ UNCHANGED <<server, revision, reported, reloadFailed, refused, wire, page, moves, faults>>

Type ==
  \E f \in Fields :
    /\ Edit(f, written + 1)
    /\ written' = written + 1
    /\ mine' = (mine \ {text[f]}) \union {written + 1}

\* The writer copies refused text back into its field.
PutBack ==
  \E b \in refused : \E f \in DOMAIN b.content :
    /\ text[f] # b.content[f]
    /\ Edit(f, b.content[f])
    /\ mine' = mine \ {text[f]}
    /\ UNCHANGED written

DiscardRefused ==
  \E b \in refused :
    /\ alive
    /\ refused' = refused \ {b}
    /\ mine' = mine \ Range(b.content)
    /\ UNCHANGED <<server, text, revision, saveState, timer, dirty, reported, reloadFailed,
                   wire, page, counts, seen>>

(***************************************************************************)
(* The save chain.                                                         *)
(***************************************************************************)
\* One attempt: it carries the working copy as it is now, so it consumes the
\* timer and every edit made so far.
Attempt ==
  /\ timer' = FALSE /\ dirty' = FALSE
  /\ saveState' = "saving"
  /\ chain' = "saving"
  /\ call' = Sent(revision, text)

\* Joins the chain that is running, or starts one; while a refusal waits for its
\* reload nothing is sent.
SaveNow ==
  \/ /\ chain # "none"
     /\ timer' = FALSE /\ dirty' = TRUE
     /\ UNCHANGED <<saveState, chain, call>>
  \/ /\ chain = "none" /\ (view = "none" \/ reported)
     /\ timer' = FALSE
     /\ saveState' = IF view = "none" THEN saveState ELSE "idle"
     /\ UNCHANGED <<dirty, chain, call>>
  \/ /\ chain = "none" /\ view # "none" /\ ~reported
     /\ Attempt

NotSaving == UNCHANGED <<server, text, revision, reported, reloadFailed, refused, ghosts, meta,
                         view, alive, load, teardown, counts, mine, seen>>

TimerFires == alive /\ timer /\ SaveNow /\ UNCHANGED act /\ NotSaving

RetryFailedSave ==
  /\ Editable /\ saveState = "failed" /\ act = NoAct
  /\ SaveNow /\ UNCHANGED act /\ NotSaving

\* Whether what a save carried holds everything a buffer kept.
Carries(b, c) == \A f \in DOMAIN b.content : c[f] = b.content[f]

SaveLanded ==
  /\ alive /\ chain = "saving" /\ call.state = "accepted"
  /\ revision' = call.next
  /\ saveState' = IF dirty THEN "pending" ELSE "saved"
  /\ reloadFailed' = FALSE
  /\ refused' = {[b EXCEPT !.resolved = @ \/ Carries(b, call.content)] : b \in refused}
  /\ chain' = "refreshing" /\ call' = NoCall /\ meta' = "travelling"
  /\ UNCHANGED <<server, text, timer, dirty, reported, ghosts, view, alive, load, act, teardown,
                 counts, mine, seen>>

\* Variant: the refresh takes the stored revision along with the status.
MetaAnsweredWithRevision ==
  /\ chain = "refreshing" /\ meta # "travelling"
  /\ meta' = "none"
  /\ view' = IF alive /\ meta # "failed" THEN meta ELSE view
  /\ revision' = IF alive /\ meta # "failed" THEN srv.revision ELSE revision
  /\ chain' = "none"
  /\ UNCHANGED <<server, text, saveState, timer, dirty, reported, reloadFailed, refused, call,
                 ghosts, alive, load, act, teardown, counts, mine, seen>>

\* Variant: an edit that joined the chain during the refresh does not run it again.
MetaAnsweredOnce ==
  /\ chain = "refreshing" /\ meta # "travelling"
  /\ meta' = "none"
  /\ view' = IF alive /\ meta # "failed" THEN meta ELSE view
  /\ chain' = "none"
  /\ UNCHANGED <<server, editor, call, ghosts, alive, load, act, teardown, counts, mine, seen>>

\* Variant: the refresh shows whatever it was answered.
MetaAnsweredUnchecked ==
  /\ chain = "refreshing" /\ meta # "travelling"
  /\ meta' = "none"
  /\ view' = IF alive THEN meta ELSE view
  /\ chain' = "none"
  /\ UNCHANGED <<server, editor, call, ghosts, alive, load, act, teardown, counts, mine, seen>>

\* The refresh updates the status the page shows; an edit made meanwhile runs the
\* chain again.
MetaAnswered ==
  /\ chain = "refreshing" /\ meta # "travelling"
  /\ meta' = "none"
  /\ view' = IF alive /\ meta # "failed" THEN meta ELSE view
  /\ IF alive /\ dirty
     THEN Attempt
     ELSE chain' = "none" /\ UNCHANGED <<timer, dirty, saveState, call>>
  /\ UNCHANGED <<server, text, revision, reported, reloadFailed, refused, ghosts, alive, load,
                 act, teardown, counts, mine, seen>>

\* The chain ends in a recovery: the edits it could not save belong to it now, and
\* the page reloads the stored draft.
RecordRecovery ==
  /\ timer' = FALSE /\ dirty' = FALSE
  /\ reported' = TRUE
  /\ saveState' = "idle"
  /\ chain' = "none" /\ call' = NoCall
  /\ load' = Loading("recover")
  /\ UNCHANGED <<server, text, revision, reloadFailed, refused, ghosts, meta, view, alive, act,
                 teardown, counts, mine, seen>>

\* A refusal of a revision the page has left behind is tried again; any other, and a
\* failure on a copy known to be frozen, ends in a recovery.
SaveRefused ==
  /\ alive /\ chain = "saving"
  /\ call.state \in {"stale", "frozen"} \/ (call.state = "failed" /\ view = "frozen")
  /\ IF call.state = "stale" /\ call.revision # revision
     THEN Attempt /\ UNCHANGED act /\ NotSaving
     ELSE RecordRecovery

SaveFailed ==
  /\ alive /\ chain = "saving" /\ call.state = "failed" /\ view # "frozen"
  /\ saveState' = "failed"
  /\ chain' = "none" /\ call' = NoCall
  /\ UNCHANGED <<timer, dirty, act>> /\ NotSaving

(***************************************************************************)
(* Loading the draft.                                                      *)
(***************************************************************************)
\* Variant: a reload that failed keeps nothing, as there is nothing to compare with.
DivergentOnlyFromLoaded(c) ==
  LET F == IF load.state = "read" THEN {f \in Fields : c[f] # load.copy.content[f]} ELSE {}
  IN IF F = {} THEN {} ELSE {[content |-> Restrict(c, F), resolved |-> FALSE]}

\* What the replaced copy holds and the loaded one does not; with no loaded copy,
\* all of it.
Divergent(c) ==
  LET F == IF load.state = "read" THEN {f \in Fields : c[f] # load.copy.content[f]} ELSE Fields
  IN IF F = {} THEN {} ELSE {[content |-> Restrict(c, F), resolved |-> FALSE]}

LoadLands ==
  /\ load.state = "read"
  /\ text' = load.copy.content
  /\ revision' = load.copy.revision
  /\ view' = IF load.copy.open THEN "open" ELSE "frozen"
  /\ seen' = seen \union Range(load.copy.content)
  /\ refused' = refused \union IF load.why = "recover" THEN Divergent(text) ELSE {}
  /\ IF load.why \in {"recover", "retry"}
     THEN timer' = FALSE /\ dirty' = FALSE /\ reported' = FALSE /\ reloadFailed' = FALSE
     ELSE UNCHANGED <<timer, dirty, reported, reloadFailed>>
  /\ act' = IF load.why = "act" THEN NoAct ELSE act
  /\ load' = NoLoad
  /\ UNCHANGED <<server, saveState, wire, alive, chain, teardown, counts, mine>>

LoadFails ==
  /\ load.state = "failed"
  /\ view' = "none"
  /\ refused' = refused \union IF load.why = "recover" THEN Divergent(text) ELSE {}
  /\ IF load.why \in {"recover", "retry"}
     THEN timer' = FALSE /\ dirty' = FALSE /\ reloadFailed' = TRUE
     ELSE UNCHANGED <<timer, dirty, reloadFailed>>
  /\ act' = IF load.why = "act" THEN NoAct ELSE act
  /\ load' = NoLoad
  /\ UNCHANGED <<server, text, revision, saveState, reported, wire, alive, chain, teardown,
                 counts, mine, seen>>

ReloadLatestDraft ==
  /\ alive /\ reloadFailed /\ load = NoLoad
  /\ load' = Loading("retry")
  /\ UNCHANGED <<server, editor, wire, view, alive, chain, act, teardown, counts, mine, seen>>

(***************************************************************************)
(* Workflow acts: flush the edits, stop if one could not be saved or a     *)
(* refusal is unresolved, then ask with the revision the page holds.       *)
(***************************************************************************)
StartAct ==
  /\ Editable /\ act = NoAct /\ moves < MaxOthers
  /\ moves' = moves + 1
  /\ \E k \in {"submit", "link"} : act' = [NoAct EXCEPT !.kind = k, !.stage = "flush"]
  /\ UNCHANGED <<server, editor, wire, view, alive, chain, load, teardown, edits, faults, written,
                 mine, seen>>

\* One turn of the flush: an armed timer is a save of its own, a running chain is
\* waited for.  It gives up after a save that failed or was refused.
FlushSaves ==
  /\ timer
  /\ \/ act.stage = "flush"
     \/ act.stage = "awaited" /\ chain = "none" /\ ~reported /\ saveState # "failed"
  /\ SaveNow
  /\ act' = [act EXCEPT !.stage = "awaited"]
  /\ NotSaving

FlushWaits ==
  /\ act.stage = "flush" /\ ~timer /\ chain # "none"
  /\ act' = [act EXCEPT !.stage = "awaited"]
  /\ UNCHANGED <<server, editor, wire, view, alive, chain, load, teardown, counts, mine, seen>>

\* Variant: one save awaited is a flush, whatever was typed meanwhile.
FlushDoneAfterOneSave ==
  /\ chain = "none"
  /\ (act.stage = "flush" /\ ~timer) \/ act.stage = "awaited"

FlushDone ==
  /\ chain = "none"
  /\ \/ act.stage = "flush" /\ ~timer
     \/ act.stage = "awaited" /\ (~timer \/ reported \/ saveState = "failed")

AskAct ==
  /\ FlushDone
  /\ act' = IF saveState = "failed" \/ Unresolved
            THEN NoAct
            ELSE [act EXCEPT !.stage = "asked", !.revision = revision, !.shown = text]
  /\ UNCHANGED <<server, editor, wire, view, alive, chain, load, teardown, counts, mine, seen>>

\* What froze or moved on is loaded again; a link's answer carries the new revision.
ActAnswered ==
  /\ act.stage \in {"done", "stale", "frozen", "failed"}
  /\ LET reloads == act.stage = "stale" \/ (act.stage = "done" /\ act.kind = "submit") IN
     IF alive /\ reloads
     THEN /\ load' = Loading("act")
          /\ act' = [act EXCEPT !.stage = "reloading"]
          /\ UNCHANGED revision
     ELSE /\ revision' = IF alive /\ act.stage = "done" THEN act.revision + 1 ELSE revision
          /\ act' = NoAct
          /\ UNCHANGED load
  /\ UNCHANGED <<server, text, saveState, timer, dirty, reported, reloadFailed, refused, wire,
                 view, alive, chain, teardown, counts, mine, seen>>

(***************************************************************************)
(* Leaving the page.                                                       *)
(***************************************************************************)
\* The controller is destroyed, whatever brought that about: buffers are dropped, an
\* edit still waiting is kept for one last save.
Leave ==
  /\ alive
  /\ alive' = FALSE
  /\ timer' = FALSE /\ dirty' = FALSE /\ refused' = {}
  /\ load' = NoLoad
  /\ act' = IF act.stage = "asked" THEN act ELSE NoAct
  /\ teardown' = IF (timer \/ dirty) /\ ~reported
                 THEN [stage |-> "waiting", content |-> text] ELSE NoTeardown
  /\ UNCHANGED <<server, text, revision, saveState, reported, reloadFailed, wire, view, chain,
                 counts, mine, seen>>

\* The answer of a save that outlived its page: an accepted revision orders the last
\* save, a refusal or a copy known to be frozen stops it.
LateAnswer ==
  /\ ~alive /\ chain = "saving" /\ call.state # "travelling"
  /\ revision' = IF call.state = "accepted" THEN call.next ELSE revision
  /\ reported' = (reported \/ call.state \in {"stale", "frozen"}
                  \/ (call.state = "failed" /\ view = "frozen"))
  /\ chain' = "none" /\ call' = NoCall
  /\ UNCHANGED <<server, text, saveState, timer, dirty, reloadFailed, refused, ghosts, meta,
                 view, alive, load, act, teardown, counts, mine, seen>>

SaveOnTeardown ==
  /\ teardown.stage = "waiting" /\ chain = "none"
  /\ IF reported
     THEN teardown' = NoTeardown /\ UNCHANGED call
     ELSE /\ call' = Sent(revision, teardown.content)
          /\ teardown' = [teardown EXCEPT !.stage = "sent"]
  /\ UNCHANGED <<server, editor, ghosts, meta, view, alive, chain, load, act, counts, mine, seen>>

TeardownAnswered ==
  /\ teardown.stage = "sent" /\ call.state # "travelling"
  /\ call' = NoCall /\ teardown' = NoTeardown
  /\ UNCHANGED <<server, editor, ghosts, meta, view, alive, chain, load, act, counts, mine, seen>>

(***************************************************************************)
(* Specification.                                                          *)
(***************************************************************************)
Init ==
  /\ srv = [revision |-> 0, content |-> Blank, open |-> TRUE] /\ carried = {0}
  /\ text = Blank /\ revision = 0 /\ saveState = "idle"
  /\ timer = FALSE /\ dirty = FALSE /\ reported = FALSE /\ reloadFailed = FALSE
  /\ refused = {}
  /\ call = NoCall /\ ghosts = {} /\ meta = "none"
  /\ view = "none" /\ alive = TRUE /\ chain = "none"
  /\ load = Loading("visit") /\ act = NoAct /\ teardown = NoTeardown
  /\ edits = 0 /\ moves = 0 /\ faults = 0 /\ written = 0
  /\ mine = {} /\ seen = {0}

\* What the page, the server and the timer do by themselves.
System ==
  \/ ServerTakesSave \/ ServerAnswersMeta \/ ServerAnswersLoad \/ ServerTakesAct
  \/ TimerFires \/ SaveLanded \/ SaveRefused \/ SaveFailed \/ MetaAnswered
  \/ LoadLands \/ LoadFails
  \/ FlushSaves \/ FlushWaits \/ AskAct \/ ActAnswered
  \/ LateAnswer \/ SaveOnTeardown \/ TeardownAnswered

Writer ==
  \/ Type \/ PutBack \/ DiscardRefused \/ RetryFailedSave \/ ReloadLatestDraft
  \/ StartAct \/ Leave

World ==
  \/ OtherSaves \/ OtherMovesDraft \/ GhostArrives
  \/ LoseSave \/ LoseMeta \/ LoseLoad \/ LoseAct

Next == System \/ Writer \/ World

Spec == Init /\ [][Next]_vars

\* A request that travels is answered or lost, an answer is handled, and an armed
\* timer fires.  Nobody has to type, retry or click, and nobody else has to act.
FairSpec ==
  /\ Spec
  /\ WF_vars(ServerTakesSave) /\ WF_vars(ServerAnswersMeta) /\ WF_vars(ServerAnswersLoad)
  /\ WF_vars(ServerTakesAct)
  /\ WF_vars(TimerFires)
  /\ WF_vars(SaveLanded) /\ WF_vars(SaveRefused) /\ WF_vars(SaveFailed) /\ WF_vars(MetaAnswered)
  /\ WF_vars(LoadLands) /\ WF_vars(LoadFails)
  /\ WF_vars(FlushSaves \/ FlushWaits \/ AskAct \/ ActAnswered)
  /\ WF_vars(LateAnswer \/ SaveOnTeardown \/ TeardownAnswered)

(***************************************************************************)
(* Properties.                                                             *)
(***************************************************************************)
ServerTypeOK == srv \in Drafts /\ carried \subseteq Texts /\ written \in Nat
CopyTypeOK ==
  /\ text \in Contents /\ revision \in Nat /\ mine \subseteq Texts /\ seen \subseteq Texts
BuffersTypeOK == \A b \in refused : IsBuffer(b)
FlagsTypeOK ==
  /\ saveState \in SaveStates
  /\ timer \in BOOLEAN /\ dirty \in BOOLEAN /\ reported \in BOOLEAN /\ reloadFailed \in BOOLEAN
  /\ view \in {"none", "open", "frozen"} /\ alive \in BOOLEAN
  /\ chain \in {"none", "saving", "refreshing"}
  /\ meta \in {"none", "travelling", "open", "frozen", "failed"}
CallsTypeOK ==
  /\ call = NoCall \/ call \in Calls
  /\ ghosts \subseteq [revision : Nat, content : Contents]
LoadTypeOK ==
  load \in [why : {"none", "visit", "recover", "retry", "act"},
            state : {"none", "travelling", "read", "failed"}, copy : Drafts]
ActTypeOK ==
  act \in [kind : {"none", "submit", "link"},
           stage : {"none", "flush", "awaited", "asked", "done", "stale", "frozen",
                    "failed", "reloading"},
           revision : Nat, shown : Contents]
TeardownTypeOK ==
  /\ teardown \in [stage : {"none", "waiting", "sent"}, content : Contents]
  /\ edits \in Nat /\ moves \in Nat /\ faults \in Nat

EditorTypeOK ==
  /\ ServerTypeOK /\ CopyTypeOK /\ BuffersTypeOK /\ FlagsTypeOK /\ CallsTypeOK
  /\ LoadTypeOK /\ ActTypeOK /\ TeardownTypeOK

\* No text the writer typed is lost while the page stands: it is in a revision the
\* server stored, in a buffer the page shows, or still in a working copy that the
\* page will not let the writer leave.
TypedTextSurvives ==
  alive => \A t \in mine :
    t \in carried \/ t \in Buffered \/ (t \in Range(text) /\ ~MayLeave)

\* The page never replaces a stored text its writer has not had in front of them:
\* whatever a save of this page overwrites on the server, the working copy once held.
OverwritesOnlyWhatWasSeen ==
  [][(ServerTakesSave \/ GhostArrives) =>
       \A f \in Fields : srv'.content[f] # srv.content[f] => srv.content[f] \in seen]_vars

\* What the page's submission freezes is the copy the page showed when it asked.
SubmitsWhatWasShown ==
  [][ServerTakesAct /\ srv'.open # srv.open => srv.content = act.shown]_vars

\* Every text the writer types settles by itself: the server stores it, a buffer
\* keeps it, or the page says that the save failed.
Settled(t) ==
  \/ t \notin mine \/ t \in carried \/ t \in Buffered
  \/ saveState = "failed" \/ ~alive

EditsSettle == \A t \in 1..(MaxEdits + MaxOthers) : t \in mine ~> Settled(t)
=============================================================================
