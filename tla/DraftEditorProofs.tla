--------------------------- MODULE DraftEditorProofs ---------------------------
(***************************************************************************)
(* What the page keeps of its writer's text and of what others stored, for *)
(* any fields and any number of edits, rival writes and losses.            *)
(***************************************************************************)
EXTENDS DraftEditor, TLAPS

(***************************************************************************)
(* Types, one group of variables at a time.                                *)
(***************************************************************************)
\* What the records' types say of their fields.
LEMMA TypedFields ==
  ASSUME EditorTypeOK
  PROVE  /\ \A c \in Contents : Range(c) \subseteq Texts
         /\ Blank \in Contents /\ NoDraft \in Drafts
         /\ call.state # "none" => call \in Calls
         /\ call \in Calls => /\ call.revision \in Nat /\ call.next \in Nat
                              /\ call.content \in Contents
         /\ srv.revision \in Nat /\ srv.content \in Contents /\ srv.open \in BOOLEAN
         /\ load.copy.revision \in Nat /\ load.copy.content \in Contents
         /\ \A r \in Nat, c \in Contents : Sent(r, c) \in Calls
<1> USE DEF EditorTypeOK, Contents, Texts
<1>1. \A c \in Contents : Range(c) \subseteq Texts
  BY DEF Range
<1>2. Blank \in Contents
  BY DEF Blank
<1>3. NoDraft \in Drafts
  BY <1>2 DEF NoDraft, Drafts
<1>4. call.state # "none" => call \in Calls
  BY DEF CallsTypeOK, NoCall
<1>5. call \in Calls => /\ call.revision \in Nat /\ call.next \in Nat
                        /\ call.content \in Contents
  BY DEF Calls
<1>6. srv.revision \in Nat /\ srv.content \in Contents /\ srv.open \in BOOLEAN
  BY DEF ServerTypeOK, Drafts
<1>7. load.copy.revision \in Nat /\ load.copy.content \in Contents
  <2>1. load.copy \in Drafts
    BY DEF LoadTypeOK
  <2> QED BY <2>1 DEF Drafts
<1>8. \A r \in Nat, c \in Contents : Sent(r, c) \in Calls
  BY DEF Sent, Calls, CallStates
<1> QED BY <1>1, <1>2, <1>3, <1>4, <1>5, <1>6, <1>7, <1>8

\* The ways a stored draft changes.
LEMMA DraftChanges ==
  ASSUME NEW d \in Drafts
  PROVE  /\ \A o \in BOOLEAN : [d EXCEPT !.open = o] \in Drafts
         /\ [d EXCEPT !.open = ~@] \in Drafts
         /\ [d EXCEPT !.revision = @ + 1] \in Drafts
         /\ \A c \in Contents : [d EXCEPT !.revision = @ + 1, !.content = c] \in Drafts
<1>1. \A o \in BOOLEAN : [d EXCEPT !.open = o] \in Drafts
  BY DEF Drafts
<1>2. [d EXCEPT !.open = ~@] \in Drafts
  BY DEF Drafts
<1>3. [d EXCEPT !.revision = @ + 1] \in Drafts
  BY DEF Drafts
<1>4. ASSUME NEW c \in Contents
      PROVE  [d EXCEPT !.revision = @ + 1, !.content = c] \in Drafts
  <2>1. [d EXCEPT !.revision = @ + 1, !.content = c]
          = [[d EXCEPT !.revision = @ + 1] EXCEPT !.content = c]
    OBVIOUS
  <2>2. [[d EXCEPT !.revision = @ + 1] EXCEPT !.content = c] \in Drafts
    BY <1>3 DEF Drafts
  <2> QED BY <2>1, <2>2
<1> QED BY <1>1, <1>2, <1>3, <1>4

\* A save stores a draft.
LEMMA StoreSaveType ==
  ASSUME EditorTypeOK, NEW r \in Nat, NEW c \in Contents, StoreSave(r, c)
  PROVE  srv' \in Drafts /\ carried' \subseteq Texts
<1>1. [srv EXCEPT !.revision = @ + 1, !.content = c] \in Drafts
  BY DraftChanges DEF EditorTypeOK, ServerTypeOK
<1>2. carried \union Range(c) \subseteq Texts
  BY TypedFields DEF EditorTypeOK, ServerTypeOK
<1> QED
  BY <1>1, <1>2 DEF StoreSave, server, EditorTypeOK, ServerTypeOK

LEMMA ServerTypeKept == EditorTypeOK /\ [Next]_vars => ServerTypeOK'
<1> SUFFICES ASSUME EditorTypeOK, [Next]_vars PROVE ServerTypeOK'
  OBVIOUS
<1> USE DEF EditorTypeOK, ServerTypeOK
<1>1. CASE ServerTakesSave
  <2>1. call.revision \in Nat /\ call.content \in Contents
    BY <1>1, TypedFields DEF ServerTakesSave
  <2> QED BY <1>1, <2>1, StoreSaveType DEF ServerTakesSave, counts
<1>2. CASE GhostArrives
  <2>1. PICK g \in ghosts : StoreSave(g.revision, g.content) /\ written' = written
    BY <1>2 DEF GhostArrives, counts
  <2>2. g.revision \in Nat /\ g.content \in Contents
    BY DEF CallsTypeOK
  <2> QED BY <2>1, <2>2, StoreSaveType
<1>3. CASE ServerTakesAct
  <2>1. /\ [srv EXCEPT !.open = FALSE] \in Drafts
        /\ [srv EXCEPT !.revision = @ + 1] \in Drafts
    BY DraftChanges
  <2> QED BY <1>3, <2>1 DEF ServerTakesAct, counts
<1>4. CASE OtherSaves
  <2>1. PICK f \in Fields, c \in Contents :
          /\ c = [srv.content EXCEPT ![f] = written + 1]
          /\ srv' = [srv EXCEPT !.revision = @ + 1, !.content = c]
          /\ carried' = carried \union Range(c)
    <3>1. \A f \in Fields : [srv.content EXCEPT ![f] = written + 1] \in Contents
      BY TypedFields DEF Contents, Texts
    <3> QED BY <1>4, <3>1 DEF OtherSaves
  <2>2. srv' \in Drafts
    BY <2>1, DraftChanges
  <2> QED BY <1>4, <2>1, <2>2, TypedFields DEF OtherSaves
<1>5. CASE OtherMovesDraft
  BY <1>5, DraftChanges DEF OtherMovesDraft
<1>6. CASE Type
  BY <1>6 DEF Type, Edit, server
<1>7. CASE \/ ServerAnswersMeta \/ ServerAnswersLoad \/ TimerFires \/ SaveLanded
           \/ SaveRefused \/ SaveFailed \/ MetaAnswered \/ LoadLands \/ LoadFails
           \/ FlushSaves \/ FlushWaits \/ AskAct \/ ActAnswered \/ LateAnswer
           \/ SaveOnTeardown \/ TeardownAnswered \/ PutBack \/ DiscardRefused
           \/ RetryFailedSave \/ ReloadLatestDraft \/ StartAct \/ Leave
           \/ LoseSave \/ LoseMeta \/ LoseLoad \/ LoseAct \/ UNCHANGED vars
  <2>1. UNCHANGED <<srv, carried, written>>
    BY <1>7
       DEF ServerAnswersMeta, ServerAnswersLoad, TimerFires, NotSaving, SaveLanded,
           SaveRefused, RecordRecovery, SaveFailed, MetaAnswered, LoadLands, LoadFails,
           FlushSaves, FlushWaits, AskAct, ActAnswered, LateAnswer, SaveOnTeardown,
           TeardownAnswered, PutBack, Edit, DiscardRefused, RetryFailedSave,
           ReloadLatestDraft, StartAct, Leave, LoseSave, LoseMeta, LoseLoad, LoseAct,
           vars, server, counts
  <2> QED BY <2>1
<1> QED
  BY <1>1, <1>2, <1>3, <1>4, <1>5, <1>6, <1>7 DEF Next, System, Writer, World

LEMMA CopyTypeKept == EditorTypeOK /\ [Next]_vars => CopyTypeOK'
<1> SUFFICES ASSUME EditorTypeOK, [Next]_vars PROVE CopyTypeOK'
  OBVIOUS
<1> USE DEF EditorTypeOK, CopyTypeOK
<1>1. CASE SaveLanded \/ LateAnswer
  <2>1. call.state = "accepted" => call.next \in Nat
    BY TypedFields
  <2>2. UNCHANGED <<text, mine, seen>>
    BY <1>1 DEF SaveLanded, LateAnswer
  <2>3. revision' = revision \/ (call.state = "accepted" /\ revision' = call.next)
    BY <1>1 DEF SaveLanded, LateAnswer
  <2> QED BY <2>1, <2>2, <2>3
<1>2. CASE LoadLands
  <2>1. text' = load.copy.content /\ revision' = load.copy.revision /\ mine' = mine
        /\ seen' = seen \union Range(load.copy.content)
    BY <1>2 DEF LoadLands
  <2> QED BY <2>1, TypedFields
<1>3. CASE ActAnswered
  <2>1. act.revision \in Nat
    BY DEF ActTypeOK
  <2>2. /\ UNCHANGED <<text, mine, seen>>
        /\ revision' = revision \/ revision' = act.revision + 1
    BY <1>3 DEF ActAnswered
  <2> QED BY <2>1, <2>2
<1>4. CASE Type
  <2>1. PICK f \in Fields : Edit(f, written + 1) /\ mine' = (mine \ {text[f]}) \union {written + 1}
    BY <1>4 DEF Type
  <2>2. /\ text' = [text EXCEPT ![f] = written + 1] /\ seen' = seen \union {written + 1}
        /\ revision' = revision
    BY <2>1 DEF Edit
  <2>3. written + 1 \in Texts
    BY DEF ServerTypeOK, Texts
  <2> QED BY <2>1, <2>2, <2>3 DEF Contents
<1>5. CASE PutBack
  <2>1. PICK b \in refused : \E f \in DOMAIN b.content :
          Edit(f, b.content[f]) /\ mine' = mine \ {text[f]}
    BY <1>5 DEF PutBack
  <2> PICK f \in DOMAIN b.content : Edit(f, b.content[f]) /\ mine' = mine \ {text[f]}
    BY <2>1
  <2>2. /\ text' = [text EXCEPT ![f] = b.content[f]] /\ seen' = seen \union {b.content[f]}
        /\ revision' = revision
    BY DEF Edit
  <2>3. b.content[f] \in Texts
    BY DEF BuffersTypeOK, IsBuffer
  <2> QED BY <2>2, <2>3 DEF Contents
<1>6. CASE DiscardRefused
  BY <1>6 DEF DiscardRefused
<1>7. CASE \/ ServerTakesSave \/ ServerAnswersMeta \/ ServerAnswersLoad \/ ServerTakesAct
           \/ TimerFires \/ SaveRefused \/ SaveFailed \/ MetaAnswered \/ LoadFails
           \/ FlushSaves \/ FlushWaits \/ AskAct \/ SaveOnTeardown \/ TeardownAnswered
           \/ RetryFailedSave \/ ReloadLatestDraft \/ StartAct \/ Leave
           \/ OtherSaves \/ OtherMovesDraft \/ GhostArrives
           \/ LoseSave \/ LoseMeta \/ LoseLoad \/ LoseAct \/ UNCHANGED vars
  <2>1. UNCHANGED <<text, revision, mine, seen>>
    BY <1>7
       DEF ServerTakesSave, ServerAnswersMeta, ServerAnswersLoad, ServerTakesAct,
           TimerFires, NotSaving, SaveRefused, RecordRecovery, SaveFailed, MetaAnswered,
           LoadFails, FlushSaves, FlushWaits, AskAct, SaveOnTeardown, TeardownAnswered,
           RetryFailedSave, ReloadLatestDraft, StartAct, Leave, OtherSaves,
           OtherMovesDraft, Elsewhere, GhostArrives, LoseSave, LoseMeta, LoseLoad,
           LoseAct, vars, editor
  <2> QED BY <2>1
<1> QED
  BY <1>1, <1>2, <1>3, <1>4, <1>5, <1>6, <1>7 DEF Next, System, Writer, World

\* What a load leaves behind of the copy it replaced.
LEMMA DivergentType ==
  ASSUME EditorTypeOK PROVE \A b \in Divergent(text) : IsBuffer(b)
<1>1. ASSUME NEW F \in SUBSET Fields PROVE IsBuffer([content |-> Restrict(text, F), resolved |-> FALSE])
  <2>1. Restrict(text, F) \in [F -> Texts]
    BY DEF Restrict, EditorTypeOK, CopyTypeOK, Contents
  <2> QED BY <2>1 DEF IsBuffer
<1> QED BY <1>1 DEF Divergent

LEMMA BuffersTypeKept == EditorTypeOK /\ [Next]_vars => BuffersTypeOK'
<1> SUFFICES ASSUME EditorTypeOK, [Next]_vars PROVE BuffersTypeOK'
  OBVIOUS
<1> USE DEF EditorTypeOK, BuffersTypeOK
<1>1. CASE SaveLanded
  <2>1. ASSUME NEW b \in refused, NEW r \in BOOLEAN PROVE IsBuffer([b EXCEPT !.resolved = r])
    BY DEF IsBuffer
  <2>2. \A b \in refused : (b.resolved \/ Carries(b, call.content)) \in BOOLEAN
    BY DEF Carries
  <2>3. \A b \in refused : IsBuffer([b EXCEPT !.resolved = @ \/ Carries(b, call.content)])
    BY <2>1, <2>2
  <2> QED BY <1>1, <2>3 DEF SaveLanded
<1>2. CASE LoadLands \/ LoadFails
  <2>1. refused' \subseteq refused \union Divergent(text)
    BY <1>2 DEF LoadLands, LoadFails
  <2> QED BY <2>1, DivergentType
<1>3. CASE DiscardRefused \/ Leave
  <2>1. refused' \subseteq refused
    BY <1>3 DEF DiscardRefused, Leave
  <2> QED BY <2>1
<1>4. CASE \/ ServerTakesSave \/ ServerAnswersMeta \/ ServerAnswersLoad \/ ServerTakesAct
           \/ TimerFires \/ SaveRefused \/ SaveFailed \/ MetaAnswered \/ FlushSaves
           \/ FlushWaits \/ AskAct \/ ActAnswered \/ LateAnswer \/ SaveOnTeardown
           \/ TeardownAnswered \/ Type \/ PutBack \/ RetryFailedSave
           \/ ReloadLatestDraft \/ StartAct \/ OtherSaves \/ OtherMovesDraft
           \/ GhostArrives \/ LoseSave \/ LoseMeta \/ LoseLoad \/ LoseAct
           \/ UNCHANGED vars
  <2>1. refused' = refused
    BY <1>4
       DEF ServerTakesSave, ServerAnswersMeta, ServerAnswersLoad, ServerTakesAct,
           TimerFires, NotSaving, SaveRefused, RecordRecovery, SaveFailed, MetaAnswered,
           FlushSaves, FlushWaits, AskAct, ActAnswered, LateAnswer, SaveOnTeardown,
           TeardownAnswered, Type, PutBack, Edit, RetryFailedSave, ReloadLatestDraft,
           StartAct, OtherSaves, OtherMovesDraft, Elsewhere, GhostArrives, LoseSave,
           LoseMeta, LoseLoad, LoseAct, vars, editor
  <2> QED BY <2>1
<1> QED BY <1>1, <1>2, <1>3, <1>4 DEF Next, System, Writer, World

LEMMA FlagsTypeKept == EditorTypeOK /\ [Next]_vars => FlagsTypeOK'
<1> SUFFICES ASSUME EditorTypeOK, [Next]_vars PROVE FlagsTypeOK'
  OBVIOUS
<1> USE DEF EditorTypeOK, FlagsTypeOK, SaveStates, server, editor, counts
<1>1. CASE ServerAnswersMeta \/ LoseMeta
  BY <1>1 DEF ServerAnswersMeta, LoseMeta, page
<1>2. CASE TimerFires
  BY <1>2 DEF TimerFires, SaveNow, Attempt, NotSaving
<1>3. CASE RetryFailedSave
  BY <1>3 DEF RetryFailedSave, SaveNow, Attempt, NotSaving
<1>4. CASE FlushSaves
  BY <1>4 DEF FlushSaves, SaveNow, Attempt, NotSaving
<1>5. CASE SaveLanded
  BY <1>5 DEF SaveLanded
<1>6. CASE SaveRefused
  BY <1>6 DEF SaveRefused, RecordRecovery, Attempt, NotSaving
<1>7. CASE SaveFailed
  BY <1>7 DEF SaveFailed, NotSaving
<1>8. CASE MetaAnswered
  BY <1>8 DEF MetaAnswered, Attempt
<1>9. CASE LoadLands \/ LoadFails
  <2>1. CASE LoadLands
    BY <2>1 DEF LoadLands, wire
  <2>2. CASE LoadFails
    BY <2>2 DEF LoadFails, wire
  <2> QED BY <1>9, <2>1, <2>2
<1>10. CASE Type \/ PutBack
  <2>1. PICK f, t : Edit(f, t)
    BY <1>10 DEF Type, PutBack
  <2> QED BY <2>1 DEF Edit, wire, page
<1>11. CASE Leave \/ LateAnswer
  BY <1>11 DEF Leave, LateAnswer, wire
<1>12. CASE \/ ServerTakesSave \/ ServerAnswersLoad \/ ServerTakesAct \/ FlushWaits
            \/ AskAct \/ ActAnswered \/ SaveOnTeardown \/ TeardownAnswered
            \/ DiscardRefused \/ ReloadLatestDraft \/ StartAct \/ OtherSaves
            \/ OtherMovesDraft \/ GhostArrives \/ LoseSave \/ LoseLoad \/ LoseAct
            \/ UNCHANGED vars
  <2>1. UNCHANGED <<saveState, timer, dirty, reported, reloadFailed, view, alive, chain, meta>>
    BY <1>12
       DEF ServerTakesSave, ServerAnswersLoad, ServerTakesAct, FlushWaits, AskAct,
           ActAnswered, SaveOnTeardown, TeardownAnswered, DiscardRefused,
           ReloadLatestDraft, StartAct, OtherSaves, OtherMovesDraft, Elsewhere,
           GhostArrives, LoseSave, LoseLoad, LoseAct, vars, wire, page
  <2> QED BY <2>1
<1> QED
  BY <1>1, <1>2, <1>3, <1>4, <1>5, <1>6, <1>7, <1>8, <1>9, <1>10, <1>11, <1>12
     DEF Next, System, Writer, World

LEMMA CallsTypeKept == EditorTypeOK /\ [Next]_vars => CallsTypeOK'
<1> SUFFICES ASSUME EditorTypeOK, [Next]_vars PROVE CallsTypeOK'
  OBVIOUS
<1> USE DEF EditorTypeOK, CallsTypeOK, wire, page
<1>0. /\ Sent(revision, text) \in Calls /\ Sent(revision, teardown.content) \in Calls
      /\ call.state # "none" => call \in Calls
  BY TypedFields DEF CopyTypeOK, TeardownTypeOK
<1>1. CASE ServerTakesSave
  <2>1. call \in Calls /\ srv.revision + 1 \in Nat /\ Verdict(call.revision) \in CallStates
    BY <1>0, <1>1, TypedFields DEF ServerTakesSave, Verdict, CallStates
  <2>2. [call EXCEPT !.state = Verdict(call.revision), !.next = srv.revision + 1] \in Calls
    <3>1. ASSUME NEW s \in CallStates, NEW n \in Nat, NEW c \in Calls
          PROVE  [c EXCEPT !.state = s, !.next = n] \in Calls
      <4>1. [c EXCEPT !.state = s, !.next = n] = [[c EXCEPT !.state = s] EXCEPT !.next = n]
        OBVIOUS
      <4>2. [c EXCEPT !.state = s] \in Calls
        BY DEF Calls
      <4> QED BY <4>1, <4>2 DEF Calls
    <3> QED BY <2>1, <3>1
  <2> QED BY <1>1, <2>2 DEF ServerTakesSave
<1>2. CASE TimerFires \/ RetryFailedSave \/ FlushSaves
  <2>1. /\ call' = call \/ call' = Sent(revision, text)
        /\ ghosts' = ghosts
    BY <1>2 DEF TimerFires, RetryFailedSave, FlushSaves, SaveNow, Attempt, NotSaving
  <2> QED BY <1>0, <2>1
<1>3. CASE SaveRefused
  <2>1. call' \in {NoCall, Sent(revision, text)} /\ ghosts' = ghosts
    BY <1>3 DEF SaveRefused, RecordRecovery, Attempt, NotSaving
  <2> QED BY <1>0, <2>1
<1>4. CASE MetaAnswered
  <2>1. call' \in {call, Sent(revision, text)} /\ ghosts' = ghosts
    BY <1>4 DEF MetaAnswered, Attempt
  <2> QED BY <1>0, <2>1
<1>5. CASE SaveLanded \/ SaveFailed \/ LateAnswer \/ TeardownAnswered
  <2>1. call' = NoCall /\ ghosts' = ghosts
    BY <1>5 DEF SaveLanded, SaveFailed, NotSaving, LateAnswer, TeardownAnswered
  <2> QED BY <2>1
<1>6. CASE SaveOnTeardown
  <2>1. call' \in {call, Sent(revision, teardown.content)} /\ ghosts' = ghosts
    BY <1>6 DEF SaveOnTeardown
  <2> QED BY <1>0, <2>1
<1>7. CASE GhostArrives
  <2>1. ghosts' \subseteq ghosts /\ call' = call
    BY <1>7 DEF GhostArrives
  <2> QED BY <2>1
<1>8. CASE LoseSave
  <2>1. call \in Calls
    BY <1>0, <1>8 DEF LoseSave, CallStates
  <2>2. /\ [call EXCEPT !.state = "failed"] \in Calls
        /\ [revision |-> call.revision, content |-> call.content]
             \in [revision : Nat, content : Contents]
    BY <2>1 DEF Calls, CallStates
  <2> QED BY <1>8, <2>2 DEF LoseSave
<1>9. CASE \/ ServerAnswersMeta \/ ServerAnswersLoad \/ ServerTakesAct \/ LoadLands
           \/ LoadFails \/ FlushWaits \/ AskAct \/ ActAnswered \/ Type \/ PutBack
           \/ DiscardRefused \/ ReloadLatestDraft \/ StartAct \/ Leave \/ OtherSaves
           \/ OtherMovesDraft \/ LoseMeta \/ LoseLoad \/ LoseAct \/ UNCHANGED vars
  <2>1. UNCHANGED <<call, ghosts>>
    BY <1>9
       DEF ServerAnswersMeta, ServerAnswersLoad, ServerTakesAct, LoadLands, LoadFails,
           FlushWaits, AskAct, ActAnswered, Type, PutBack, Edit, DiscardRefused,
           ReloadLatestDraft, StartAct, Leave, OtherSaves, OtherMovesDraft, Elsewhere,
           LoseMeta, LoseLoad, LoseAct, vars
  <2> QED BY <2>1
<1> QED
  BY <1>1, <1>2, <1>3, <1>4, <1>5, <1>6, <1>7, <1>8, <1>9 DEF Next, System, Writer, World

LEMMA LoadTypeKept == EditorTypeOK /\ [Next]_vars => LoadTypeOK'
<1> SUFFICES ASSUME EditorTypeOK, [Next]_vars PROVE LoadTypeOK'
  OBVIOUS
<1> USE DEF EditorTypeOK, LoadTypeOK
<1> DEFINE Loads == [why : {"none", "visit", "recover", "retry", "act"},
                     state : {"none", "travelling", "read", "failed"}, copy : Drafts]
<1>0. /\ NoLoad \in Loads
      /\ Loading("recover") \in Loads /\ Loading("retry") \in Loads /\ Loading("act") \in Loads
  BY TypedFields DEF NoLoad, Loading
<1>1. CASE ServerAnswersLoad
  <2>1. ASSUME NEW l \in Loads, NEW d \in Drafts
        PROVE  [l EXCEPT !.state = "read", !.copy = d] \in Loads
    <3>1. [l EXCEPT !.state = "read", !.copy = d] = [[l EXCEPT !.state = "read"] EXCEPT !.copy = d]
      OBVIOUS
    <3>2. [l EXCEPT !.state = "read"] \in Loads
      OBVIOUS
    <3> QED BY <3>1, <3>2
  <2> QED BY <1>1, <2>1 DEF ServerAnswersLoad, ServerTypeOK
<1>2. CASE LoseLoad
  BY <1>2 DEF LoseLoad
<1>3. CASE \/ SaveRefused \/ LoadLands \/ LoadFails \/ ActAnswered \/ ReloadLatestDraft
           \/ Leave
  <2>1. load' \in {load, NoLoad, Loading("recover"), Loading("retry"), Loading("act")}
    BY <1>3
       DEF SaveRefused, RecordRecovery, NotSaving, LoadLands, LoadFails, ActAnswered,
           ReloadLatestDraft, Leave
  <2> HIDE DEF Loads
  <2>2. load \in Loads
    BY DEF Loads
  <2> QED BY <1>0, <2>1, <2>2 DEF Loads
<1>4. CASE \/ ServerTakesSave \/ ServerAnswersMeta \/ ServerTakesAct \/ TimerFires
           \/ SaveLanded \/ SaveFailed \/ MetaAnswered \/ FlushSaves \/ FlushWaits
           \/ AskAct \/ LateAnswer \/ SaveOnTeardown \/ TeardownAnswered \/ Type
           \/ PutBack \/ DiscardRefused \/ RetryFailedSave \/ StartAct \/ OtherSaves
           \/ OtherMovesDraft \/ GhostArrives \/ LoseSave \/ LoseMeta \/ LoseAct
           \/ UNCHANGED vars
  <2>1. load' = load
    BY <1>4
       DEF ServerTakesSave, ServerAnswersMeta, ServerTakesAct, TimerFires, NotSaving,
           SaveLanded, SaveFailed, MetaAnswered, FlushSaves, FlushWaits, AskAct,
           LateAnswer, SaveOnTeardown, TeardownAnswered, Type, PutBack, Edit,
           DiscardRefused, RetryFailedSave, StartAct, OtherSaves, OtherMovesDraft,
           Elsewhere, GhostArrives, LoseSave, LoseMeta, LoseAct, vars, page
  <2> QED BY <2>1
<1> QED BY <1>1, <1>2, <1>3, <1>4 DEF Next, System, Writer, World

LEMMA ActTypeKept == EditorTypeOK /\ [Next]_vars => ActTypeOK'
<1> SUFFICES ASSUME EditorTypeOK, [Next]_vars PROVE ActTypeOK'
  OBVIOUS
<1> DEFINE Acts == [kind : {"none", "submit", "link"},
                    stage : {"none", "flush", "awaited", "asked", "done", "stale", "frozen",
                             "failed", "reloading"},
                    revision : Nat, shown : Contents]
<1>0. act \in Acts /\ NoAct \in Acts
  BY TypedFields DEF NoAct, EditorTypeOK, ActTypeOK
<1>1. ASSUME NEW a \in Acts,
             NEW s \in {"none", "flush", "awaited", "asked", "done", "stale", "frozen",
                        "failed", "reloading"}
      PROVE  [a EXCEPT !.stage = s] \in Acts
  OBVIOUS
<1>2. ASSUME NEW a \in Acts, NEW r \in Nat, NEW c \in Contents
      PROVE  [a EXCEPT !.stage = "asked", !.revision = r, !.shown = c] \in Acts
  <2>1. [a EXCEPT !.stage = "asked", !.revision = r, !.shown = c]
          = [[[a EXCEPT !.stage = "asked"] EXCEPT !.revision = r] EXCEPT !.shown = c]
    OBVIOUS
  <2>2. [[a EXCEPT !.stage = "asked"] EXCEPT !.revision = r] \in Acts
    <3>1. [a EXCEPT !.stage = "asked"] \in Acts
      BY <1>1
    <3> QED BY <3>1
  <2> QED BY <2>1, <2>2
<1>3. ASSUME NEW k \in {"submit", "link"}
      PROVE  [NoAct EXCEPT !.kind = k, !.stage = "flush"] \in Acts
  <2>1. [NoAct EXCEPT !.kind = k, !.stage = "flush"]
          = [[NoAct EXCEPT !.kind = k] EXCEPT !.stage = "flush"]
    OBVIOUS
  <2>2. [NoAct EXCEPT !.kind = k] \in Acts
    BY <1>0
  <2> QED BY <2>1, <2>2
<1> SUFFICES act' \in Acts
  BY DEF ActTypeOK
<1>4. CASE ServerTakesAct
  <2>1. PICK s \in {"done", "stale", "frozen"} : act' = [act EXCEPT !.stage = s]
    BY <1>4 DEF ServerTakesAct, Verdict
  <2> HIDE DEF Acts
  <2> QED BY <1>0, <1>1, <2>1
<1>5. CASE FlushSaves \/ FlushWaits \/ ActAnswered \/ LoseAct
  <2>1. act' = NoAct \/ \E s \in {"awaited", "reloading", "failed"} : act' = [act EXCEPT !.stage = s]
    BY <1>5 DEF FlushSaves, FlushWaits, ActAnswered, LoseAct
  <2> HIDE DEF Acts
  <2> QED BY <1>0, <1>1, <2>1
<1>6. CASE AskAct
  <2>1. act' = NoAct \/ act' = [act EXCEPT !.stage = "asked", !.revision = revision, !.shown = text]
    BY <1>6 DEF AskAct
  <2> HIDE DEF Acts
  <2> QED BY <1>0, <1>2, <2>1 DEF EditorTypeOK, CopyTypeOK
<1>7. CASE StartAct
  <2> HIDE DEF Acts
  <2> QED BY <1>3, <1>7 DEF StartAct
<1>8. CASE \/ ServerTakesSave \/ ServerAnswersMeta \/ ServerAnswersLoad \/ TimerFires
           \/ SaveLanded \/ SaveRefused \/ SaveFailed \/ MetaAnswered \/ LoadLands
           \/ LoadFails \/ LateAnswer \/ SaveOnTeardown \/ TeardownAnswered \/ Type
           \/ PutBack \/ DiscardRefused \/ RetryFailedSave \/ ReloadLatestDraft
           \/ Leave \/ OtherSaves \/ OtherMovesDraft \/ GhostArrives \/ LoseSave
           \/ LoseMeta \/ LoseLoad \/ UNCHANGED vars
  <2>1. act' = act \/ act' = NoAct
    BY <1>8
       DEF ServerTakesSave, ServerAnswersMeta, ServerAnswersLoad, TimerFires, NotSaving,
           SaveLanded, SaveRefused, RecordRecovery, SaveFailed, MetaAnswered, LoadLands,
           LoadFails, LateAnswer, SaveOnTeardown, TeardownAnswered, Type, PutBack, Edit,
           DiscardRefused, RetryFailedSave, ReloadLatestDraft, Leave, OtherSaves,
           OtherMovesDraft, Elsewhere, GhostArrives, LoseSave, LoseMeta, LoseLoad, vars,
           page
  <2> HIDE DEF Acts
  <2> QED BY <1>0, <2>1
<1> QED
  BY <1>4, <1>5, <1>6, <1>7, <1>8 DEF Next, System, Writer, World

LEMMA TeardownTypeKept == EditorTypeOK /\ [Next]_vars => TeardownTypeOK'
<1> SUFFICES ASSUME EditorTypeOK, [Next]_vars PROVE TeardownTypeOK'
  OBVIOUS
<1> USE DEF EditorTypeOK, TeardownTypeOK
<1> DEFINE Teardowns == [stage : {"none", "waiting", "sent"}, content : Contents]
<1>1. teardown' \in Teardowns
  <2>0. /\ NoTeardown \in Teardowns /\ [stage |-> "waiting", content |-> text] \in Teardowns
        /\ [teardown EXCEPT !.stage = "sent"] \in Teardowns
    BY TypedFields DEF NoTeardown, CopyTypeOK
  <2>1. teardown' \in {teardown, NoTeardown, [stage |-> "waiting", content |-> text],
                       [teardown EXCEPT !.stage = "sent"]}
    BY DEF Next, System, Writer, World, ServerTakesSave, ServerAnswersMeta,
           ServerAnswersLoad, ServerTakesAct, TimerFires, NotSaving, SaveLanded,
           SaveRefused, RecordRecovery, SaveFailed, MetaAnswered, LoadLands, LoadFails,
           FlushSaves, FlushWaits, AskAct, ActAnswered, LateAnswer, SaveOnTeardown,
           TeardownAnswered, Type, PutBack, Edit, DiscardRefused, RetryFailedSave,
           ReloadLatestDraft, StartAct, Leave, OtherSaves, OtherMovesDraft, Elsewhere,
           GhostArrives, LoseSave, LoseMeta, LoseLoad, LoseAct, vars, page
  <2> HIDE DEF Teardowns
  <2>2. teardown \in Teardowns
    BY DEF Teardowns
  <2> QED BY <2>0, <2>1, <2>2
<1>2. /\ edits' \in {edits, edits + 1} /\ moves' \in {moves, moves + 1}
      /\ faults' \in {faults, faults + 1}
  BY DEF Next, System, Writer, World, ServerTakesSave, ServerAnswersMeta,
         ServerAnswersLoad, ServerTakesAct, TimerFires, NotSaving, SaveLanded,
         SaveRefused, RecordRecovery, SaveFailed, MetaAnswered, LoadLands, LoadFails,
         FlushSaves, FlushWaits, AskAct, ActAnswered, LateAnswer, SaveOnTeardown,
         TeardownAnswered, Type, PutBack, Edit, DiscardRefused, RetryFailedSave,
         ReloadLatestDraft, StartAct, Leave, OtherSaves, OtherMovesDraft, Moving,
         Elsewhere, GhostArrives, LoseSave, LoseMeta, LoseLoad, LoseAct, Faulty, vars,
         counts
<1> QED BY <1>1, <1>2

LEMMA TypesInductive == EditorTypeOK /\ [Next]_vars => EditorTypeOK'
BY ServerTypeKept, CopyTypeKept, BuffersTypeKept, FlagsTypeKept, CallsTypeKept,
   LoadTypeKept, ActTypeKept, TeardownTypeKept DEF EditorTypeOK

LEMMA TypesInitially == Init => EditorTypeOK
<1> SUFFICES ASSUME Init PROVE EditorTypeOK
  OBVIOUS
<1>1. Blank \in Contents /\ 0 \in Texts
  BY DEF Blank, Contents, Texts
<1>2. NoDraft \in Drafts /\ [revision |-> 0, content |-> Blank, open |-> TRUE] \in Drafts
  BY <1>1 DEF NoDraft, Drafts
<1>3. ServerTypeOK /\ CopyTypeOK /\ BuffersTypeOK
  BY <1>1, <1>2 DEF Init, ServerTypeOK, CopyTypeOK, BuffersTypeOK
<1>4. FlagsTypeOK /\ CallsTypeOK
  BY DEF Init, FlagsTypeOK, SaveStates, CallsTypeOK
<1>5. LoadTypeOK
  BY <1>2 DEF Init, LoadTypeOK, Loading
<1>6. ActTypeOK /\ TeardownTypeOK
  BY <1>1 DEF Init, ActTypeOK, NoAct, TeardownTypeOK, NoTeardown
<1> QED BY <1>3, <1>4, <1>5, <1>6 DEF EditorTypeOK

\* Whatever is typed, saved, loaded or lost, the page's variables keep their types.
THEOREM EditorTypes == Spec => []EditorTypeOK
BY TypesInitially, TypesInductive, PTL DEF Spec

-----------------------------------------------------------------------------
(***************************************************************************)
(* The page's control.                                                     *)
(***************************************************************************)
\* An act the page has asked for and not yet dealt with the answer of.
Asked == act.stage \in {"asked", "done", "stale", "frozen", "failed"}

\* What the page's flags, its save chain, its load and its act rule out in each other:
\* nothing is saved while a refusal waits for its reload, while there is no draft, or
\* while an act is on its way.
PageControl ==
  /\ reloadFailed => reported /\ view = "none"
  /\ reported => chain = "none" /\ saveState # "failed"
  /\ view = "none" => chain = "none" /\ ~timer /\ saveState # "failed"
  /\ chain = "refreshing" => meta # "none"
  /\ load.state # "none" => chain = "none" /\ load.why # "none"
  /\ load.state # "none" /\ load.why = "recover" => reported
  /\ load.state # "none" /\ load.why = "retry" => reloadFailed
  /\ load.state # "none" /\ load.why = "visit" =>
       view = "none" /\ act.stage = "none" /\ ~reported
  /\ load.state # "none" /\ load.why = "act" => act.stage = "reloading"
  /\ Asked \/ act.stage = "reloading" =>
       chain = "none" /\ ~timer /\ saveState # "failed" /\ ~reported
  /\ Asked => load.state = "none"
  /\ act.stage \in {"flush", "awaited"} /\ view = "none" => reloadFailed

\* A page that was left loads nothing and flushes nothing.
Control ==
  /\ alive => PageControl
  /\ ~alive => load.state = "none" /\ act.stage \notin {"flush", "awaited", "reloading"}

\* A save joins the chain, is held back, or starts an attempt; an act is not on its way.
LEMMA SaveNowControl ==
  ASSUME EditorTypeOK, Control, alive, SaveNow, NotSaving,
         act.stage \in {"none", "flush", "awaited"},
         act' = act \/ (act.stage # "none" /\ act' = [act EXCEPT !.stage = "awaited"])
  PROVE  Control'
<1> USE DEF Control, PageControl, Asked
<1>1. /\ UNCHANGED <<reported, reloadFailed, meta, view, alive, load>>
      /\ act'.stage = act.stage \/ (act.stage # "none" /\ act'.stage = "awaited")
      /\ load.why \in {"none", "visit", "recover", "retry", "act"}
  BY DEF NotSaving, EditorTypeOK, ActTypeOK, LoadTypeOK
<1>2. CASE chain # "none" /\ timer' = FALSE /\ UNCHANGED <<saveState, chain>>
  BY <1>1, <1>2
<1>3. CASE /\ chain = "none" /\ (view = "none" \/ reported) /\ timer' = FALSE
           /\ saveState' = (IF view = "none" THEN saveState ELSE "idle")
           /\ chain' = chain
  BY <1>1, <1>3
<1>4. CASE /\ chain = "none" /\ view # "none" /\ ~reported /\ timer' = FALSE
           /\ saveState' = "saving" /\ chain' = "saving"
  BY <1>1, <1>4
<1> QED BY <1>2, <1>3, <1>4 DEF SaveNow, Attempt

LEMMA ControlInductive == EditorTypeOK /\ Control /\ [Next]_vars => Control'
<1> SUFFICES ASSUME EditorTypeOK, Control, [Next]_vars PROVE Control'
  OBVIOUS
<1>0. FlagsTypeOK /\ LoadTypeOK /\ ActTypeOK
  BY DEF EditorTypeOK
<1>1. CASE TimerFires \/ RetryFailedSave
  <2>1. alive /\ SaveNow /\ NotSaving /\ act' = act /\ (timer \/ act = NoAct)
    BY <1>1 DEF TimerFires, RetryFailedSave, Editable
  <2>2. act.stage \in {"none", "flush", "awaited"}
    BY <1>0, <2>1 DEF Control, PageControl, Asked, ActTypeOK, NoAct
  <2> QED BY <2>1, <2>2, SaveNowControl
<1>2. CASE FlushSaves
  <2>1. /\ SaveNow /\ NotSaving /\ act.stage \in {"flush", "awaited"}
        /\ act' = [act EXCEPT !.stage = "awaited"]
    BY <1>2 DEF FlushSaves
  <2>2. alive
    BY <1>0, <2>1 DEF Control, FlagsTypeOK
  <2> QED BY <2>1, <2>2, SaveNowControl
<1>3. CASE SaveRefused
  <2>1. /\ alive /\ chain = "saving" /\ UNCHANGED <<reloadFailed, view, alive, act, meta>>
        /\ \/ /\ chain' = "saving" /\ saveState' = "saving" /\ timer' = FALSE
              /\ UNCHANGED <<reported, load>>
           \/ /\ chain' = "none" /\ saveState' = "idle" /\ timer' = FALSE /\ reported'
              /\ load' = Loading("recover")
    BY <1>3 DEF SaveRefused, RecordRecovery, Attempt, NotSaving
  <2>2. Loading("recover").why = "recover" /\ Loading("recover").state = "travelling"
    BY DEF Loading
  <2> QED BY <1>0, <2>1, <2>2 DEF Control, PageControl, Asked
<1>4. CASE LoadLands
  <2>1. /\ load.state = "read" /\ load'.state = "none" /\ view' \in {"open", "frozen"}
        /\ IF load.why \in {"recover", "retry"}
           THEN timer' = FALSE /\ reported' = FALSE /\ reloadFailed' = FALSE
           ELSE UNCHANGED <<timer, reported, reloadFailed>>
        /\ act'.stage = IF load.why = "act" THEN "none" ELSE act.stage
        /\ UNCHANGED <<saveState, chain, alive, meta>>
    BY <1>4 DEF LoadLands, wire, NoAct, NoLoad
  <2>2. load.why \in {"none", "visit", "recover", "retry", "act"}
    BY <1>0 DEF LoadTypeOK
  <2> QED BY <2>1, <2>2 DEF Control, PageControl, Asked
<1>5. CASE LoadFails
  <2>1. /\ load.state = "failed" /\ load'.state = "none" /\ view' = "none"
        /\ IF load.why \in {"recover", "retry"}
           THEN timer' = FALSE /\ reloadFailed' = TRUE
           ELSE UNCHANGED <<timer, reloadFailed>>
        /\ act'.stage = IF load.why = "act" THEN "none" ELSE act.stage
        /\ UNCHANGED <<saveState, chain, alive, meta, reported>>
    BY <1>5 DEF LoadFails, wire, NoAct, NoLoad
  <2>2. load.why \in {"none", "visit", "recover", "retry", "act"}
    BY <1>0 DEF LoadTypeOK
  <2> QED BY <2>1, <2>2 DEF Control, PageControl, Asked
<1>6. CASE AskAct
  <2>1. /\ chain = "none" /\ act.stage \in {"flush", "awaited"}
        /\ act.stage = "flush" => ~timer
        /\ act.stage = "awaited" => ~timer \/ reported \/ saveState = "failed"
    BY <1>6 DEF AskAct, FlushDone
  <2>2. /\ UNCHANGED <<reloadFailed, reported, view, chain, saveState, timer, alive, meta, load>>
        /\ \/ act'.stage = "none"
           \/ act'.stage = "asked" /\ saveState # "failed" /\ ~reported /\ ~reloadFailed
    BY <1>0, <1>6 DEF AskAct, Unresolved, NoAct, ActTypeOK, editor, wire
  <2>3. load.why \in {"none", "visit", "recover", "retry", "act"}
    BY <1>0 DEF LoadTypeOK
  <2> QED BY <2>1, <2>2, <2>3 DEF Control, PageControl, Asked
<1> USE <1>0 DEF Control, PageControl, Asked, FlagsTypeOK, LoadTypeOK, ActTypeOK, server,
        editor, wire, page, counts
<1>7. CASE ServerAnswersMeta
  BY <1>7 DEF ServerAnswersMeta
<1>8. CASE ServerAnswersLoad
  BY <1>8 DEF ServerAnswersLoad
<1>9. CASE ServerTakesAct
  BY <1>9 DEF ServerTakesAct, Verdict
<1>10. CASE SaveLanded
  BY <1>10 DEF SaveLanded
<1>11. CASE SaveFailed
  BY <1>11 DEF SaveFailed, NotSaving
<1>12. CASE MetaAnswered
  BY <1>12 DEF MetaAnswered, Attempt
<1>13. CASE FlushWaits
  BY <1>13 DEF FlushWaits
<1>14. CASE ActAnswered
  BY <1>14 DEF ActAnswered, Loading, NoAct
<1>15. CASE LateAnswer
  BY <1>15 DEF LateAnswer
<1>16. CASE Type \/ PutBack
  <2>1. PICK f, t : Edit(f, t)
    BY <1>16 DEF Type, PutBack
  <2> QED BY <2>1 DEF Edit, Editable, workflowRequest
<1>17. CASE ReloadLatestDraft
  BY <1>17 DEF ReloadLatestDraft, Loading
<1>18. CASE StartAct
  BY <1>18 DEF StartAct, Editable, NoAct
<1>19. CASE Leave
  BY <1>19 DEF Leave, NoLoad, NoAct
<1>20. CASE LoseMeta
  BY <1>20 DEF LoseMeta
<1>21. CASE LoseLoad
  BY <1>21 DEF LoseLoad
<1>22. CASE LoseAct
  BY <1>22 DEF LoseAct
<1>23. CASE \/ ServerTakesSave \/ SaveOnTeardown \/ TeardownAnswered \/ DiscardRefused
            \/ OtherSaves \/ OtherMovesDraft \/ GhostArrives \/ LoseSave \/ UNCHANGED vars
  <2>1. UNCHANGED <<reloadFailed, reported, view, chain, saveState, timer, alive, meta, load, act>>
    BY <1>23
       DEF ServerTakesSave, SaveOnTeardown, TeardownAnswered, DiscardRefused, OtherSaves,
           OtherMovesDraft, Elsewhere, GhostArrives, LoseSave, vars
  <2> QED BY <2>1
<1> QED
  BY <1>1, <1>2, <1>3, <1>4, <1>5, <1>6, <1>7, <1>8, <1>9, <1>10, <1>11, <1>12, <1>13,
     <1>14, <1>15, <1>16, <1>17, <1>18, <1>19, <1>20, <1>21, <1>22, <1>23
     DEF Next, System, Writer, World

LEMMA ControlInitially == Init => Control
BY DEF Init, Control, PageControl, Asked, Loading, NoAct

-----------------------------------------------------------------------------
(***************************************************************************)
(* What a save of this page overwrites, its writer has had in front of     *)
(* them.                                                                   *)
(***************************************************************************)
\* The revisions the page may name: a save that names one of them is refused or
\* overwrites what the working copy once held.
Known == {r \in 0..srv.revision : r = srv.revision => Range(srv.content) \subseteq seen}

CopyKnown ==
  /\ Range(text) \subseteq seen /\ revision \in Known
  /\ teardown.stage # "none" => Range(teardown.content) \subseteq seen
CallKnown ==
  /\ call.state # "none" => call.revision \in Known /\ Range(call.content) \subseteq seen
  /\ call.state = "accepted" => call.next \in Known
GhostsKnown == \A g \in ghosts : g.revision \in Known /\ Range(g.content) \subseteq seen
ActKnown ==
  /\ act.stage = "asked" => act.revision \in Known
  /\ act.stage = "done" /\ act.kind # "submit" => act.revision + 1 \in Known
LoadCurrent ==
  load.state = "read" =>
    /\ load.copy.revision \in 0..srv.revision
    /\ load.copy.revision = srv.revision => load.copy.content = srv.content

Tokens == CopyKnown /\ CallKnown /\ GhostsKnown /\ ActKnown /\ LoadCurrent

\* What a save that the server takes stores.
LEMMA Stored ==
  ASSUME EditorTypeOK, NEW r \in Nat, NEW c \in Contents, StoreSave(r, c)
  PROVE  \/ UNCHANGED <<srv, carried>>
         \/ /\ srv.open /\ r = srv.revision
            /\ srv'.revision = srv.revision + 1 /\ srv'.content = c /\ srv'.open = srv.open
            /\ carried' = carried \union Range(c)
<1>1. CASE Verdict(r) = "accepted"
  <2>1. srv.open /\ r = srv.revision
    BY <1>1 DEF Verdict
  <2>2. srv' = [srv EXCEPT !.revision = @ + 1, !.content = c] /\ carried' = carried \union Range(c)
    BY <1>1 DEF StoreSave
  <2>3. srv \in Drafts
    BY DEF EditorTypeOK, ServerTypeOK
  <2> QED BY <2>1, <2>2, <2>3 DEF Drafts
<1>2. CASE Verdict(r) # "accepted"
  BY <1>2 DEF StoreSave, server
<1> QED BY <1>1, <1>2

\* The stored draft's revision never falls, and moves whenever its content does; what
\* was seen stays seen.
LEMMA ServerMoves ==
  ASSUME EditorTypeOK, [Next]_vars
  PROVE  /\ srv'.revision \in Nat /\ seen \subseteq seen' /\ carried \subseteq carried'
         /\ \/ srv'.revision = srv.revision /\ srv'.content = srv.content /\ carried' = carried
            \/ /\ srv'.revision = srv.revision + 1
               /\ carried' = carried \union Range(srv'.content) \/ srv'.content = srv.content
<1>0. srv'.revision \in Nat /\ srv \in Drafts
  <2>1. srv' \in Drafts
    BY TypesInductive DEF EditorTypeOK, ServerTypeOK
  <2> QED BY <2>1 DEF EditorTypeOK, ServerTypeOK, Drafts
<1>1. seen \subseteq seen'
  <2>1. CASE Type \/ PutBack
    <3>1. PICK f, t : Edit(f, t)
      BY <2>1 DEF Type, PutBack
    <3> QED BY <3>1 DEF Edit
  <2>2. CASE LoadLands
    BY <2>2 DEF LoadLands
  <2>3. CASE ~(Type \/ PutBack \/ LoadLands)
    BY <2>3
       DEF Next, System, Writer, World, ServerTakesSave, ServerAnswersMeta,
           ServerAnswersLoad, ServerTakesAct, TimerFires, NotSaving, SaveLanded,
           SaveRefused, RecordRecovery, SaveFailed, MetaAnswered, LoadFails, FlushSaves,
           FlushWaits, AskAct, ActAnswered, LateAnswer, SaveOnTeardown, TeardownAnswered,
           DiscardRefused, RetryFailedSave, ReloadLatestDraft, StartAct, Leave,
           OtherSaves, OtherMovesDraft, Elsewhere, GhostArrives, LoseSave, LoseMeta,
           LoseLoad, LoseAct, vars
  <2> QED BY <2>1, <2>2, <2>3
<1> DEFINE Kept == srv'.revision = srv.revision /\ srv'.content = srv.content /\ carried' = carried
           Moved == /\ srv'.revision = srv.revision + 1
                    /\ \/ carried' = carried \union Range(srv'.content)
                       \/ srv'.content = srv.content /\ carried' = carried
<1>2. Kept \/ Moved
  <2>1. CASE ServerTakesSave
    <3>1. call.revision \in Nat /\ call.content \in Contents
      BY <2>1, TypedFields DEF ServerTakesSave
    <3> QED BY <2>1, <3>1, Stored DEF ServerTakesSave
  <2>2. CASE GhostArrives
    <3>1. PICK g \in ghosts : StoreSave(g.revision, g.content)
      BY <2>2 DEF GhostArrives
    <3>2. g.revision \in Nat /\ g.content \in Contents
      BY DEF EditorTypeOK, CallsTypeOK
    <3> QED BY <3>1, <3>2, Stored
  <2>3. CASE ServerTakesAct
    BY <1>0, <2>3 DEF ServerTakesAct, Drafts
  <2>4. CASE OtherSaves
    BY <1>0, <2>4 DEF OtherSaves, Drafts
  <2>5. CASE OtherMovesDraft
    BY <1>0, <2>5 DEF OtherMovesDraft, Drafts
  <2>6. CASE ~(ServerTakesSave \/ GhostArrives \/ ServerTakesAct \/ OtherSaves
               \/ OtherMovesDraft)
    <3>1. UNCHANGED <<srv, carried>>
      BY <2>6
         DEF Next, System, Writer, World, ServerAnswersMeta, ServerAnswersLoad,
             TimerFires, NotSaving, SaveLanded, SaveRefused, RecordRecovery, SaveFailed,
             MetaAnswered, LoadLands, LoadFails, FlushSaves, FlushWaits, AskAct,
             ActAnswered, LateAnswer, SaveOnTeardown, TeardownAnswered, Type, PutBack,
             Edit, DiscardRefused, RetryFailedSave, ReloadLatestDraft, StartAct, Leave,
             LoseSave, LoseMeta, LoseLoad, LoseAct, vars, server
    <3> QED BY <3>1
  <2> QED BY <2>1, <2>2, <2>3, <2>4, <2>5, <2>6
<1>3. carried \subseteq carried'
  BY <1>2
<1> QED BY <1>0, <1>1, <1>2, <1>3

\* A revision the page may name stays one: either it falls behind for good, or what it
\* would overwrite does not change.
LEMMA KnownGrows ==
  ASSUME EditorTypeOK, [Next]_vars
  PROVE  Known \subseteq Known'
<1>1. srv.revision \in Nat
  BY TypedFields
<1> QED BY <1>1, ServerMoves DEF Known

LEMMA CopyKnownKept == EditorTypeOK /\ Tokens /\ [Next]_vars => CopyKnown'
<1> SUFFICES ASSUME EditorTypeOK, Tokens, [Next]_vars PROVE CopyKnown'
  OBVIOUS
<1>0. /\ Known \subseteq Known' /\ seen \subseteq seen'
      /\ Range(text) \subseteq seen /\ revision \in Known
  BY KnownGrows, ServerMoves DEF Tokens, CopyKnown
<1>1. Range(text') \subseteq seen'
  <2>1. CASE Type \/ PutBack
    <3>1. PICK f, t : Edit(f, t)
      BY <2>1 DEF Type, PutBack
    <3>2. text' = [text EXCEPT ![f] = t] /\ seen' = seen \union {t}
      BY <3>1 DEF Edit
    <3>3. Range(text') \subseteq Range(text) \union {t}
      BY <3>2 DEF Range
    <3> QED BY <1>0, <3>2, <3>3
  <2>2. CASE LoadLands
    BY <2>2 DEF LoadLands
  <2>3. CASE ~(Type \/ PutBack \/ LoadLands)
    <3>1. text' = text
      BY <2>3
         DEF Next, System, Writer, World, ServerTakesSave, ServerAnswersMeta,
             ServerAnswersLoad, ServerTakesAct, TimerFires, NotSaving, SaveLanded,
             SaveRefused, RecordRecovery, SaveFailed, MetaAnswered, LoadFails,
             FlushSaves, FlushWaits, AskAct, ActAnswered, LateAnswer, SaveOnTeardown,
             TeardownAnswered, DiscardRefused, RetryFailedSave, ReloadLatestDraft,
             StartAct, Leave, OtherSaves, OtherMovesDraft, Elsewhere, GhostArrives,
             LoseSave, LoseMeta, LoseLoad, LoseAct, vars, editor
    <3> QED BY <1>0, <3>1
  <2> QED BY <2>1, <2>2, <2>3
<1>2. teardown'.stage # "none" => Range(teardown'.content) \subseteq seen'
  <2>1. CASE Leave
    <3>1. teardown' = [stage |-> "waiting", content |-> text] \/ teardown' = NoTeardown
      BY <2>1 DEF Leave
    <3> QED BY <1>0, <3>1 DEF NoTeardown
  <2>2. CASE SaveOnTeardown \/ TeardownAnswered
    <3>1. \/ teardown' = NoTeardown
          \/ teardown.stage = "waiting" /\ teardown' = [teardown EXCEPT !.stage = "sent"]
      BY <2>2 DEF SaveOnTeardown, TeardownAnswered
    <3>2. teardown'.stage # "none" => teardown.stage # "none" /\ teardown'.content = teardown.content
      BY <3>1 DEF NoTeardown, EditorTypeOK, TeardownTypeOK
    <3> QED BY <1>0, <3>2 DEF Tokens, CopyKnown
  <2>3. CASE ~(Leave \/ SaveOnTeardown \/ TeardownAnswered)
    <3>1. teardown' = teardown
      BY <2>3
         DEF Next, System, Writer, World, ServerTakesSave, ServerAnswersMeta,
             ServerAnswersLoad, ServerTakesAct, TimerFires, NotSaving, SaveLanded,
             SaveRefused, RecordRecovery, SaveFailed, MetaAnswered, LoadLands, LoadFails,
             FlushSaves, FlushWaits, AskAct, ActAnswered, LateAnswer, Type, PutBack,
             Edit, DiscardRefused, RetryFailedSave, ReloadLatestDraft, StartAct,
             OtherSaves, OtherMovesDraft, Elsewhere, GhostArrives, LoseSave, LoseMeta,
             LoseLoad, LoseAct, vars, page
    <3> QED BY <1>0, <3>1 DEF Tokens, CopyKnown
  <2> QED BY <2>1, <2>2, <2>3
<1>3. revision' \in Known'
  <2>1. CASE SaveLanded \/ LateAnswer
    <3>1. revision' = revision \/ (call.state = "accepted" /\ revision' = call.next)
      BY <2>1 DEF SaveLanded, LateAnswer
    <3> QED BY <1>0, <3>1 DEF Tokens, CallKnown
  <2>2. CASE LoadLands
    <3>1. /\ revision' = load.copy.revision /\ srv' = srv
          /\ seen' = seen \union Range(load.copy.content)
          /\ load.copy.revision \in 0..srv.revision
          /\ load.copy.revision = srv.revision => load.copy.content = srv.content
      BY <2>2 DEF LoadLands, server, Tokens, LoadCurrent
    <3> QED BY <3>1 DEF Known
  <2>3. CASE ActAnswered
    <3>1. \/ revision' = revision
          \/ act.stage = "done" /\ act.kind # "submit" /\ revision' = act.revision + 1
      BY <2>3 DEF ActAnswered
    <3>2. act.stage = "done" /\ act.kind # "submit" => act.revision + 1 \in Known
      BY DEF Tokens, ActKnown, EditorTypeOK, ActTypeOK
    <3> QED BY <1>0, <3>1, <3>2
  <2>4. CASE ~(SaveLanded \/ LateAnswer \/ LoadLands \/ ActAnswered)
    <3>1. revision' = revision
      BY <2>4
         DEF Next, System, Writer, World, ServerTakesSave, ServerAnswersMeta,
             ServerAnswersLoad, ServerTakesAct, TimerFires, NotSaving, SaveRefused,
             RecordRecovery, SaveFailed, MetaAnswered, LoadFails, FlushSaves, FlushWaits,
             AskAct, SaveOnTeardown, TeardownAnswered, Type, PutBack, Edit,
             DiscardRefused, RetryFailedSave, ReloadLatestDraft, StartAct, Leave,
             OtherSaves, OtherMovesDraft, Elsewhere, GhostArrives, LoseSave, LoseMeta,
             LoseLoad, LoseAct, vars, editor
    <3> QED BY <1>0, <3>1
  <2> QED BY <2>1, <2>2, <2>3, <2>4
<1> QED BY <1>1, <1>2, <1>3 DEF CopyKnown

LEMMA CallKnownKept == EditorTypeOK /\ Tokens /\ [Next]_vars => CallKnown'
<1> SUFFICES ASSUME EditorTypeOK, Tokens, [Next]_vars PROVE CallKnown'
  OBVIOUS
<1>0. /\ Known \subseteq Known' /\ seen \subseteq seen'
      /\ Range(text) \subseteq seen /\ revision \in Known
  BY KnownGrows, ServerMoves DEF Tokens, CopyKnown
<1> DEFINE Safe(c) == /\ c.state # "none" => c.revision \in Known' /\ Range(c.content) \subseteq seen'
                      /\ c.state = "accepted" => c.next \in Known'
<1>1. Safe(call) /\ Safe(NoCall) /\ Safe(Sent(revision, text))
      /\ (teardown.stage = "waiting" => Safe(Sent(revision, teardown.content)))
  BY <1>0 DEF Tokens, CallKnown, CopyKnown, NoCall, Sent
<1>2. Safe(call')
  <2>1. CASE ServerTakesSave
    <3>1. call \in Calls /\ call.state = "travelling" /\ StoreSave(call.revision, call.content)
      BY <2>1, TypedFields DEF ServerTakesSave
    <3>2. /\ call'.revision = call.revision /\ call'.content = call.content
          /\ call'.state = Verdict(call.revision) /\ call'.next = srv.revision + 1
          /\ seen' = seen
      BY <2>1, <3>1 DEF ServerTakesSave, Calls
    <3>3. ASSUME call'.state = "accepted" PROVE call'.next \in Known'
      <4>1. srv'.revision = srv.revision + 1 /\ srv'.content = call.content
        <5>1. srv' = [srv EXCEPT !.revision = @ + 1, !.content = call.content] /\ srv \in Drafts
          BY <3>1, <3>2, <3>3 DEF StoreSave, EditorTypeOK, ServerTypeOK
        <5> QED BY <5>1 DEF Drafts
      <4>2. Range(call.content) \subseteq seen' /\ srv.revision \in Nat
        BY <1>1, <3>1, TypedFields
      <4> QED BY <3>2, <4>1, <4>2 DEF Known
    <3> QED BY <1>1, <3>1, <3>2, <3>3
  <2>2. CASE LoseSave
    <3>1. call \in Calls /\ call' = [call EXCEPT !.state = "failed"]
      BY <2>2, TypedFields DEF LoseSave, CallStates
    <3>2. /\ call.state # "none" /\ call'.state = "failed"
          /\ call'.revision = call.revision /\ call'.content = call.content
      BY <2>2, <3>1 DEF LoseSave, Calls, CallStates
    <3> QED BY <1>1, <3>2
  <2>3. CASE ~(ServerTakesSave \/ LoseSave)
    <3>1. \/ call' \in {call, NoCall, Sent(revision, text)}
          \/ teardown.stage = "waiting" /\ call' = Sent(revision, teardown.content)
      BY <2>3
         DEF Next, System, Writer, World, ServerAnswersMeta, ServerAnswersLoad,
             ServerTakesAct, TimerFires, SaveNow, Attempt, NotSaving, SaveLanded,
             SaveRefused, RecordRecovery, SaveFailed, MetaAnswered, LoadLands, LoadFails,
             FlushSaves, FlushWaits, AskAct, ActAnswered, LateAnswer, SaveOnTeardown,
             TeardownAnswered, Type, PutBack, Edit, DiscardRefused, RetryFailedSave,
             ReloadLatestDraft, StartAct, Leave, OtherSaves, OtherMovesDraft, Elsewhere,
             GhostArrives, LoseMeta, LoseLoad, LoseAct, vars, wire
    <3> HIDE DEF Safe
    <3> QED BY <1>1, <3>1
  <2> QED BY <2>1, <2>2, <2>3
<1> QED BY <1>2 DEF CallKnown

LEMMA GhostsKnownKept == EditorTypeOK /\ Tokens /\ [Next]_vars => GhostsKnown'
<1> SUFFICES ASSUME EditorTypeOK, Tokens, [Next]_vars PROVE GhostsKnown'
  OBVIOUS
<1>0. Known \subseteq Known' /\ seen \subseteq seen'
  BY KnownGrows, ServerMoves
<1>1. \A g \in ghosts : g.revision \in Known' /\ Range(g.content) \subseteq seen'
  BY <1>0 DEF Tokens, GhostsKnown
<1>2. CASE LoseSave
  <2>1. \/ ghosts' = ghosts
        \/ /\ call.state = "travelling"
           /\ ghosts' = ghosts \union {[revision |-> call.revision, content |-> call.content]}
    BY <1>2 DEF LoseSave
  <2>2. call.state = "travelling" => call.revision \in Known' /\ Range(call.content) \subseteq seen'
    BY <1>0 DEF Tokens, CallKnown
  <2> QED BY <1>1, <2>1, <2>2 DEF GhostsKnown
<1>3. CASE ~LoseSave
  <2>1. ghosts' \subseteq ghosts
    BY <1>3
       DEF Next, System, Writer, World, ServerTakesSave, ServerAnswersMeta,
           ServerAnswersLoad, ServerTakesAct, TimerFires, NotSaving, SaveLanded,
           SaveRefused, RecordRecovery, SaveFailed, MetaAnswered, LoadLands, LoadFails,
           FlushSaves, FlushWaits, AskAct, ActAnswered, LateAnswer, SaveOnTeardown,
           TeardownAnswered, Type, PutBack, Edit, DiscardRefused, RetryFailedSave,
           ReloadLatestDraft, StartAct, Leave, OtherSaves, OtherMovesDraft, Elsewhere,
           GhostArrives, LoseMeta, LoseLoad, LoseAct, vars, wire
  <2> QED BY <1>1, <2>1 DEF GhostsKnown
<1> QED BY <1>2, <1>3

\* The stages an act is moved to before it is asked and after it was answered.
LEMMA ActStages ==
  ASSUME EditorTypeOK
  PROVE  /\ StartAct \/ FlushSaves \/ FlushWaits \/ ActAnswered =>
              act'.stage \in {"flush", "awaited", "reloading", "none"}
         /\ LoseAct => act'.stage = "failed"
<1>0. /\ [act EXCEPT !.stage = "awaited"].stage = "awaited"
      /\ [act EXCEPT !.stage = "failed"].stage = "failed"
      /\ [act EXCEPT !.stage = "reloading"].stage = "reloading"
      /\ NoAct.stage = "none"
  <2>1. ActTypeOK
    BY DEF EditorTypeOK
  <2> QED BY <2>1 DEF ActTypeOK, NoAct
<1>1. ASSUME StartAct PROVE act'.stage = "flush"
  <2>1. PICK k \in {"submit", "link"} : act' = [NoAct EXCEPT !.kind = k, !.stage = "flush"]
    BY <1>1 DEF StartAct
  <2> QED BY <2>1 DEF NoAct
<1>2. ASSUME FlushSaves \/ FlushWaits PROVE act'.stage = "awaited"
  <2>1. act' = [act EXCEPT !.stage = "awaited"]
    BY <1>2 DEF FlushSaves, FlushWaits
  <2> QED BY <1>0, <2>1
<1>3. ASSUME ActAnswered PROVE act'.stage \in {"reloading", "none"}
  <2>1. act' = [act EXCEPT !.stage = "reloading"] \/ act' = NoAct
    BY <1>3 DEF ActAnswered
  <2> QED BY <1>0, <2>1
<1>4. ASSUME LoseAct PROVE act'.stage = "failed"
  <2>1. act' = [act EXCEPT !.stage = "failed"]
    BY <1>4 DEF LoseAct
  <2> QED BY <1>0, <2>1
<1> QED BY <1>1, <1>2, <1>3, <1>4

LEMMA ActKnownKept == EditorTypeOK /\ Tokens /\ [Next]_vars => ActKnown'
<1> SUFFICES ASSUME EditorTypeOK, Tokens, [Next]_vars PROVE ActKnown'
  OBVIOUS
<1>0. Known \subseteq Known' /\ revision \in Known /\ ActTypeOK /\ ActKnown
  BY KnownGrows DEF Tokens, CopyKnown, EditorTypeOK
<1>1. CASE ServerTakesAct
  <2>1. /\ act.stage = "asked" /\ act'.revision = act.revision /\ act'.kind = act.kind
        /\ act'.stage \in {"done", "stale", "frozen"}
        /\ act'.stage = "done" => Verdict(act.revision) = "accepted"
    BY <1>0, <1>1 DEF ServerTakesAct, ActTypeOK, Verdict
  <2>2. ASSUME act'.stage = "done", act.kind # "submit" PROVE act.revision + 1 \in Known'
    <3>1. srv' = [srv EXCEPT !.revision = @ + 1] /\ srv.revision = act.revision /\ seen' = seen
      BY <1>1, <2>1, <2>2 DEF ServerTakesAct, Verdict
    <3>2. srv \in Drafts
      BY DEF EditorTypeOK, ServerTypeOK
    <3>3. srv'.revision = act.revision + 1 /\ srv'.content = srv.content /\ srv.revision \in Nat
      BY <3>1, <3>2 DEF Drafts
    <3>4. act.revision \in Known
      BY <1>0, <2>1 DEF ActKnown
    <3> QED BY <3>1, <3>3, <3>4 DEF Known
  <2> QED BY <2>1, <2>2 DEF ActKnown
<1>2. CASE AskAct
  <2>1. \/ act' = NoAct
        \/ act'.stage = "asked" /\ act'.revision = revision
    BY <1>0, <1>2 DEF AskAct, ActTypeOK
  <2> QED BY <1>0, <2>1 DEF ActKnown, NoAct
<1>3. CASE StartAct \/ FlushSaves \/ FlushWaits \/ ActAnswered \/ LoseAct
  BY <1>3, ActStages DEF ActKnown
<1>4. CASE ~(ServerTakesAct \/ AskAct \/ StartAct \/ FlushSaves \/ FlushWaits
             \/ ActAnswered \/ LoseAct)
  <2>1. act' \in {act, NoAct}
    BY <1>4
       DEF Next, System, Writer, World, ServerTakesSave, ServerAnswersMeta,
           ServerAnswersLoad, TimerFires, NotSaving, SaveLanded, SaveRefused,
           RecordRecovery, SaveFailed, MetaAnswered, LoadLands, LoadFails, LateAnswer,
           SaveOnTeardown, TeardownAnswered, Type, PutBack, Edit, DiscardRefused,
           RetryFailedSave, ReloadLatestDraft, Leave, OtherSaves, OtherMovesDraft,
           Elsewhere, GhostArrives, LoseSave, LoseMeta, LoseLoad, vars, page
  <2> QED BY <1>0, <2>1 DEF ActKnown, NoAct
<1> QED BY <1>1, <1>2, <1>3, <1>4

\* Only the server's answer makes a load a read one.
LEMMA ReadStays ==
  ASSUME EditorTypeOK, [Next]_vars, ~ServerAnswersLoad, load'.state = "read"
  PROVE  load' = load
<1>1. CASE LoseLoad
  <2>1. load'.state = "failed"
    BY <1>1 DEF LoseLoad, EditorTypeOK, LoadTypeOK
  <2> QED BY <2>1
<1>2. CASE ~LoseLoad
  <2>1. \/ load' = load \/ load' = NoLoad
        \/ \E w \in {"recover", "retry", "act"} : load' = Loading(w)
    BY <1>2
       DEF Next, System, Writer, World, ServerTakesSave, ServerAnswersMeta,
           ServerTakesAct, TimerFires, NotSaving, SaveLanded, SaveRefused,
           RecordRecovery, SaveFailed, MetaAnswered, LoadLands, LoadFails, FlushSaves,
           FlushWaits, AskAct, ActAnswered, LateAnswer, SaveOnTeardown,
           TeardownAnswered, Type, PutBack, Edit, DiscardRefused, RetryFailedSave,
           ReloadLatestDraft, StartAct, Leave, OtherSaves, OtherMovesDraft, Elsewhere,
           GhostArrives, LoseSave, LoseMeta, LoseAct, vars, page
  <2>2. load' = load \/ load'.state \in {"none", "travelling"}
    BY <2>1 DEF Loading, NoLoad
  <2> QED BY <2>2
<1> QED BY <1>1, <1>2

LEMMA LoadCurrentKept == EditorTypeOK /\ Tokens /\ [Next]_vars => LoadCurrent'
<1> SUFFICES ASSUME EditorTypeOK, Tokens, [Next]_vars PROVE LoadCurrent'
  OBVIOUS
<1>0. LoadTypeOK /\ LoadCurrent /\ srv.revision \in Nat
  BY TypedFields DEF EditorTypeOK, Tokens
<1>1. CASE ServerAnswersLoad
  <2>1. load'.copy = srv /\ srv' = srv
    BY <1>0, <1>1 DEF ServerAnswersLoad, LoadTypeOK, server
  <2> QED BY <1>0, <2>1 DEF LoadCurrent
<1>2. CASE ~ServerAnswersLoad
  BY <1>0, <1>2, ReadStays, ServerMoves DEF LoadCurrent
<1> QED BY <1>1, <1>2

LEMMA TokensInitially == Init => Tokens
<1> SUFFICES ASSUME Init PROVE Tokens
  OBVIOUS
<1>1. Range(Blank) \subseteq {0}
  BY DEF Range, Blank
<1> QED
  BY <1>1
     DEF Init, Tokens, CopyKnown, CallKnown, GhostsKnown, ActKnown, LoadCurrent, Known,
         NoCall, Loading, NoAct, NoTeardown

LEMMA TokensInductive == EditorTypeOK /\ Tokens /\ [Next]_vars => Tokens'
BY CopyKnownKept, CallKnownKept, GhostsKnownKept, ActKnownKept, LoadCurrentKept DEF Tokens

-----------------------------------------------------------------------------
(***************************************************************************)
(* What an act freezes or links is what the page showed.                   *)
(***************************************************************************)
\* The page holds nothing the server has not answered for.
Clean ==
  /\ view # "none" /\ ~reported
  /\ \/ chain = "refreshing" /\ ~dirty
     \/ chain = "none" /\ ~timer /\ saveState # "failed"

\* Only a page that was left saves a last time.
LastSave == teardown.stage # "none" => ~alive

\* A clean page whose revision is the stored one shows the stored content.
CopyIsStored == alive /\ Clean /\ revision = srv.revision => text = srv.content
CallIsText == alive /\ chain = "saving" /\ ~dirty => call.content = text
AcceptedIsStored ==
  call.state = "accepted" /\ call.next = srv.revision => srv.content = call.content
ActIsStored ==
  /\ act.stage = "asked" /\ act.revision = srv.revision => srv.content = act.shown
  /\ act.stage = "done" /\ act.kind # "submit" /\ act.revision + 1 = srv.revision =>
       srv.content = act.shown
ActShowsText == alive /\ Asked => act.shown = text

Shown ==
  /\ LastSave /\ CopyIsStored /\ CallIsText /\ AcceptedIsStored /\ ActIsStored
  /\ ActShowsText

EditorInv == EditorTypeOK /\ Control /\ Tokens /\ Shown

\* A revision the page may name is still the stored one only if the content is too.
LEMMA StillStored ==
  ASSUME EditorInv, [Next]_vars, NEW r \in Known, r = srv'.revision
  PROVE  r = srv.revision /\ srv'.content = srv.content
<1>1. srv.revision \in Nat /\ r \in 0..srv.revision
  BY TypedFields DEF EditorInv, Known
<1> QED BY <1>1, ServerMoves DEF EditorInv

\* Only the page's writer leaving it changes whether it stands.
LEMMA LastSaveKept == EditorInv /\ [Next]_vars => LastSave'
<1> SUFFICES ASSUME EditorInv, [Next]_vars PROVE LastSave'
  OBVIOUS
<1>0. LastSave
  BY DEF EditorInv, Shown
<1>1. CASE Leave
  BY <1>1 DEF Leave, LastSave
<1>2. CASE SaveOnTeardown \/ TeardownAnswered
  <2>1. teardown.stage # "none" /\ alive' = alive
    BY <1>2 DEF SaveOnTeardown, TeardownAnswered
  <2> QED BY <1>0, <2>1 DEF LastSave
<1>3. CASE ~(Leave \/ SaveOnTeardown \/ TeardownAnswered)
  <2>1. UNCHANGED <<teardown, alive>>
    BY <1>3
       DEF Next, System, Writer, World, ServerTakesSave, ServerAnswersMeta,
           ServerAnswersLoad, ServerTakesAct, TimerFires, NotSaving, SaveLanded,
           SaveRefused, RecordRecovery, SaveFailed, MetaAnswered, LoadLands, LoadFails,
           FlushSaves, FlushWaits, AskAct, ActAnswered, LateAnswer, Type, PutBack,
           Edit, DiscardRefused, RetryFailedSave, ReloadLatestDraft, StartAct,
           OtherSaves, OtherMovesDraft, Elsewhere, GhostArrives, LoseSave, LoseMeta,
           LoseLoad, LoseAct, vars, page
  <2> QED BY <1>0, <2>1 DEF LastSave
<1> QED BY <1>1, <1>2, <1>3

LEMMA CopyIsStoredKept == EditorInv /\ [Next]_vars => CopyIsStored'
<1> SUFFICES ASSUME EditorInv, [Next]_vars,
                    alive', Clean', revision' = srv'.revision
             PROVE  text' = srv'.content
  BY DEF CopyIsStored
<1>0. /\ Control /\ CopyIsStored /\ LoadTypeOK /\ FlagsTypeOK
      /\ revision \in Known
  BY DEF EditorInv, Shown, Tokens, CopyKnown, EditorTypeOK
<1>1. CASE SaveLanded
  <2>1. /\ chain = "saving" /\ call.state = "accepted" /\ revision' = call.next
        /\ chain' = "refreshing" /\ UNCHANGED <<srv, text, dirty, alive>>
    BY <1>1 DEF SaveLanded, server
  <2>2. call.content = text /\ srv.content = call.content
    BY <2>1 DEF Clean, EditorInv, Shown, CallIsText, AcceptedIsStored
  <2> QED BY <2>1, <2>2
<1>2. CASE MetaAnswered
  <2>1. alive /\ ~dirty /\ chain = "refreshing"
        /\ UNCHANGED <<srv, text, revision, reported, dirty>>
    BY <1>2 DEF MetaAnswered, Attempt, Clean, server
  <2>2. Clean
    BY <1>0, <2>1 DEF Clean, Control, PageControl
  <2> QED BY <1>0, <2>1, <2>2 DEF CopyIsStored
<1>3. CASE LoadLands
  <2>1. /\ load.state = "read" /\ text' = load.copy.content /\ srv' = srv
        /\ revision' = load.copy.revision
    BY <1>3 DEF LoadLands, server
  <2> QED BY <2>1 DEF EditorInv, Tokens, LoadCurrent
<1>4. CASE ActAnswered
  <2>1. /\ alive /\ Clean /\ UNCHANGED <<srv, text>>
        /\ \/ revision' = revision
           \/ act.stage = "done" /\ act.kind # "submit" /\ revision' = act.revision + 1
    BY <1>4 DEF ActAnswered, Clean, server, wire
  <2> QED
    BY <1>0, <2>1 DEF CopyIsStored, EditorInv, Shown, ActIsStored, ActShowsText, Asked
<1>5. CASE TimerFires \/ RetryFailedSave \/ FlushSaves
  <2>1. SaveNow /\ UNCHANGED <<view, reported>>
    BY <1>5 DEF TimerFires, RetryFailedSave, FlushSaves, NotSaving
  <2>2. ~Clean'
    BY <2>1 DEF SaveNow, Attempt, Clean
  <2> QED BY <2>2
<1>6. CASE SaveRefused \/ SaveFailed \/ LoadFails
  <2>1. ~Clean'
    <3>1. CASE SaveRefused
      BY <3>1 DEF SaveRefused, RecordRecovery, Attempt, Clean
    <3>2. CASE SaveFailed
      BY <3>2 DEF SaveFailed, Clean
    <3>3. CASE LoadFails
      BY <3>3 DEF LoadFails, Clean
    <3> QED BY <1>6, <3>1, <3>2, <3>3
  <2> QED BY <2>1
<1>7. CASE Type \/ PutBack
  <2>1. PICK f, t : Edit(f, t)
    BY <1>7 DEF Type, PutBack
  <2>2. ~Clean'
    BY <2>1 DEF Edit, Clean, wire, page
  <2> QED BY <2>2
<1>8. CASE Leave \/ LateAnswer
  BY <1>8 DEF Leave, LateAnswer
<1>9. CASE \/ ServerTakesSave \/ ServerAnswersMeta \/ ServerAnswersLoad \/ ServerTakesAct
           \/ FlushWaits \/ AskAct \/ SaveOnTeardown \/ TeardownAnswered
           \/ DiscardRefused \/ ReloadLatestDraft \/ StartAct \/ OtherSaves
           \/ OtherMovesDraft \/ GhostArrives \/ LoseSave \/ LoseMeta \/ LoseLoad
           \/ LoseAct \/ UNCHANGED vars
  <2>1. UNCHANGED <<text, revision, view, reported, chain, dirty, timer, saveState, alive>>
    BY <1>9
       DEF ServerTakesSave, ServerAnswersMeta, ServerAnswersLoad, ServerTakesAct,
           FlushWaits, AskAct, SaveOnTeardown, TeardownAnswered, DiscardRefused,
           ReloadLatestDraft, StartAct, OtherSaves, OtherMovesDraft, Elsewhere,
           GhostArrives, LoseSave, LoseMeta, LoseLoad, LoseAct, vars, editor, page
  <2>2. Clean /\ alive
    BY <2>1 DEF Clean
  <2>3. revision = srv.revision /\ srv'.content = srv.content
    BY <1>0, <2>1, StillStored
  <2> QED BY <1>0, <2>1, <2>2, <2>3 DEF CopyIsStored
<1> QED
  BY <1>1, <1>2, <1>3, <1>4, <1>5, <1>6, <1>7, <1>8, <1>9 DEF Next, System, Writer, World

LEMMA CallIsTextKept == EditorInv /\ [Next]_vars => CallIsText'
<1> SUFFICES ASSUME EditorInv, [Next]_vars, alive', chain' = "saving", ~dirty'
             PROVE  call'.content = text'
  BY DEF CallIsText
<1>0. Control /\ CallIsText /\ LastSave /\ Sent(revision, text).content = text
  BY DEF EditorInv, Shown, Sent
<1>1. CASE TimerFires \/ RetryFailedSave \/ FlushSaves
  <2>1. SaveNow /\ text' = text
    BY <1>1 DEF TimerFires, RetryFailedSave, FlushSaves, NotSaving
  <2>2. call' = Sent(revision, text)
    BY <2>1 DEF SaveNow, Attempt
  <2> QED BY <1>0, <2>1, <2>2
<1>2. CASE SaveRefused
  <2>1. call' = Sent(revision, text) /\ text' = text
    BY <1>2 DEF SaveRefused, RecordRecovery, Attempt, NotSaving
  <2> QED BY <1>0, <2>1
<1>3. CASE MetaAnswered
  <2>1. call' = Sent(revision, text) /\ text' = text
    BY <1>3 DEF MetaAnswered, Attempt
  <2> QED BY <1>0, <2>1
<1>4. CASE ServerTakesSave \/ LoseSave
  <2>1. call \in Calls /\ UNCHANGED <<text, alive, chain, dirty>>
    BY <1>4, TypedFields
       DEF ServerTakesSave, LoseSave, CallStates, editor, page, EditorInv
  <2>2. call'.content = call.content
    BY <1>4, <2>1 DEF ServerTakesSave, LoseSave, Calls
  <2> QED BY <1>0, <2>1, <2>2 DEF CallIsText
<1>5. CASE Type \/ PutBack
  <2>1. PICK f, t : Edit(f, t)
    BY <1>5 DEF Type, PutBack
  <2> QED BY <2>1 DEF Edit, page
<1>6. CASE SaveLanded \/ SaveFailed \/ LateAnswer \/ Leave
  BY <1>6 DEF SaveLanded, SaveFailed, LateAnswer, Leave
<1>7. CASE LoadLands
  <2>1. chain # "saving"
    BY <1>0, <1>7 DEF LoadLands, Control, PageControl
  <2> QED BY <1>7, <2>1 DEF LoadLands
<1>8. CASE SaveOnTeardown \/ TeardownAnswered
  BY <1>0, <1>8 DEF SaveOnTeardown, TeardownAnswered, LastSave
<1>9. CASE \/ ServerAnswersMeta \/ ServerAnswersLoad \/ ServerTakesAct \/ LoadFails
           \/ FlushWaits \/ AskAct \/ ActAnswered \/ DiscardRefused
           \/ ReloadLatestDraft \/ StartAct \/ OtherSaves \/ OtherMovesDraft
           \/ GhostArrives \/ LoseMeta \/ LoseLoad \/ LoseAct \/ UNCHANGED vars
  <2>1. /\ UNCHANGED <<text, call, chain, alive>>
        /\ dirty' = dirty \/ chain = "none"
    BY <1>0, <1>9
       DEF ServerAnswersMeta, ServerAnswersLoad, ServerTakesAct, LoadFails, FlushWaits,
           AskAct, ActAnswered, DiscardRefused, ReloadLatestDraft, StartAct, OtherSaves,
           OtherMovesDraft, Elsewhere, GhostArrives, LoseMeta, LoseLoad, LoseAct, vars,
           editor, wire, page, Control, PageControl
  <2> QED BY <1>0, <2>1 DEF CallIsText
<1> QED
  BY <1>1, <1>2, <1>3, <1>4, <1>5, <1>6, <1>7, <1>8, <1>9 DEF Next, System, Writer, World

\* Only the server accepts a save.
LEMMA AcceptedStays ==
  ASSUME EditorTypeOK, [Next]_vars, ~ServerTakesSave, call'.state = "accepted"
  PROVE  call' = call
<1>1. CASE LoseSave
  <2>1. call \in Calls /\ call' = [call EXCEPT !.state = "failed"]
    BY <1>1, TypedFields DEF LoseSave, CallStates
  <2> QED BY <2>1 DEF Calls
<1>2. CASE ~LoseSave
  <2>1. call' \in {call, NoCall, Sent(revision, text), Sent(revision, teardown.content)}
    BY <1>2
       DEF Next, System, Writer, World, ServerAnswersMeta, ServerAnswersLoad,
           ServerTakesAct, TimerFires, SaveNow, Attempt, NotSaving, SaveLanded,
           SaveRefused, RecordRecovery, SaveFailed, MetaAnswered, LoadLands,
           LoadFails, FlushSaves, FlushWaits, AskAct, ActAnswered, LateAnswer,
           SaveOnTeardown, TeardownAnswered, Type, PutBack, Edit, DiscardRefused,
           RetryFailedSave, ReloadLatestDraft, StartAct, Leave, OtherSaves,
           OtherMovesDraft, Elsewhere, GhostArrives, LoseMeta, LoseLoad, LoseAct,
           vars, wire
  <2>2. /\ NoCall.state # "accepted" /\ Sent(revision, text).state # "accepted"
        /\ Sent(revision, teardown.content).state # "accepted"
    BY DEF NoCall, Sent
  <2> QED BY <2>1, <2>2
<1> QED BY <1>1, <1>2

LEMMA AcceptedIsStoredKept == EditorInv /\ [Next]_vars => AcceptedIsStored'
<1> SUFFICES ASSUME EditorInv, [Next]_vars,
                    call'.state = "accepted", call'.next = srv'.revision
             PROVE  srv'.content = call'.content
  BY DEF AcceptedIsStored
<1>0. AcceptedIsStored /\ (call.state = "accepted" => call.next \in Known)
  BY DEF EditorInv, Shown, Tokens, CallKnown
<1>1. CASE ServerTakesSave
  <2>1. call \in Calls /\ call.state = "travelling"
    BY <1>1, TypedFields DEF ServerTakesSave, EditorInv
  <2>2. /\ call'.content = call.content /\ Verdict(call.revision) = "accepted"
        /\ srv' = [srv EXCEPT !.revision = @ + 1, !.content = call.content]
    BY <1>1, <2>1 DEF ServerTakesSave, StoreSave, Calls
  <2>3. srv \in Drafts
    BY DEF EditorInv, EditorTypeOK, ServerTypeOK
  <2> QED BY <2>2, <2>3 DEF Drafts
<1>2. CASE ~ServerTakesSave
  <2>1. call' = call
    BY <1>2, AcceptedStays DEF EditorInv
  <2>2. call.next = srv.revision /\ srv'.content = srv.content
    BY <1>0, <2>1, StillStored
  <2> QED BY <1>0, <2>1, <2>2 DEF AcceptedIsStored
<1> QED BY <1>1, <1>2

LEMMA ActIsStoredKept == EditorInv /\ [Next]_vars => ActIsStored'
<1> SUFFICES ASSUME EditorInv, [Next]_vars PROVE ActIsStored'
  OBVIOUS
<1>0. /\ Control /\ ActIsStored /\ CopyIsStored /\ ActTypeOK /\ FlagsTypeOK
      /\ revision \in Known /\ ActKnown /\ srv.revision \in Nat
  BY TypedFields DEF EditorInv, Shown, Tokens, CopyKnown, EditorTypeOK
<1>1. CASE ServerTakesAct
  <2>1. /\ act.stage = "asked" /\ act'.revision = act.revision /\ act'.kind = act.kind
        /\ act'.shown = act.shown /\ act'.stage \in {"done", "stale", "frozen"}
        /\ act'.stage = "done" => Verdict(act.revision) = "accepted"
    BY <1>0, <1>1 DEF ServerTakesAct, ActTypeOK, Verdict
  <2>2. srv'.content = srv.content
    <3>1. srv \in Drafts
      BY DEF EditorInv, EditorTypeOK, ServerTypeOK
    <3> QED BY <1>1, <3>1 DEF ServerTakesAct, Drafts
  <2>3. act'.stage = "done" => act.revision = srv.revision
    BY <2>1 DEF Verdict
  <2> QED BY <1>0, <2>1, <2>2, <2>3 DEF ActIsStored
<1>2. CASE AskAct
  <2>1. CASE act' = NoAct
    BY <2>1 DEF ActIsStored, NoAct
  <2>2. CASE act' # NoAct
    <3>1. /\ chain = "none" /\ act.stage \in {"flush", "awaited"}
          /\ saveState # "failed" /\ ~reported /\ ~reloadFailed
          /\ act' = [act EXCEPT !.stage = "asked", !.revision = revision, !.shown = text]
          /\ ~timer /\ srv' = srv
      BY <1>2, <2>2 DEF AskAct, FlushDone, Unresolved, server
    <3>2. alive /\ Clean
      BY <1>0, <3>1 DEF Control, PageControl, Clean, FlagsTypeOK
    <3>3. act'.stage = "asked" /\ act'.revision = revision /\ act'.shown = text
      BY <1>0, <3>1 DEF ActTypeOK
    <3> QED BY <1>0, <3>1, <3>2, <3>3 DEF CopyIsStored, ActIsStored
  <2> QED BY <2>1, <2>2
<1>3. CASE StartAct \/ FlushSaves \/ FlushWaits \/ ActAnswered \/ LoseAct
  <2>1. act'.stage \in {"flush", "awaited", "reloading", "none", "failed"}
    BY <1>3, ActStages DEF EditorInv
  <2> QED BY <2>1 DEF ActIsStored
<1>4. CASE ~(ServerTakesAct \/ AskAct \/ StartAct \/ FlushSaves \/ FlushWaits
             \/ ActAnswered \/ LoseAct)
  <2>1. act' \in {act, NoAct}
    BY <1>4
       DEF Next, System, Writer, World, ServerTakesSave, ServerAnswersMeta,
           ServerAnswersLoad, TimerFires, NotSaving, SaveLanded, SaveRefused,
           RecordRecovery, SaveFailed, MetaAnswered, LoadLands, LoadFails, LateAnswer,
           SaveOnTeardown, TeardownAnswered, Type, PutBack, Edit, DiscardRefused,
           RetryFailedSave, ReloadLatestDraft, Leave, OtherSaves, OtherMovesDraft,
           Elsewhere, GhostArrives, LoseSave, LoseMeta, LoseLoad, vars, page
  <2>2. CASE act' = NoAct
    BY <2>2 DEF ActIsStored, NoAct
  <2>3. CASE act' = act
    <3>1. ASSUME act.stage = "asked", act.revision = srv'.revision
          PROVE  srv'.content = act.shown
      BY <1>0, <3>1, StillStored DEF ActKnown, ActIsStored
    <3>2. ASSUME act.stage = "done", act.kind # "submit", act.revision + 1 = srv'.revision
          PROVE  srv'.content = act.shown
      BY <1>0, <3>2, StillStored DEF ActKnown, ActIsStored
    <3> QED BY <2>3, <3>1, <3>2 DEF ActIsStored
  <2> QED BY <2>1, <2>2, <2>3
<1> QED BY <1>1, <1>2, <1>3, <1>4

LEMMA ActShowsTextKept == EditorInv /\ [Next]_vars => ActShowsText'
<1> SUFFICES ASSUME EditorInv, [Next]_vars, alive', Asked' PROVE act'.shown = text'
  BY DEF ActShowsText
<1>0. Control /\ ActShowsText /\ ActTypeOK
  BY DEF EditorInv, Shown, EditorTypeOK
<1>1. CASE AskAct
  <2>1. act' = [act EXCEPT !.stage = "asked", !.revision = revision, !.shown = text]
    BY <1>1 DEF AskAct, Asked, NoAct
  <2> QED BY <1>0, <1>1, <2>1 DEF AskAct, ActTypeOK, editor
<1>2. CASE ServerTakesAct \/ LoseAct
  <2>1. act'.shown = act.shown /\ Asked /\ UNCHANGED <<text, alive>>
    BY <1>0, <1>2 DEF ServerTakesAct, LoseAct, ActTypeOK, Asked, editor
  <2> QED BY <1>0, <2>1 DEF ActShowsText
<1>3. CASE StartAct \/ FlushSaves \/ FlushWaits \/ ActAnswered
  <2>1. act'.stage \in {"flush", "awaited", "reloading", "none"}
    BY <1>3, ActStages DEF EditorInv
  <2> QED BY <2>1 DEF Asked
<1>4. CASE Type \/ PutBack
  <2>1. PICK f, t : Edit(f, t)
    BY <1>4 DEF Type, PutBack
  <2>2. ~workflowRequest /\ act' = act
    BY <2>1 DEF Edit, Editable, page
  <2> QED BY <2>2 DEF workflowRequest, Asked
<1>5. CASE LoadLands
  <2>1. load.state = "read" /\ act' \in {act, NoAct} /\ alive
    BY <1>5 DEF LoadLands
  <2>2. ~Asked
    BY <1>0, <2>1 DEF Control, PageControl
  <2> QED BY <2>1, <2>2 DEF Asked, NoAct
<1>6. CASE ~(AskAct \/ ServerTakesAct \/ LoseAct \/ StartAct \/ FlushSaves \/ FlushWaits
             \/ ActAnswered \/ Type \/ PutBack \/ LoadLands)
  <2>1. text' = text /\ act' \in {act, NoAct} /\ alive
    BY <1>6
       DEF Next, System, Writer, World, ServerTakesSave, ServerAnswersMeta,
           ServerAnswersLoad, TimerFires, NotSaving, SaveLanded, SaveRefused,
           RecordRecovery, SaveFailed, MetaAnswered, LoadFails, LateAnswer,
           SaveOnTeardown, TeardownAnswered, DiscardRefused,
           RetryFailedSave, ReloadLatestDraft, Leave, OtherSaves, OtherMovesDraft,
           Elsewhere, GhostArrives, LoseSave, LoseMeta, LoseLoad, vars, page, editor
  <2> QED BY <1>0, <2>1 DEF ActShowsText, Asked, NoAct
<1> QED BY <1>1, <1>2, <1>3, <1>4, <1>5, <1>6

LEMMA EditorInvInitially == Init => EditorInv
<1> SUFFICES ASSUME Init PROVE EditorInv
  OBVIOUS
<1>1. EditorTypeOK /\ Control /\ Tokens
  BY TypesInitially, ControlInitially, TokensInitially
<1>2. Shown
  BY DEF Init, Shown, LastSave, CopyIsStored, CallIsText, AcceptedIsStored, ActIsStored,
         ActShowsText, Asked, Clean, NoCall, NoAct, NoTeardown
<1> QED BY <1>1, <1>2 DEF EditorInv

LEMMA EditorInvInductive == EditorInv /\ [Next]_vars => EditorInv'
<1> SUFFICES ASSUME EditorInv, [Next]_vars PROVE EditorInv'
  OBVIOUS
<1>1. EditorTypeOK' /\ Control' /\ Tokens'
  BY TypesInductive, ControlInductive, TokensInductive DEF EditorInv
<1>2. Shown'
  BY LastSaveKept, CopyIsStoredKept, CallIsTextKept, AcceptedIsStoredKept,
     ActIsStoredKept, ActShowsTextKept DEF Shown
<1> QED BY <1>1, <1>2 DEF EditorInv

LEMMA EditorInvHolds == Spec => []EditorInv
BY EditorInvInitially, EditorInvInductive, PTL DEF Spec

\* What the page's submission freezes is what it showed when it asked: the server
\* freezes the revision the page named, and a page that has flushed its edits shows
\* that revision's content.
THEOREM SubmissionsFreezeWhatWasShown == Spec => SubmitsWhatWasShown
<1>1. ASSUME EditorInv, ServerTakesAct, srv'.open # srv.open
      PROVE  srv.content = act.shown
  <2>1. act.stage = "asked" /\ act.revision = srv.revision
    <3>1. srv \in Drafts
      BY <1>1 DEF EditorInv, EditorTypeOK, ServerTypeOK
    <3> QED BY <1>1, <3>1 DEF ServerTakesAct, Verdict, Drafts
  <2> QED BY <1>1, <2>1 DEF EditorInv, Shown, ActIsStored
<1>2. EditorInv => [ServerTakesAct /\ srv'.open # srv.open => srv.content = act.shown]_vars
  BY <1>1
<1> QED BY <1>2, EditorInvHolds, PTL DEF SubmitsWhatWasShown

\* A save of this page, late ones included, replaces on the server only text that its
\* working copy once held: it names the revision it was typed upon, and a revision the
\* page may name is behind the stored one or was shown.
THEOREM OverwritesOnlyWhatWasShown == Spec => OverwritesOnlyWhatWasSeen
<1>1. ASSUME EditorInv,
             ServerTakesSave \/ GhostArrives,
             NEW f \in Fields, srv'.content[f] # srv.content[f]
      PROVE  srv.content[f] \in seen
  <2>1. PICK r \in Known, c \in Contents : StoreSave(r, c)
    <3>1. CASE ServerTakesSave
      <4>1. call \in Calls /\ call.revision \in Known /\ StoreSave(call.revision, call.content)
        BY <1>1, <3>1, TypedFields DEF ServerTakesSave, EditorInv, Tokens, CallKnown
      <4> QED BY <4>1 DEF Calls
    <3>2. CASE GhostArrives
      <4>1. PICK g \in ghosts : StoreSave(g.revision, g.content)
        BY <3>2 DEF GhostArrives
      <4>2. g.revision \in Known /\ g.content \in Contents
        BY <1>1 DEF EditorInv, Tokens, GhostsKnown, EditorTypeOK, CallsTypeOK
      <4> QED BY <4>1, <4>2
    <3> QED BY <1>1, <3>1, <3>2
  <2>2. r \in Nat /\ srv.revision \in Nat /\ srv.content \in Contents
    BY <1>1, TypedFields DEF EditorInv, Known
  <2>3. r = srv.revision
    BY <1>1, <2>1, <2>2, Stored DEF EditorInv
  <2>4. Range(srv.content) \subseteq seen
    BY <2>1, <2>3 DEF Known
  <2> QED BY <2>2, <2>4 DEF Range, Contents
<1>2. EditorInv =>
        [(ServerTakesSave \/ GhostArrives) =>
           \A f \in Fields : srv'.content[f] # srv.content[f] => srv.content[f] \in seen]_vars
  BY <1>1
<1> QED BY <1>2, EditorInvHolds, PTL DEF OverwritesOnlyWhatWasSeen

-----------------------------------------------------------------------------
(***************************************************************************)
(* What the writer typed is not lost while the page stands.                *)
(***************************************************************************)
\* The page owes its working copy a save, or a reload that keeps what it replaces.
Owing ==
  \/ timer \/ chain = "saving" \/ (chain = "refreshing" /\ dirty)
  \/ saveState = "failed" \/ (reported /\ ~reloadFailed)

CarriedKnown ==
  /\ Range(srv.content) \subseteq carried
  /\ call.state = "accepted" => Range(call.content) \subseteq carried
  /\ load.state = "read" => Range(load.copy.content) \subseteq carried
RefreshedIsCarried ==
  alive /\ chain = "refreshing" /\ ~dirty => Range(text) \subseteq carried
MineIsKept ==
  alive => \A t \in mine : t \in carried \/ t \in Buffered \/ (t \in Range(text) /\ Owing)

KeptInv == EditorInv /\ CarriedKnown /\ RefreshedIsCarried /\ MineIsKept

LEMMA CarriedKnownKept == KeptInv /\ [Next]_vars => CarriedKnown'
<1> SUFFICES ASSUME KeptInv, [Next]_vars PROVE CarriedKnown'
  OBVIOUS
<1>0. EditorTypeOK /\ CarriedKnown /\ carried \subseteq carried' /\ LoadTypeOK
  BY ServerMoves DEF KeptInv, EditorInv, EditorTypeOK
<1>1. Range(srv'.content) \subseteq carried'
  BY <1>0, ServerMoves DEF CarriedKnown
<1>2. call'.state = "accepted" => Range(call'.content) \subseteq carried'
  <2>1. CASE ServerTakesSave
    <3>1. call \in Calls /\ call.state = "travelling"
      BY <1>0, <2>1, TypedFields DEF ServerTakesSave
    <3>2. /\ call'.content = call.content /\ call'.state = Verdict(call.revision)
          /\ call'.state = "accepted" => carried' = carried \union Range(call.content)
      BY <2>1, <3>1 DEF ServerTakesSave, StoreSave, Calls
    <3> QED BY <3>2
  <2>2. CASE ~ServerTakesSave
    <3>1. call'.state = "accepted" => call' = call
      BY <1>0, <2>2, AcceptedStays
    <3> QED BY <1>0, <3>1 DEF CarriedKnown
  <2> QED BY <2>1, <2>2
<1>3. load'.state = "read" => Range(load'.copy.content) \subseteq carried'
  <2>1. CASE ServerAnswersLoad
    <3>1. load'.copy = srv
      BY <1>0, <2>1 DEF ServerAnswersLoad, LoadTypeOK
    <3> QED BY <1>0, <3>1 DEF CarriedKnown
  <2>2. CASE ~ServerAnswersLoad
    <3>1. load'.state = "read" => load' = load
      BY <1>0, <2>2, ReadStays
    <3> QED BY <1>0, <3>1 DEF CarriedKnown
  <2> QED BY <2>1, <2>2
<1> QED BY <1>1, <1>2, <1>3 DEF CarriedKnown

LEMMA RefreshedIsCarriedKept == KeptInv /\ [Next]_vars => RefreshedIsCarried'
<1> SUFFICES ASSUME KeptInv, [Next]_vars, alive', chain' = "refreshing", ~dirty'
             PROVE  Range(text') \subseteq carried'
  BY DEF RefreshedIsCarried
<1>0. /\ EditorTypeOK /\ Control /\ RefreshedIsCarried /\ CarriedKnown /\ CallIsText
      /\ carried \subseteq carried'
  BY ServerMoves DEF KeptInv, EditorInv, Shown
<1>1. CASE SaveLanded
  <2>1. /\ alive /\ chain = "saving" /\ call.state = "accepted" /\ UNCHANGED <<text, dirty>>
    BY <1>1 DEF SaveLanded
  <2> QED BY <1>0, <2>1 DEF CallIsText, CarriedKnown
<1>2. CASE TimerFires \/ RetryFailedSave \/ FlushSaves
  <2>1. SaveNow
    BY <1>2 DEF TimerFires, RetryFailedSave, FlushSaves
  <2>2. ~(chain' = "refreshing" /\ ~dirty')
    BY <2>1 DEF SaveNow, Attempt
  <2> QED BY <2>2
<1>3. CASE SaveRefused \/ MetaAnswered \/ SaveFailed \/ LateAnswer \/ Leave
  <2>1. chain' # "refreshing" \/ ~alive'
    BY <1>3 DEF SaveRefused, RecordRecovery, MetaAnswered, SaveFailed, LateAnswer, Leave,
                Attempt
  <2> QED BY <2>1
<1>4. CASE Type \/ PutBack
  <2>1. PICK f, t : Edit(f, t)
    BY <1>4 DEF Type, PutBack
  <2> QED BY <2>1 DEF Edit, page
<1>5. CASE LoadLands \/ LoadFails
  <2>1. alive /\ chain = "refreshing" /\ load.state # "none"
    BY <1>5 DEF LoadLands, LoadFails
  <2> QED BY <1>0, <2>1 DEF Control, PageControl
<1>6. CASE ~(\/ SaveLanded \/ TimerFires \/ RetryFailedSave \/ FlushSaves \/ SaveRefused
             \/ MetaAnswered \/ SaveFailed \/ LateAnswer \/ Leave \/ Type \/ PutBack
             \/ LoadLands \/ LoadFails)
  <2>1. UNCHANGED <<text, chain, dirty, alive>>
    BY <1>6
       DEF Next, System, Writer, World, ServerTakesSave, ServerAnswersMeta,
           ServerAnswersLoad, ServerTakesAct, FlushWaits, AskAct, ActAnswered,
           SaveOnTeardown, TeardownAnswered, DiscardRefused, ReloadLatestDraft, StartAct,
           OtherSaves, OtherMovesDraft, Elsewhere, GhostArrives, LoseSave, LoseMeta,
           LoseLoad, LoseAct, vars, editor, page
  <2> QED BY <1>0, <2>1 DEF RefreshedIsCarried
<1> QED BY <1>1, <1>2, <1>3, <1>4, <1>5, <1>6

\* A reload after a refusal keeps each text it replaces, unless some stored revision
\* has held it.
LEMMA ReloadKeeps ==
  ASSUME EditorTypeOK, CarriedKnown, load.state \in {"read", "failed"},
         NEW t \in Range(text)
  PROVE  t \in carried \/ t \in UNION {Range(b.content) : b \in Divergent(text)}
<1>1. PICK f \in Fields : t = text[f]
  BY DEF Range, EditorTypeOK, CopyTypeOK, Contents
<1> DEFINE F == IF load.state = "read"
                THEN {g \in Fields : text[g] # load.copy.content[g]} ELSE Fields
<1>2. CASE f \notin F
  <2>1. load.state = "read" /\ t = load.copy.content[f]
    BY <1>1, <1>2
  <2>2. load.copy.content \in Contents
    BY TypedFields
  <2> QED BY <2>1, <2>2 DEF CarriedKnown, Range, Contents
<1>3. CASE f \in F
  <2> DEFINE b == [content |-> Restrict(text, F), resolved |-> FALSE]
  <2>1. Divergent(text) = {b}
    BY <1>3 DEF Divergent
  <2>2. t \in Range(b.content)
    BY <1>1, <1>3 DEF Range, Restrict
  <2> QED BY <2>1, <2>2
<1> QED BY <1>2, <1>3

\* What an edit replaces is given up; the rest of the working copy stays, and is owed
\* a save.
LEMMA EditKeeps ==
  ASSUME EditorTypeOK, NEW f, NEW u, Edit(f, u), NEW t \in Range(text), t # text[f]
  PROVE  t \in Range(text') /\ Owing'
<1>1. text' = [text EXCEPT ![f] = u] /\ timer'
  BY DEF Edit
<1>2. PICK g \in DOMAIN text : t = text[g]
  BY DEF Range
<1>3. t = text'[g] /\ g \in DOMAIN text'
  BY <1>1, <1>2
<1> QED BY <1>1, <1>3 DEF Range, Owing

\* A save asked for leaves the working copy owed, if it was.
LEMMA SaveNowOwes ==
  ASSUME FlagsTypeOK, Control, alive, SaveNow, NotSaving, Owing
  PROVE  Owing'
<1>1. UNCHANGED <<reported, reloadFailed, view>>
  BY DEF NotSaving
<1> QED BY <1>1 DEF SaveNow, Attempt, Owing, Control, PageControl, FlagsTypeOK

LEMMA MineIsKeptKept == KeptInv /\ [Next]_vars => MineIsKept'
<1> SUFFICES ASSUME KeptInv, [Next]_vars, alive', NEW t \in mine'
             PROVE  t \in carried' \/ t \in Buffered' \/ (t \in Range(text') /\ Owing')
  BY DEF MineIsKept
<1>0. /\ EditorTypeOK /\ Control /\ RefreshedIsCarried /\ CarriedKnown /\ CallIsText
      /\ carried \subseteq carried' /\ FlagsTypeOK
  BY ServerMoves DEF KeptInv, EditorInv, Shown, EditorTypeOK
<1>00. alive
  BY DEF Next, System, Writer, World, ServerTakesSave, ServerAnswersMeta,
         ServerAnswersLoad, ServerTakesAct, TimerFires, NotSaving, SaveLanded,
         SaveRefused, RecordRecovery, SaveFailed, MetaAnswered, LoadLands, LoadFails,
         FlushSaves, FlushWaits, AskAct, ActAnswered, LateAnswer, SaveOnTeardown,
         TeardownAnswered, Type, PutBack, Edit, DiscardRefused, RetryFailedSave,
         ReloadLatestDraft, StartAct, Leave, OtherSaves, OtherMovesDraft, Elsewhere,
         GhostArrives, LoseSave, LoseMeta, LoseLoad, LoseAct, vars, page
<1>k. \A u \in mine : u \in carried \/ u \in Buffered \/ (u \in Range(text) /\ Owing)
  BY <1>00 DEF KeptInv, MineIsKept
<1>1. CASE Type
  <2>1. PICK f \in Fields : Edit(f, written + 1) /\ mine' = (mine \ {text[f]}) \union {written + 1}
    BY <1>1 DEF Type
  <2>2. refused' = refused
    BY <2>1 DEF Edit
  <2>3. CASE t = written + 1
    <3>1. text' = [text EXCEPT ![f] = t] /\ timer' /\ f \in DOMAIN text
      BY <1>0, <2>1, <2>3 DEF Edit, EditorTypeOK, CopyTypeOK, Contents
    <3>2. f \in DOMAIN text' /\ text'[f] = t
      BY <3>1
    <3> QED BY <3>1, <3>2 DEF Range, Owing
  <2>4. CASE t # written + 1
    <3>1. t \in mine /\ t # text[f]
      BY <2>1, <2>4
    <3> QED BY <1>0, <1>k, <2>1, <2>2, <3>1, EditKeeps DEF Buffered
  <2> QED BY <2>3, <2>4
<1>2. CASE PutBack
  <2>1. PICK b \in refused : \E f \in DOMAIN b.content :
          Edit(f, b.content[f]) /\ mine' = mine \ {text[f]}
    BY <1>2 DEF PutBack
  <2> PICK f \in DOMAIN b.content : Edit(f, b.content[f]) /\ mine' = mine \ {text[f]}
    BY <2>1
  <2>2. refused' = refused
    BY DEF Edit
  <2>3. t \in mine /\ t # text[f]
    OBVIOUS
  <2> QED BY <1>0, <1>k, <2>2, <2>3, EditKeeps DEF Buffered
<1>3. CASE DiscardRefused
  <2>1. PICK b \in refused :
          /\ refused' = refused \ {b} /\ mine' = mine \ Range(b.content)
          /\ UNCHANGED <<text, saveState, timer, dirty, reported, reloadFailed, chain>>
    BY <1>3 DEF DiscardRefused, page
  <2>2. t \in mine /\ t \notin Range(b.content)
    BY <2>1
  <2>3. t \in Buffered => t \in Buffered'
    BY <2>1, <2>2 DEF Buffered
  <2>4. Owing => Owing'
    BY <2>1 DEF Owing
  <2> QED BY <1>0, <1>k, <2>1, <2>2, <2>3, <2>4
<1>4. CASE LoadLands \/ LoadFails
  <2>1. /\ mine' = mine /\ load.state \in {"read", "failed"}
        /\ refused' = refused \union (IF load.why = "recover" THEN Divergent(text) ELSE {})
    BY <1>4 DEF LoadLands, LoadFails, counts
  <2>2. t \in Buffered => t \in Buffered'
    BY <2>1 DEF Buffered
  <2>3. ASSUME t \in Range(text), Owing PROVE t \in carried' \/ t \in Buffered'
    <3>1. load.why = "recover"
      <4>1. load.why \in {"none", "visit", "recover", "retry", "act"}
        BY <1>0 DEF EditorTypeOK, LoadTypeOK
      <4>2. /\ load.why # "none" /\ chain = "none"
            /\ load.why = "retry" => reloadFailed
            /\ load.why = "visit" => view = "none" /\ ~reported
            /\ load.why = "act" => act.stage = "reloading"
        BY <1>0, <1>00, <2>1 DEF Control, PageControl
      <4>3. load.why # "act"
        BY <1>0, <1>00, <2>3, <4>2 DEF Control, PageControl, Owing
      <4>4. load.why # "visit" /\ load.why # "retry"
        BY <1>0, <1>00, <2>3, <4>2 DEF Control, PageControl, Owing
      <4> QED BY <4>1, <4>2, <4>3, <4>4
    <3>2. \A b \in Divergent(text) : b \in refused'
      BY <2>1, <3>1
    <3> QED BY <1>0, <2>1, <2>3, <3>2, ReloadKeeps DEF Buffered
  <2> QED BY <1>0, <1>k, <2>1, <2>2, <2>3
<1>5. CASE SaveLanded
  <2>1. /\ UNCHANGED <<text, dirty, mine>> /\ chain = "saving" /\ call.state = "accepted"
        /\ chain' = "refreshing"
        /\ refused' = {[b EXCEPT !.resolved = @ \/ Carries(b, call.content)] : b \in refused}
    BY <1>5 DEF SaveLanded
  <2>2. t \in Buffered => t \in Buffered'
    <3>1. ASSUME NEW b \in refused
          PROVE  [b EXCEPT !.resolved = @ \/ Carries(b, call.content)].content = b.content
      BY <1>0 DEF EditorTypeOK, BuffersTypeOK, IsBuffer
    <3>2. ASSUME NEW b \in refused, t \in Range(b.content)
          PROVE  \E d \in refused' : t \in Range(d.content)
      <4>1. [b EXCEPT !.resolved = @ \/ Carries(b, call.content)] \in refused'
        BY <2>1
      <4> QED BY <3>1, <3>2, <4>1
    <3> QED BY <3>2 DEF Buffered
  <2>3. CASE dirty
    BY <1>0, <1>k, <2>1, <2>2, <2>3 DEF Owing
  <2>4. CASE ~dirty
    <3>1. Range(text) \subseteq carried
      BY <1>0, <1>00, <2>1, <2>4 DEF CallIsText, CarriedKnown
    <3> QED BY <1>0, <1>k, <2>1, <2>2, <3>1
  <2> QED BY <2>3, <2>4
<1>6. CASE MetaAnswered
  <2>1. /\ UNCHANGED <<text, mine, refused>> /\ chain = "refreshing"
        /\ dirty => chain' = "saving"
    BY <1>00, <1>6 DEF MetaAnswered, Attempt
  <2>2. ~dirty => Range(text) \subseteq carried
    BY <1>0, <1>00, <2>1 DEF RefreshedIsCarried
  <2> QED BY <1>0, <1>k, <2>1, <2>2 DEF Owing, Buffered
<1>7. CASE TimerFires \/ RetryFailedSave \/ FlushSaves
  <2>1. SaveNow /\ NotSaving /\ UNCHANGED <<text, mine, refused>>
    BY <1>7 DEF TimerFires, RetryFailedSave, FlushSaves, NotSaving
  <2>2. Owing => Owing'
    BY <1>0, <1>00, <2>1, SaveNowOwes
  <2> QED BY <1>0, <1>k, <2>1, <2>2 DEF Buffered
<1>8. CASE SaveRefused \/ SaveFailed
  <2>1. UNCHANGED <<text, mine, refused, reloadFailed>> /\ chain = "saving"
    BY <1>8 DEF SaveRefused, RecordRecovery, SaveFailed, NotSaving
  <2>2. ~reloadFailed
    BY <1>0, <1>00, <2>1 DEF Control, PageControl, FlagsTypeOK
  <2>3. Owing'
    BY <1>8, <2>1, <2>2 DEF SaveRefused, RecordRecovery, Attempt, SaveFailed, Owing
  <2> QED BY <1>0, <1>k, <2>1, <2>3 DEF Buffered
<1>9. CASE Leave \/ LateAnswer
  BY <1>9, <1>00 DEF Leave, LateAnswer
<1>10. CASE \/ ServerTakesSave \/ ServerAnswersMeta \/ ServerAnswersLoad \/ ServerTakesAct
            \/ FlushWaits \/ AskAct \/ ActAnswered \/ SaveOnTeardown \/ TeardownAnswered
            \/ ReloadLatestDraft \/ StartAct \/ OtherSaves \/ OtherMovesDraft
            \/ GhostArrives \/ LoseSave \/ LoseMeta \/ LoseLoad \/ LoseAct
            \/ UNCHANGED vars
  <2>1. UNCHANGED <<text, mine, refused, saveState, timer, dirty, reported, reloadFailed, chain>>
    BY <1>10
       DEF ServerTakesSave, ServerAnswersMeta, ServerAnswersLoad, ServerTakesAct,
           FlushWaits, AskAct, ActAnswered, SaveOnTeardown, TeardownAnswered,
           ReloadLatestDraft, StartAct, OtherSaves, OtherMovesDraft, Elsewhere,
           GhostArrives, LoseSave, LoseMeta, LoseLoad, LoseAct, vars, editor, page
  <2>2. Owing' = Owing /\ Buffered' = Buffered
    BY <2>1 DEF Owing, Buffered
  <2> QED BY <1>0, <1>k, <2>1, <2>2
<1> QED
  BY <1>1, <1>2, <1>3, <1>4, <1>5, <1>6, <1>7, <1>8, <1>9, <1>10
     DEF Next, System, Writer, World

\* While the page stands, each text its writer typed and did not give up is in a
\* revision the server stored, in a buffer the page shows, or in a working copy that
\* the page still owes a save or a reload and will not let the writer leave.
THEOREM TypedTextIsKept == Spec => []TypedTextSurvives
<1>1. Init => KeptInv
  <2> SUFFICES ASSUME Init PROVE KeptInv
    OBVIOUS
  <2>1. Range(Blank) \subseteq {0}
    BY DEF Range, Blank
  <2>2. CarriedKnown /\ RefreshedIsCarried /\ MineIsKept
    BY <2>1
       DEF Init, CarriedKnown, RefreshedIsCarried, MineIsKept, NoCall, Loading
  <2> QED BY <2>2, EditorInvInitially DEF KeptInv
<1>2. KeptInv /\ [Next]_vars => KeptInv'
  BY EditorInvInductive, CarriedKnownKept, RefreshedIsCarriedKept, MineIsKeptKept DEF KeptInv
<1>3. KeptInv => TypedTextSurvives
  <2>1. Owing => ~MayLeave
    BY DEF Owing, MayLeave, HasUnsavedEdits, HasPendingRecovery
  <2> QED BY <2>1 DEF KeptInv, MineIsKept, TypedTextSurvives
<1> QED BY <1>1, <1>2, <1>3, PTL DEF Spec
=============================================================================
