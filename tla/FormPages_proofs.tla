-------------------------- MODULE FormPages_proofs --------------------------
(***************************************************************************)
(* The forms, for any number of drafts, files, events and writers, and     *)
(* wherever a request breaks off: a draft is dropped once its event is     *)
(* published, a slot tells the truth about its file, and a save is the     *)
(* merge it says.                                                          *)
(***************************************************************************)
EXTENDS SubmitDraft, SourceUploads, CollectionEdit, FiniteSetTheorems, FunctionTheorems,
        SequenceTheorems, TLAPS

-----------------------------------------------------------------------------
(***************************************************************************)
(* The submit form and its draft.                                          *)
(***************************************************************************)

\* What the create names: a draft that was typed, while the page waits for it.
PostingIsTyped ==
    /\ posting.stage = "idle" <=> posting = Idle
    /\ posting # Idle => posting.text \in 1 .. typed

\* Every draft anywhere has been typed.
TypedOnly ==
    /\ form.text <= typed
    /\ store <= typed
    /\ \A i \in DOMAIN tasks : tasks[i].text <= typed
    /\ spent \subseteq 1 .. typed

DropsArePending(i) == \E j \in DOMAIN tasks : i < j /\ tasks[j].op = "delete"

\* A draft of a form whose publish landed is followed, wherever it still is, by a drop.
SpentIsDropped ==
    /\ \A i \in DOMAIN tasks :
          /\ tasks[i].op = "delete" => tasks[i].text = Blank
          /\ tasks[i].op = "put" /\ tasks[i].text \in spent => DropsArePending(i)
    /\ store \in spent => DropsArePending(0)

\* The form that is open is the one whose create runs; one that still stores has nothing spent.
FormIsItsOwn ==
    /\ posting # Idle /\ form.stage # "away" => form.number = posting.number
    /\ form.stage = "ready" /\ ~form.cleared => form.text \notin spent

\* The inductive invariant.
DraftInv ==
    /\ SubmitTypeOK
    /\ PostingIsTyped
    /\ TypedOnly
    /\ ~excused => SpentIsDropped /\ FormIsItsOwn
-----------------------------------------------------------------------------
FormType == [stage : {"away", "reading", "ready"}, text : Drafts \cup {Blank},
             resting : BOOLEAN, cleared : BOOLEAN, armed : Writes \cup {NoWrite},
             number : 0 .. MaxOpenings]
PostingType == [kind : Writes \cup {NoWrite}, text : Drafts \cup {Blank},
                stage : {"idle", "sent", "created", "linking"}, number : 0 .. MaxOpenings]
TaskType == [op : {"put", "delete"}, text : Drafts \cup {Blank}]

\* A form that is away is a form.
LEMMA NoFormTyped == NoForm \in FormType
  BY SubmitAssumption DEF NoForm, FormType, Blank

\* The pieces of the invariant, as the steps use them.
LEMMA DraftPieces ==
  ASSUME DraftInv
  PROVE  /\ form \in FormType /\ store \in Drafts \cup {Blank} /\ tasks \in Seq(TaskType)
         /\ posting \in PostingType /\ pending \subseteq Drafts
         /\ created \in [Drafts -> Nat] /\ typed \in 0 .. MaxDrafts /\ spent \subseteq Drafts
         /\ openings \in 0 .. MaxOpenings
         /\ \A i \in DOMAIN tasks : tasks[i] \in TaskType
         /\ PostingIsTyped /\ TypedOnly /\ MaxDrafts \in Nat
         /\ ~excused => SpentIsDropped /\ FormIsItsOwn
  <1>1. tasks \in Seq(TaskType)
    BY DEF DraftInv, SubmitTypeOK, TaskType
  <1>2. \A i \in DOMAIN tasks : tasks[i] \in TaskType
    BY <1>1
  <1> QED
    BY <1>1, <1>2, SubmitAssumption DEF DraftInv, SubmitTypeOK, FormType, PostingType

LEMMA InitDraft == SubmitInit => DraftInv
  <1> SUFFICES ASSUME SubmitInit
               PROVE  DraftInv
    OBVIOUS
  <1>1. SubmitTypeOK
    BY NoFormTyped, SubmitAssumption DEF SubmitInit, SubmitTypeOK, FormType, Idle, Blank
  <1>2. PostingIsTyped /\ TypedOnly
    BY DEF SubmitInit, PostingIsTyped, TypedOnly, Idle, NoForm, Blank
  <1>3. SpentIsDropped /\ FormIsItsOwn
    BY DEF SubmitInit, SpentIsDropped, FormIsItsOwn, NoForm
  <1> QED
    BY <1>1, <1>2, <1>3 DEF DraftInv

-----------------------------------------------------------------------------
\* The form changes alone, and stores no more than before.
LEMMA DraftFormKeeps ==
  ASSUME DraftInv, form' \in FormType,
         UNCHANGED <<store, tasks, posting, pending, created, typed, openings, spent>>,
         form'.text = form.text \/ form'.text = Blank,
         form'.stage = "away" \/ (form'.stage = form.stage /\ form'.number = form.number),
         form'.cleared = form.cleared \/ form'.stage = "away",
         form'.stage = "ready" => form'.text = form.text,
         excused' = excused
  PROVE  DraftInv'
  <1>1. SubmitTypeOK'
    BY DraftPieces DEF SubmitTypeOK, FormType, PostingType, TaskType
  <1>2. PostingIsTyped' /\ TypedOnly'
    BY DraftPieces DEF PostingIsTyped, TypedOnly, Blank
  <1>3. ~excused' => SpentIsDropped' /\ FormIsItsOwn'
    BY DraftPieces DEF SpentIsDropped, FormIsItsOwn, DropsArePending
  <1> QED
    BY <1>1, <1>2, <1>3 DEF DraftInv

LEMMA ButtonsKeep ==
  ASSUME DraftInv, Disarm \/ LeaveForm \/ \E w \in Writes : ClickShort(w) \/ Arm(w)
  PROVE  DraftInv'
  <1>1. CASE LeaveForm
    BY <1>1, NoFormTyped, DraftFormKeeps DEF LeaveForm, NoForm
  <1>2. CASE Disarm \/ \E w \in Writes : ClickShort(w) \/ Arm(w)
    <2>1. PICK w \in Writes \cup {NoWrite} : form' = [form EXCEPT !.armed = w]
      BY <1>2 DEF Disarm, ClickShort, Arm
    <2>2. /\ form' \in FormType /\ form'.text = form.text /\ form'.stage = form.stage
          /\ form'.number = form.number /\ form'.cleared = form.cleared
      BY <2>1, DraftPieces DEF FormType
    <2>3. UNCHANGED <<store, tasks, posting, pending, created, typed, openings, spent, excused>>
      BY <1>2 DEF Disarm, ClickShort, Arm
    <2> QED
      BY <2>2, <2>3, DraftFormKeeps
  <1> QED
    BY <1>1, <1>2

LEMMA OpenKeeps ==
  ASSUME DraftInv, OpenForm
  PROVE  DraftInv'
  <1>0. /\ openings' \in 0 .. MaxOpenings
        /\ form' = [NoForm EXCEPT !.stage = "reading", !.number = openings']
    BY SubmitAssumption, DraftPieces DEF OpenForm
  <1>1. form'.text = Blank /\ form'.stage = "reading" /\ form' \in FormType
    BY <1>0 DEF FormType, NoForm, Blank
  <1>2. UNCHANGED <<store, tasks, posting, pending, created, typed, spent>>
    BY DEF OpenForm
  <1>3. SubmitTypeOK'
    BY <1>0, <1>1, <1>2, DraftPieces DEF SubmitTypeOK, FormType, PostingType, TaskType
  <1>4. PostingIsTyped' /\ TypedOnly'
    BY <1>1, <1>2, DraftPieces DEF PostingIsTyped, TypedOnly, Blank
  <1>5. ~excused' => ~excused /\ posting = Idle
    BY DEF OpenForm
  <1>6. ~excused' => SpentIsDropped' /\ FormIsItsOwn'
    BY <1>1, <1>2, <1>5, DraftPieces DEF SpentIsDropped, FormIsItsOwn, DropsArePending
  <1> QED
    BY <1>3, <1>4, <1>6 DEF DraftInv

\* The draft is read once no transaction is left, so it is none that a drop still waits for.
LEMMA ReadKeeps ==
  ASSUME DraftInv, ReadDraft
  PROVE  DraftInv'
  <1>1. PICK kept \in {store, Blank} :
           form' = [form EXCEPT !.stage = "ready", !.text = kept, !.resting = TRUE]
    BY DEF ReadDraft
  <1>2. /\ form' \in FormType /\ form'.text = kept /\ form'.number = form.number
        /\ form.stage # "away" /\ kept <= typed
    <2>1. kept \in Drafts \cup {Blank} /\ kept <= typed
      BY DraftPieces DEF TypedOnly, Blank
    <2>2. form \in FormType /\ form.stage = "reading"
      BY DraftPieces DEF ReadDraft
    <2> QED
      BY <1>1, <2>1, <2>2 DEF FormType
  <1>3. /\ UNCHANGED <<store, tasks, posting, pending, created, typed, openings, spent, excused>>
        /\ tasks = <<>>
    BY DEF ReadDraft
  <1>4. SubmitTypeOK'
    BY <1>2, <1>3, DraftPieces DEF SubmitTypeOK, FormType, PostingType, TaskType
  <1>5. PostingIsTyped' /\ TypedOnly'
    BY <1>2, <1>3, DraftPieces DEF PostingIsTyped, TypedOnly
  <1>6. ASSUME ~excused
        PROVE  kept \notin spent
    <2>1. store \notin spent
      BY <1>3, <1>6, DraftPieces DEF SpentIsDropped, DropsArePending
    <2> QED
      BY <1>1, <2>1, DraftPieces DEF Drafts, Blank
  <1>7. ~excused' => SpentIsDropped' /\ FormIsItsOwn'
    BY <1>2, <1>3, <1>6, DraftPieces DEF SpentIsDropped, FormIsItsOwn, DropsArePending
  <1> QED
    BY <1>4, <1>5, <1>7 DEF DraftInv

\* A draft typed is a new one.
LEMMA TypeKeeps ==
  ASSUME DraftInv, TypeDraft
  PROVE  DraftInv'
  <1>1. /\ typed' = typed + 1 /\ typed < MaxDrafts /\ typed \in Nat
        /\ UNCHANGED <<store, tasks, posting, pending, created, openings, excused>>
        /\ spent' = IF form.cleared THEN spent \cup {typed'} ELSE spent
    BY DraftPieces DEF TypeDraft
  <1>2. /\ form' \in FormType /\ form'.text = typed' /\ form'.stage = form.stage
        /\ form'.number = form.number /\ form'.cleared = form.cleared
    <2>1. form' = [form EXCEPT !.text = typed', !.resting = TRUE, !.armed = NoWrite]
      BY DEF TypeDraft
    <2>2. typed' \in Drafts
      BY <1>1, DraftPieces DEF Drafts
    <2> QED
      BY <2>1, <2>2, DraftPieces DEF FormType
  <1>3. spent' \subseteq Drafts /\ spent' \subseteq 1 .. typed'
    BY <1>1, DraftPieces DEF Drafts, TypedOnly
  <1>4. SubmitTypeOK'
    BY <1>1, <1>2, <1>3, DraftPieces DEF SubmitTypeOK, FormType, PostingType, TaskType
  <1>5. \A i \in DOMAIN tasks : tasks[i].text \in Nat
    BY DraftPieces DEF TaskType, Drafts, Blank
  <1>6. PostingIsTyped' /\ TypedOnly'
    BY <1>1, <1>2, <1>3, <1>5, DraftPieces DEF PostingIsTyped, TypedOnly, Drafts, Blank
  <1>7. (store \in spent' => store \in spent)
        /\ \A i \in DOMAIN tasks : tasks[i].text \in spent' => tasks[i].text \in spent
    BY <1>1, <1>5, DraftPieces DEF TypedOnly, Drafts, Blank
  <1>8. typed' \notin spent
    BY <1>1, DraftPieces DEF TypedOnly
  <1>9. ~excused' => SpentIsDropped' /\ FormIsItsOwn'
    BY <1>1, <1>2, <1>7, <1>8, DraftPieces DEF SpentIsDropped, FormIsItsOwn, DropsArePending
  <1> QED
    BY <1>4, <1>6, <1>9 DEF DraftInv

\* The form still open is not cleared, so what its timer stores has no drop behind it to wait for.
LEMMA StoreKeeps ==
  ASSUME DraftInv, StoreDraft
  PROVE  DraftInv'
  <1> DEFINE put == [op |-> "put", text |-> form.text]
  <1>1. /\ UNCHANGED <<store, posting, pending, created, typed, openings, spent, excused>>
        /\ tasks' = IF form.cleared THEN tasks ELSE Append(tasks, put)
        /\ form.stage = "ready"
    BY DEF StoreDraft, Open
  <1>2. /\ form' \in FormType /\ form'.text = form.text /\ form'.stage = form.stage
        /\ form'.number = form.number /\ form'.cleared = form.cleared
    BY DraftPieces DEF StoreDraft, FormType
  <1>3. put \in TaskType /\ put.op = "put" /\ put.text = form.text /\ form.text <= typed
    BY DraftPieces DEF FormType, TaskType, TypedOnly
  <1> HIDE DEF put
  <1>4. CASE form.cleared
    <2>1. SubmitTypeOK'
      BY <1>1, <1>2, <1>4, DraftPieces DEF SubmitTypeOK, FormType, PostingType, TaskType
    <2>2. PostingIsTyped' /\ TypedOnly'
      BY <1>1, <1>2, <1>4, DraftPieces DEF PostingIsTyped, TypedOnly
    <2>3. ~excused' => SpentIsDropped' /\ FormIsItsOwn'
      BY <1>1, <1>2, <1>4, DraftPieces DEF SpentIsDropped, FormIsItsOwn, DropsArePending
    <2> QED
      BY <2>1, <2>2, <2>3 DEF DraftInv
  <1>5. CASE ~form.cleared
    <2>1. /\ tasks' \in Seq(TaskType) /\ DOMAIN tasks' = 1 .. Len(tasks) + 1
          /\ DOMAIN tasks = 1 .. Len(tasks) /\ Len(tasks) \in Nat
          /\ \A i \in DOMAIN tasks : tasks'[i] = tasks[i]
          /\ tasks'[Len(tasks) + 1] = put
      BY <1>1, <1>3, <1>5, DraftPieces
    <2>2. SubmitTypeOK'
      BY <1>1, <1>2, <2>1, DraftPieces DEF SubmitTypeOK, FormType, PostingType, TaskType
    <2>3. PostingIsTyped' /\ TypedOnly'
      BY <1>1, <1>2, <1>3, <2>1, DraftPieces DEF PostingIsTyped, TypedOnly
    <2>4. ASSUME ~excused'
          PROVE  SpentIsDropped' /\ FormIsItsOwn'
      <3>1. form.text \notin spent /\ SpentIsDropped /\ FormIsItsOwn
        BY <1>1, <1>5, <2>4, DraftPieces DEF FormIsItsOwn
      <3>2. \A i \in 0 .. Len(tasks) : DropsArePending(i) => DropsArePending(i)'
        BY <2>1 DEF DropsArePending
      <3>3. store \in spent => DropsArePending(0)'
        BY <2>1, <3>1, <3>2 DEF SpentIsDropped
      <3>4. \A i \in DOMAIN tasks' :
               /\ tasks'[i].op = "delete" => tasks'[i].text = Blank
               /\ tasks'[i].op = "put" /\ tasks'[i].text \in spent => DropsArePending(i)'
        <4> TAKE i \in DOMAIN tasks'
        <4>1. CASE i \in DOMAIN tasks
          BY <2>1, <3>1, <3>2, <4>1 DEF SpentIsDropped
        <4>2. CASE i = Len(tasks) + 1
          BY <1>3, <2>1, <3>1, <4>2
        <4> QED
          BY <2>1, <4>1, <4>2
      <3>5. SpentIsDropped'
        BY <1>1, <3>3, <3>4 DEF SpentIsDropped
      <3> QED
        BY <1>1, <1>2, <3>1, <3>5 DEF FormIsItsOwn
    <2> QED
      BY <2>2, <2>3, <2>4 DEF DraftInv
  <1> QED
    BY <1>4, <1>5

\* The oldest transaction runs: what it stores has its drop behind it, unless a drop fails.
LEMMA RunKeeps ==
  ASSUME DraftInv, RunTask
  PROVE  DraftInv'
  <1>1. /\ UNCHANGED <<form, posting, pending, created, typed, openings, spent>>
        /\ tasks # <<>> /\ tasks' = Tail(tasks)
        /\ (store' = Head(tasks).text /\ excused' = excused)
           \/ (store' = store /\ excused' = (excused \/ Head(tasks).op = "delete"))
    BY DEF RunTask
  <1>2. /\ tasks' \in Seq(TaskType) /\ DOMAIN tasks' = 1 .. Len(tasks) - 1
        /\ DOMAIN tasks = 1 .. Len(tasks) /\ Len(tasks) \in Nat \ {0}
        /\ \A i \in DOMAIN tasks' : tasks'[i] = tasks[i + 1]
        /\ Head(tasks) = tasks[1] /\ 1 \in DOMAIN tasks
    BY <1>1, DraftPieces
  <1>3. /\ tasks[1].text \in Drafts \cup {Blank} /\ tasks[1].op \in {"put", "delete"}
        /\ tasks[1].text <= typed
    BY <1>2, DraftPieces DEF TaskType, TypedOnly
  <1>4. store' \in {store, tasks[1].text}
    BY <1>1, <1>2
  <1>5. SubmitTypeOK'
    BY <1>1, <1>2, <1>3, <1>4, DraftPieces DEF SubmitTypeOK, FormType, PostingType, TaskType
  <1>6. PostingIsTyped' /\ TypedOnly'
    BY <1>1, <1>2, <1>3, <1>4, DraftPieces DEF PostingIsTyped, TypedOnly
  <1>7. ASSUME ~excused'
        PROVE  SpentIsDropped' /\ FormIsItsOwn'
    <2>0. ~excused
      BY <1>7, Zenon DEF RunTask
    <2>1. SpentIsDropped /\ FormIsItsOwn
      BY <2>0, DraftPieces
    <2>2. \A i \in DOMAIN tasks' : DropsArePending(i + 1) => DropsArePending(i)'
      <3> TAKE i \in DOMAIN tasks'
      <3> HAVE DropsArePending(i + 1)
      <3>1. PICK j \in DOMAIN tasks : i + 1 < j /\ tasks[j].op = "delete"
        BY DEF DropsArePending
      <3>2. j - 1 \in DOMAIN tasks' /\ i < j - 1 /\ tasks'[j - 1].op = "delete"
        <4>1. j - 1 \in DOMAIN tasks' /\ i < j - 1
          BY <1>2, <3>1
        <4>2. tasks'[j - 1] = tasks[j]
          BY <1>2, <3>1, <4>1
        <4> QED
          BY <3>1, <4>1, <4>2
      <3> QED
        BY <3>2 DEF DropsArePending
    <2>3. \A i \in DOMAIN tasks' :
             /\ tasks'[i].op = "delete" => tasks'[i].text = Blank
             /\ tasks'[i].op = "put" /\ tasks'[i].text \in spent => DropsArePending(i)'
      BY <1>2, <2>1, <2>2 DEF SpentIsDropped
    <2>4. (\E j \in DOMAIN tasks : 1 < j /\ tasks[j].op = "delete") => DropsArePending(0)'
      <3> HAVE \E j \in DOMAIN tasks : 1 < j /\ tasks[j].op = "delete"
      <3>1. PICK j \in DOMAIN tasks : 1 < j /\ tasks[j].op = "delete"
        OBVIOUS
      <3>2. j - 1 \in DOMAIN tasks' /\ 0 < j - 1
        BY <1>2, <3>1
      <3>3. tasks'[j - 1] = tasks[j]
        BY <1>2, <3>1, <3>2
      <3> QED
        BY <3>1, <3>2, <3>3 DEF DropsArePending
    <2>5. store' \in spent => DropsArePending(0)'
      <3>1. CASE store' = store /\ Head(tasks).op # "delete"
        BY <1>2, <2>1, <2>4, <3>1 DEF SpentIsDropped, DropsArePending
      <3>2. CASE store' = tasks[1].text
        <4> SUFFICES ASSUME store' \in spent
                     PROVE  DropsArePending(0)'
          OBVIOUS
        <4>1. tasks[1].text # Blank
          BY <3>2, DraftPieces DEF Drafts, Blank
        <4>2. DropsArePending(1)
          BY <1>2, <1>3, <2>1, <3>2, <4>1 DEF SpentIsDropped
        <4> QED
          BY <2>4, <4>2 DEF DropsArePending
      <3> QED
        BY <1>1, <1>2, <1>7, <3>1, <3>2
    <2> QED
      BY <1>1, <2>1, <2>3, <2>5 DEF SpentIsDropped, FormIsItsOwn
  <1> QED
    BY <1>5, <1>6, <1>7 DEF DraftInv

\* The reader confirms what the form shows; the draft named has been typed.
LEMMA ConfirmKeeps ==
  ASSUME DraftInv, NEW w \in Writes, Confirm(w)
  PROVE  DraftInv'
  <1>1. /\ UNCHANGED <<store, tasks, pending, created, typed, openings, spent, excused>>
        /\ posting' = [kind |-> w, text |-> form.text, stage |-> "sent", number |-> form.number]
        /\ form' = [form EXCEPT !.armed = NoWrite]
        /\ form.text \in Meets[w]
    BY DEF Confirm
  <1>2. /\ form' \in FormType /\ form'.text = form.text /\ form'.stage = form.stage
        /\ form'.number = form.number /\ form'.cleared = form.cleared
    BY <1>1, DraftPieces DEF FormType
  <1>3. form.text \in 1 .. typed
    BY <1>1, SubmitAssumption, DraftPieces DEF TypedOnly
  <1>4. posting' # Idle
    BY <1>1 DEF Idle
  <1>5. SubmitTypeOK'
    BY <1>1, <1>2, DraftPieces DEF SubmitTypeOK, FormType, PostingType, TaskType
  <1>6. PostingIsTyped' /\ TypedOnly'
    BY <1>1, <1>2, <1>3, <1>4, DraftPieces DEF PostingIsTyped, TypedOnly
  <1>7. ~excused' => SpentIsDropped' /\ FormIsItsOwn'
    BY <1>1, <1>2, DraftPieces DEF SpentIsDropped, FormIsItsOwn, DropsArePending
  <1> QED
    BY <1>5, <1>6, <1>7 DEF DraftInv


\* What the server does with a create, and the answer that says no more than that it ran,
\* changes neither the draft nor the form.
LEMMA ServerKeeps ==
  ASSUME DraftInv,
         UNCHANGED <<form, store, tasks, typed, openings, spent, excused>>,
         posting' = posting \/ posting' = Idle
           \/ \E stage \in {"created", "linking"} :
                 posting # Idle /\ posting' = [posting EXCEPT !.stage = stage],
         pending' \subseteq Drafts, created' \in [Drafts -> Nat]
  PROVE  DraftInv'
  <1>1. posting' = posting \/ posting' = Idle
        \/ /\ posting # Idle /\ posting'.stage \in {"created", "linking"}
           /\ posting' \in PostingType
           /\ posting'.text = posting.text /\ posting'.number = posting.number
    BY DraftPieces DEF PostingType
  <1>2. Idle \in PostingType /\ Idle.stage = "idle"
    BY SubmitAssumption DEF Idle, PostingType, Blank
  <1>3. SubmitTypeOK'
    BY <1>1, <1>2, DraftPieces DEF SubmitTypeOK, FormType, PostingType, TaskType
  <1>4. PostingIsTyped' /\ TypedOnly'
    BY <1>1, <1>2, DraftPieces DEF PostingIsTyped, TypedOnly
  <1>5. ~excused' => SpentIsDropped' /\ FormIsItsOwn'
    BY <1>1, DraftPieces DEF SpentIsDropped, FormIsItsOwn, DropsArePending
  <1> QED
    BY <1>3, <1>4, <1>5 DEF DraftInv

LEMMA CreateKeeps ==
  ASSUME DraftInv, ServerCreates \/ CreateFails \/ \E d \in Drafts : ServerCreatesLate(d)
  PROVE  DraftInv'
  <1>1. UNCHANGED <<form, store, tasks, typed, openings, spent, excused>>
    BY DEF ServerCreates, CreateFails, ServerCreatesLate
  <1>2. posting' = posting \/ posting' = Idle
           \/ \E stage \in {"created", "linking"} :
                 posting # Idle /\ posting' = [posting EXCEPT !.stage = stage]
    BY DEF ServerCreates, CreateFails, ServerCreatesLate, Idle
  <1>3. posting.stage = "sent" => posting.text \in Drafts
    BY DraftPieces DEF PostingIsTyped, Drafts, Idle
  <1>4. pending' \subseteq Drafts
    BY <1>3, DraftPieces DEF ServerCreates, CreateFails, ServerCreatesLate, Unserved
  <1>5. created' \in [Drafts -> Nat]
    BY DraftPieces DEF ServerCreates, CreateFails, ServerCreatesLate
  <1> QED
    BY <1>1, <1>2, <1>4, <1>5, ServerKeeps

\* A publish known to have landed puts the drop behind everything the store has still to run.
LEMMA SucceedKeeps ==
  ASSUME DraftInv, posting # Idle, Succeed,
         UNCHANGED <<store, pending, created, typed, openings, excused>>
  PROVE  DraftInv'
  <1> DEFINE drop == [op |-> "delete", text |-> Blank]
  <1>1. /\ tasks' = Append(tasks, drop) /\ posting' = Idle
        /\ form' = IF form.number = posting.number THEN [form EXCEPT !.cleared = TRUE] ELSE form
        /\ spent' = spent \cup {posting.text}
                      \cup (IF form.number = posting.number THEN {form.text} \ {Blank} ELSE {})
    BY DEF Succeed
  <1>2. /\ form' \in FormType /\ form'.text = form.text /\ form'.stage = form.stage
        /\ form'.number = form.number
        /\ form.number = posting.number => form'.cleared
    BY <1>1, DraftPieces DEF FormType
  <1>3. drop \in TaskType /\ drop.op = "delete" /\ drop.text = Blank
    BY DEF TaskType
  <1> HIDE DEF drop
  <1>4. /\ tasks' \in Seq(TaskType) /\ DOMAIN tasks' = 1 .. Len(tasks) + 1
        /\ DOMAIN tasks = 1 .. Len(tasks) /\ Len(tasks) \in Nat
        /\ \A i \in DOMAIN tasks : tasks'[i] = tasks[i]
        /\ tasks'[Len(tasks) + 1] = drop
    BY <1>1, <1>3, DraftPieces
  <1>5. spent' \subseteq 1 .. typed /\ spent' \subseteq Drafts
    BY <1>1, DraftPieces DEF PostingIsTyped, TypedOnly, FormType, Drafts, Blank
  <1>6. Idle \in PostingType /\ Idle.stage = "idle"
    BY SubmitAssumption DEF Idle, PostingType, Blank
  <1>7. SubmitTypeOK'
    BY <1>1, <1>2, <1>4, <1>5, <1>6, DraftPieces
       DEF SubmitTypeOK, FormType, PostingType, TaskType
  <1>8. PostingIsTyped' /\ TypedOnly'
    <2>1. Blank <= typed
      BY DraftPieces DEF Blank
    <2> QED
      BY <1>1, <1>2, <1>3, <1>4, <1>5, <1>6, <2>1, DraftPieces DEF PostingIsTyped, TypedOnly
  <1>9. ASSUME ~excused'
        PROVE  SpentIsDropped' /\ FormIsItsOwn'
    <2>1. SpentIsDropped /\ FormIsItsOwn
      BY <1>9, DraftPieces
    <2>2. \A i \in 0 .. Len(tasks) : DropsArePending(i)'
      BY <1>3, <1>4 DEF DropsArePending
    <2>3. store' \in spent' => DropsArePending(0)'
      BY <1>4, <2>2
    <2>4. \A i \in DOMAIN tasks' :
             /\ tasks'[i].op = "delete" => tasks'[i].text = Blank
             /\ tasks'[i].op = "put" /\ tasks'[i].text \in spent' => DropsArePending(i)'
      <3> TAKE i \in DOMAIN tasks'
      <3>1. CASE i \in DOMAIN tasks
        BY <1>4, <2>1, <2>2, <3>1 DEF SpentIsDropped
      <3>2. CASE i = Len(tasks) + 1
        BY <1>3, <1>4, <3>2
      <3> QED
        BY <1>4, <3>1, <3>2
    <2>5. SpentIsDropped'
      BY <2>3, <2>4 DEF SpentIsDropped
    <2>6. FormIsItsOwn'
      BY <1>1, <1>2, <2>1 DEF FormIsItsOwn
    <2> QED
      BY <2>5, <2>6
  <1> QED
    BY <1>7, <1>8, <1>9 DEF DraftInv

LEMMA AnsweredKeeps ==
  ASSUME DraftInv, LinkSites \/ CreateAnswered
  PROVE  DraftInv'
  <1>1. /\ posting # Idle
        /\ UNCHANGED <<store, pending, created, typed, openings, excused>>
    BY DEF LinkSites, CreateAnswered, Idle
  <1>2. CASE Succeed
    BY <1>1, <1>2, SucceedKeeps
  <1>3. CASE posting' = [posting EXCEPT !.stage = "linking"] /\ UNCHANGED <<tasks, form, spent>>
    BY <1>1, <1>3, ServerKeeps, DraftPieces
  <1> QED
    BY <1>2, <1>3 DEF LinkSites, CreateAnswered

\* A reload loses what the store had not run: a drop among it is the excuse.
LEMMA ReloadKeeps ==
  ASSUME DraftInv, ReloadForm
  PROVE  DraftInv'
  <1>1. /\ form' = NoForm /\ tasks' = <<>> /\ posting' = Idle
        /\ UNCHANGED <<store, created, typed, openings, spent>>
        /\ excused' = (excused \/ \E i \in DOMAIN tasks : tasks[i].op = "delete")
    BY DEF ReloadForm
  <1>2. pending' \subseteq Drafts
    BY DraftPieces DEF ReloadForm, Unserved, PostingIsTyped, Drafts, Idle
  <1>3. /\ form' \in FormType /\ form'.text = Blank /\ form'.stage = "away"
    BY <1>1, NoFormTyped DEF NoForm
  <1>4. Idle \in PostingType /\ Idle.stage = "idle"
    BY SubmitAssumption DEF Idle, PostingType, Blank
  <1>5. tasks' \in Seq(TaskType) /\ DOMAIN tasks' = {}
    BY <1>1
  <1>6. SubmitTypeOK'
    BY <1>1, <1>2, <1>3, <1>4, <1>5, DraftPieces
       DEF SubmitTypeOK, FormType, PostingType, TaskType
  <1>7. PostingIsTyped' /\ TypedOnly'
    BY <1>1, <1>3, <1>4, <1>5, DraftPieces DEF PostingIsTyped, TypedOnly, Blank
  <1>8. ASSUME ~excused'
        PROVE  SpentIsDropped' /\ FormIsItsOwn'
    <2>1. store \notin spent
      BY <1>1, <1>8, DraftPieces DEF SpentIsDropped, DropsArePending
    <2> QED
      BY <1>1, <1>3, <1>5, <2>1 DEF SpentIsDropped, FormIsItsOwn
  <1> QED
    BY <1>6, <1>7, <1>8 DEF DraftInv

LEMMA DraftKept == DraftInv /\ [SubmitNext]_submitVars => DraftInv'
  <1> SUFFICES ASSUME DraftInv, [SubmitNext]_submitVars
               PROVE  DraftInv'
    OBVIOUS
  <1>1. CASE SubmitNext
    BY <1>1, OpenKeeps, ReadKeeps, TypeKeeps, StoreKeeps, RunKeeps, ButtonsKeep, ConfirmKeeps,
       CreateKeeps, AnsweredKeeps, ReloadKeeps DEF SubmitNext
  <1>2. CASE UNCHANGED submitVars
    BY <1>2 DEF submitVars, DraftInv, SubmitTypeOK, PostingIsTyped, TypedOnly, SpentIsDropped,
       FormIsItsOwn, DropsArePending
  <1> QED
    BY <1>1, <1>2

\* Once the page knows its publish landed and the store has dropped the draft, no timer and no
\* transaction on its way brings it back: each put of it has the drop behind it, and a form
\* that still stores shows nothing published.
THEOREM DraftIsDropped == SubmitSpec => []DraftStaysGone
  <1>1. DraftInv => DraftStaysGone
    BY DEF DraftInv, DraftStaysGone, SpentIsDropped, DropsArePending
  <1> QED
    BY <1>1, InitDraft, DraftKept, PTL DEF SubmitSpec

\* One staged file makes at most one event: the server takes it in the create's transaction,
\* so whatever else asks for it is refused.
LEMMA OnePublishKept ==
  ASSUME DraftInv, OnePublish, [SubmitNext]_submitVars
  PROVE  OnePublish'
  <1>1. ASSUME NEW d \in Drafts, FileIsStaged(d), created' = [created EXCEPT ![d] = @ + 1]
        PROVE  OnePublish'
    BY <1>1, DraftPieces DEF OnePublish, FileIsStaged
  <1>2. CASE ServerCreates
    <2>1. posting.text \in Drafts
      BY <1>2, DraftPieces DEF ServerCreates, PostingIsTyped, Drafts, Idle
    <2> QED
      BY <1>1, <1>2, <2>1 DEF ServerCreates
  <1>3. ASSUME NEW d \in Drafts, ServerCreatesLate(d)
        PROVE  OnePublish'
    BY <1>1, <1>3 DEF ServerCreatesLate, OnePublish
  <1>4. CASE UNCHANGED created
    BY <1>4 DEF OnePublish
  <1> QED
    BY <1>2, <1>3, <1>4 DEF SubmitNext, submitVars, OpenForm, ReadDraft, TypeDraft, StoreDraft,
       RunTask, ClickShort, Arm, Confirm, Disarm, LinkSites, CreateAnswered, CreateFails,
       LeaveForm, ReloadForm

\* Whatever the page is told of its creates, and however often it sends one again, a staged
\* file becomes one event.
THEOREM PublishedOnce == SubmitSpec => []OnePublish
  <1>1. SubmitInit => OnePublish
    BY DEF SubmitInit, OnePublish
  <1>2. DraftInv /\ OnePublish /\ [SubmitNext]_submitVars => OnePublish'
    BY OnePublishKept
  <1> QED
    BY <1>1, <1>2, InitDraft, DraftKept, PTL DEF SubmitSpec

-----------------------------------------------------------------------------
(***************************************************************************)
(* The uploads of a form's sources.                                        *)
(***************************************************************************)

FileType == [state : {"none", "stored", "running", "staged", "failed"}, way : Ways \cup {"none"},
             token : Nat, pick : Nat, frame : Nat]
SourceType == [key : Nat, level : Levels, file : FileType, given : Nat]
UploadType == [pick : Nat, key : Nat, token : Nat, way : Ways]

SourcesTyped ==
    /\ sources \in Seq(SourceType)
    /\ uploads \subseteq UploadType
    /\ made \in Nat /\ tokens \in Nat /\ picks \in Nat

\* The next pick and the next token are new.
NumbersAreFresh ==
    /\ \A i \in DOMAIN sources :
          /\ sources[i].file.pick <= picks
          /\ Running(sources[i].file) => sources[i].file.token <= tokens
    /\ \A c \in uploads : c.token <= tokens

\* An answer under a source's token is of the file its reader gave it last.
AnswerIsOfItsPick ==
    \A i \in DOMAIN sources, c \in uploads :
        Running(sources[i].file) /\ sources[i].file.token = c.token
            => sources[i].file.pick = c.pick

\* A file on its way is nowhere else yet.
OnItsWayAlone ==
    \A i, j \in DOMAIN sources :
        /\ i # j /\ Running(sources[i].file)
        /\ Running(sources[j].file) \/ Staged(sources[j].file)
        => sources[i].file.pick # sources[j].file.pick

\* The inductive invariant.
SlotsInv ==
    /\ SourcesTyped
    /\ SlotsTellTheTruth
    /\ NumbersAreFresh
    /\ AnswerIsOfItsPick
    /\ OnItsWayAlone
-----------------------------------------------------------------------------
Quiet(f) == ~Running(f) /\ ~Staged(f)

\* What the invariant says of the sources, piece by piece.
LEMMA SlotPieces ==
  ASSUME SlotsInv
  PROVE  /\ sources \in Seq(SourceType) /\ Len(sources) \in Nat /\ Len(sources) <= MaxSources
         /\ DOMAIN sources = 1 .. Len(sources)
         /\ \A i \in DOMAIN sources :
               /\ sources[i] \in SourceType /\ sources[i].file \in FileType
               /\ sources[i].key \in Nat /\ sources[i].level \in Levels
               /\ sources[i].given \in Nat /\ sources[i].file.pick \in Nat
               /\ sources[i].file.pick = sources[i].given
         /\ uploads \subseteq UploadType /\ made \in Nat /\ tokens \in Nat /\ picks \in Nat
         /\ MaxSources \in Nat \ {0}
  <1>1. sources \in Seq(SourceType)
    BY DEF SlotsInv, SourcesTyped
  <1>2. DOMAIN sources = 1 .. Len(sources) /\ Len(sources) \in Nat
        /\ \A i \in DOMAIN sources : sources[i] \in SourceType
    BY <1>1
  <1>3. \A i \in DOMAIN sources :
           /\ sources[i].file \in FileType /\ sources[i].key \in Nat /\ sources[i].level \in Levels
           /\ sources[i].given \in Nat /\ sources[i].file.pick \in Nat
    BY <1>2 DEF SourceType, FileType
  <1> QED
    BY <1>1, <1>2, <1>3, SourcesAssumption DEF SlotsInv, SourcesTyped, SlotsTellTheTruth

\* The list after a step that gives no source a file: each source shows what one before it
\* showed, no two of them the same one, or nothing that is on its way or staged.
LEMMA Rearranged ==
  ASSUME SlotsInv, SourcesTyped', picks' = picks, Len(sources') <= MaxSources,
         NEW g \in [DOMAIN sources' -> Nat],
         \A n \in DOMAIN sources' :
            /\ sources'[n].file.pick = sources'[n].given
            /\ \/ Quiet(sources'[n].file) /\ sources'[n].file.pick <= picks
               \/ g[n] \in DOMAIN sources /\ sources'[n].file = sources[g[n]].file,
         \A n, m \in DOMAIN sources' :
            ~Quiet(sources'[n].file) /\ ~Quiet(sources'[m].file) /\ g[n] = g[m] => n = m,
         \/ tokens' = tokens /\ uploads' \subseteq uploads
         \/ uploads' = {} /\ \A n \in DOMAIN sources' : ~Running(sources'[n].file)
  PROVE  SlotsInv'
  <1>1. SlotsTellTheTruth'
    BY DEF SlotsInv, SlotsTellTheTruth, Quiet
  <1>2. NumbersAreFresh'
    BY DEF SlotsInv, NumbersAreFresh, Quiet
  <1>3. AnswerIsOfItsPick'
    BY DEF SlotsInv, AnswerIsOfItsPick, Quiet
  <1>4. OnItsWayAlone'
    BY DEF SlotsInv, OnItsWayAlone, Quiet
  <1> QED
    BY <1>1, <1>2, <1>3, <1>4 DEF SlotsInv

\* A source without a file is of no pick, and has nothing on its way.
LEMMA SourcesFresh == NoFile \in FileType /\ NoFile.pick = 0 /\ Quiet(NoFile)
  BY DEF NoFile, FileType, Quiet, Running, Staged

\* The source a form opens with has nothing on its way.
LEMMA SeedIsQuiet ==
  /\ Seed \in Seq(SourceType) /\ Len(Seed) = 1 /\ DOMAIN Seed = 1 .. 1
  /\ Seed[1].file \in FileType /\ Quiet(Seed[1].file)
  /\ Seed[1].file.pick = 0 /\ Seed[1].given = 0
  <1> DEFINE stored == [NewSource(1) EXCEPT !.file = [NoFile EXCEPT !.state = "stored"]]
  <1>1. NewSource(1) \in SourceType /\ NewSource(1).file = NoFile /\ NewSource(1).given = 0
    BY SourcesFresh DEF NewSource, SourceType, Levels
  <1>2. /\ stored \in SourceType /\ stored.file = [NoFile EXCEPT !.state = "stored"]
        /\ stored.given = 0
    <2>1. [NoFile EXCEPT !.state = "stored"] \in FileType
      BY DEF NoFile, FileType
    <2> QED
      BY <2>1 DEF NewSource, SourceType, Levels
  <1>3. Quiet(stored.file) /\ stored.file.pick = 0 /\ stored.file \in FileType
    BY <1>2 DEF NoFile, FileType, Quiet, Running, Staged
  <1> HIDE DEF stored
  <1>4. Seed = <<NewSource(1)>> \/ Seed = <<stored>>
    BY DEF Seed, stored
  <1> QED
    <2>1. PICK d \in SourceType :
             /\ Seed = <<d>> /\ d.file \in FileType /\ Quiet(d.file)
             /\ d.file.pick = 0 /\ d.given = 0
      BY <1>1, <1>2, <1>3, <1>4, SourcesFresh
    <2>2. Seed \in Seq(SourceType) /\ Len(Seed) = 1 /\ DOMAIN Seed = 1 .. 1 /\ Seed[1] = d
      BY <2>1
    <2> QED
      BY <2>1, <2>2

LEMMA InitSlots == SourcesInit => SlotsInv
  <1> SUFFICES ASSUME SourcesInit
               PROVE  SlotsInv
    OBVIOUS
  <1>1. sources = Seed /\ uploads = {} /\ made = 1 /\ tokens = 0 /\ picks = 0
    BY DEF SourcesInit
  <1>2. \A i \in DOMAIN sources : i = 1
    BY <1>1, SeedIsQuiet
  <1>3. SourcesTyped
    BY <1>1, SeedIsQuiet DEF SourcesTyped
  <1>4. SlotsTellTheTruth
    BY <1>1, <1>2, SeedIsQuiet, SourcesAssumption DEF SlotsTellTheTruth
  <1>5. NumbersAreFresh /\ AnswerIsOfItsPick /\ OnItsWayAlone
    BY <1>1, <1>2, SeedIsQuiet DEF NumbersAreFresh, AnswerIsOfItsPick, OnItsWayAlone, Quiet
  <1> QED
    BY <1>3, <1>4, <1>5 DEF SlotsInv

-----------------------------------------------------------------------------
LEMMA AddSourceKeeps ==
  ASSUME SlotsInv, AddSource
  PROVE  SlotsInv'
  <1> DEFINE new == NewSource(made')
  <1>1. /\ sources' = Append(sources, new) /\ Len(sources) < MaxSources /\ made' = made + 1
        /\ UNCHANGED <<tokens, uploads, picks>>
    BY DEF AddSource
  <1>2. made' \in Nat /\ new \in SourceType /\ new.file = NoFile /\ new.given = 0
    BY <1>1, SlotPieces, SourcesFresh DEF NewSource, SourceType, Levels
  <1> HIDE DEF new
  <1>3. /\ sources' \in Seq(SourceType) /\ Len(sources') = Len(sources) + 1
        /\ DOMAIN sources' = 1 .. Len(sources) + 1
        /\ \A n \in 1 .. Len(sources) : sources'[n] = sources[n]
        /\ sources'[Len(sources) + 1] = new
    BY <1>1, <1>2, SlotPieces
  <1>4. SourcesTyped'
    BY <1>1, <1>2, <1>3, SlotPieces DEF SourcesTyped
  <1> DEFINE g == [n \in DOMAIN sources' |-> n]
  <1>5. g \in [DOMAIN sources' -> Nat]
    BY <1>3, SlotPieces
  <1>6. \A n \in DOMAIN sources' :
           /\ sources'[n].file.pick = sources'[n].given
           /\ \/ Quiet(sources'[n].file) /\ sources'[n].file.pick <= picks
              \/ g[n] \in DOMAIN sources /\ sources'[n].file = sources[g[n]].file
    <2> TAKE n \in DOMAIN sources'
    <2>1. CASE n = Len(sources) + 1
      BY <1>2, <1>3, <2>1, SlotPieces, SourcesFresh
    <2>2. CASE n \in 1 .. Len(sources)
      BY <1>3, <2>2, SlotPieces
    <2> QED
      BY <1>3, <2>1, <2>2, SlotPieces
  <1>7. \A n, m \in DOMAIN sources' : g[n] = g[m] => n = m
    OBVIOUS
  <1> HIDE DEF g
  <1> QED
    <2>1. Len(sources') <= MaxSources
      BY <1>1, <1>3, SlotPieces
    <2>2. picks' = picks /\ tokens' = tokens /\ uploads' \subseteq uploads
      BY <1>1
    <2> QED
      BY <1>4, <1>5, <1>6, <1>7, <2>1, <2>2, Rearranged

\* A source leaves the list, and those after it move up.
LEMMA RemoveSourceKeeps ==
  ASSUME SlotsInv, NEW i \in DOMAIN sources, RemoveSource(i)
  PROVE  SlotsInv'
  <1> DEFINE g == [n \in 1 .. Len(sources) - 1 |-> IF n < i THEN n ELSE n + 1]
  <1>1. /\ sources' = [n \in 1 .. Len(sources) - 1 |-> sources[IF n < i THEN n ELSE n + 1]]
        /\ Len(sources) > 1
        /\ UNCHANGED <<made, tokens, uploads, picks>>
    BY DEF RemoveSource
  <1>2. /\ DOMAIN sources' = 1 .. Len(sources) - 1
        /\ \A n \in DOMAIN sources' : g[n] \in DOMAIN sources /\ sources'[n] = sources[g[n]]
    BY <1>1, SlotPieces
  <1>3. Len(sources) - 1 \in Nat /\ sources' \in [1 .. Len(sources) - 1 -> SourceType]
    BY <1>1, <1>2, SlotPieces
  <1>4. sources' \in Seq(SourceType) /\ Len(sources') = Len(sources) - 1
    BY <1>2, <1>3, SeqDef
  <1>5. SourcesTyped'
    BY <1>1, <1>4, SlotPieces DEF SourcesTyped
  <1>6. g \in [DOMAIN sources' -> Nat]
    BY <1>2, SlotPieces
  <1>7. \A n, m \in DOMAIN sources' : g[n] = g[m] => n = m
    BY <1>2, SlotPieces
  <1> HIDE DEF g
  <1>8. Len(sources') <= MaxSources
    BY <1>1, <1>4, SlotPieces
  <1>9. \A n \in DOMAIN sources' :
           /\ sources'[n].file.pick = sources'[n].given
           /\ g[n] \in DOMAIN sources /\ sources'[n].file = sources[g[n]].file
    BY <1>2, SlotPieces
  <1> QED
    <2>1. UNCHANGED <<tokens, uploads, picks>>
      BY <1>1
    <2> QED
      BY <2>1, <1>5, <1>6, <1>7, <1>8, <1>9, Rearranged

\* Two sources change places.
LEMMA MoveKeeps ==
  ASSUME SlotsInv, NEW i \in DOMAIN sources, MoveSource(i)
  PROVE  SlotsInv'
  <1> DEFINE g == [n \in DOMAIN sources |-> IF n = i THEN i + 1 ELSE IF n = i + 1 THEN i ELSE n]
  <1>1. /\ sources' = [sources EXCEPT ![i] = sources[i + 1], ![i + 1] = sources[i]]
        /\ i < Len(sources)
        /\ UNCHANGED <<made, tokens, uploads, picks>>
    BY DEF MoveSource
  <1>2. i + 1 \in DOMAIN sources
    BY <1>1, SlotPieces
  <1>3. /\ DOMAIN sources' = DOMAIN sources
        /\ \A n \in DOMAIN sources' : g[n] \in DOMAIN sources /\ sources'[n] = sources[g[n]]
    BY <1>1, <1>2, SlotPieces
  <1>4. sources' \in Seq(SourceType) /\ Len(sources') = Len(sources)
    <2>1. sources' \in [1 .. Len(sources) -> SourceType]
      <3> HIDE DEF g
      <3> QED
        BY <1>1, <1>3, SlotPieces
    <2> QED
      BY <2>1, SlotPieces, SeqDef
  <1>5. SourcesTyped'
    BY <1>1, <1>4, SlotPieces DEF SourcesTyped
  <1>6. g \in [DOMAIN sources' -> Nat]
    BY <1>2, <1>3, SlotPieces
  <1>7. \A n, m \in DOMAIN sources' : g[n] = g[m] => n = m
    BY <1>2, <1>3, SlotPieces
  <1> HIDE DEF g
  <1>8. \A n \in DOMAIN sources' :
           /\ sources'[n].file.pick = sources'[n].given
           /\ \/ Quiet(sources'[n].file) /\ sources'[n].file.pick <= picks
              \/ g[n] \in DOMAIN sources /\ sources'[n].file = sources[g[n]].file
    BY <1>3, SlotPieces
  <1>9. Len(sources') <= MaxSources
    BY <1>4, SlotPieces
  <1> QED
    <2>1. UNCHANGED <<tokens, uploads, picks>>
      BY <1>1
    <2> QED
      BY <2>1, <1>5, <1>6, <1>7, <1>8, <1>9, Rearranged

\* What replacing one source leaves of the list.
LEMMA ReplaceEffect ==
  ASSUME SlotsInv, NEW i \in DOMAIN sources, NEW d \in SourceType,
         sources' = [sources EXCEPT ![i] = d]
  PROVE  /\ DOMAIN sources' = DOMAIN sources /\ sources'[i] = d
         /\ \A n \in DOMAIN sources : n # i => sources'[n] = sources[n]
         /\ sources' \in Seq(SourceType) /\ Len(sources') = Len(sources)
  <1>1. /\ DOMAIN sources' = DOMAIN sources /\ sources'[i] = d
        /\ \A n \in DOMAIN sources : n # i => sources'[n] = sources[n]
    BY SlotPieces
  <1>2. sources' \in [1 .. Len(sources) -> SourceType]
    BY <1>1, SlotPieces
  <1> QED
    BY <1>1, <1>2, SlotPieces, SeqDef

\* One source changes where it stands: another level, or a file that nothing waits for.
LEMMA OneChanges ==
  ASSUME SlotsInv, NEW i \in DOMAIN sources, NEW d \in SourceType,
         DOMAIN sources' = DOMAIN sources, sources'[i] = d,
         \A n \in DOMAIN sources : n # i => sources'[n] = sources[n],
         sources' \in Seq(SourceType), Len(sources') = Len(sources),
         d.file.pick = d.given,
         d.file = sources[i].file \/ (Quiet(d.file) /\ d.file.pick <= picks),
         UNCHANGED <<tokens, picks>>, made' = made, uploads' \subseteq uploads
  PROVE  SlotsInv'
  <1> DEFINE g == [n \in DOMAIN sources |-> n]
  <1>1. SourcesTyped'
    BY SlotPieces DEF SourcesTyped
  <1>2. g \in [DOMAIN sources' -> Nat] /\ \A n, m \in DOMAIN sources' : g[n] = g[m] => n = m
    BY SlotPieces
  <1>3. \A n \in DOMAIN sources' :
           /\ sources'[n].file.pick = sources'[n].given
           /\ \/ Quiet(sources'[n].file) /\ sources'[n].file.pick <= picks
              \/ g[n] \in DOMAIN sources /\ sources'[n].file = sources[g[n]].file
    BY SlotPieces
  <1>4. Len(sources') <= MaxSources
    BY SlotPieces
  <1> HIDE DEF g
  <1> QED
    BY <1>1, <1>2, <1>3, <1>4, Rearranged

LEMMA SetLevelKeeps ==
  ASSUME SlotsInv, NEW i \in DOMAIN sources, NEW l \in Levels, SetLevel(i, l)
  PROVE  SlotsInv'
  <1> DEFINE d == [sources[i] EXCEPT !.level = l]
  <1>1. sources' = [sources EXCEPT ![i] = d] /\ UNCHANGED <<made, tokens, uploads, picks>>
    BY DEF SetLevel
  <1>2. d \in SourceType /\ d.file = sources[i].file /\ d.given = sources[i].given
    BY SlotPieces DEF SourceType
  <1> HIDE DEF d
  <1>3. d.file.pick = d.given
    BY <1>2, SlotPieces
  <1>4. /\ DOMAIN sources' = DOMAIN sources /\ sources'[i] = d
        /\ \A n \in DOMAIN sources : n # i => sources'[n] = sources[n]
        /\ sources' \in Seq(SourceType) /\ Len(sources') = Len(sources)
    BY <1>1, <1>2, ReplaceEffect
  <1>5. UNCHANGED <<made, tokens, uploads, picks>>
    BY <1>1
  <1> QED
    BY <1>2, <1>3, <1>4, <1>5, OneChanges

LEMMA RemoveFileKeeps ==
  ASSUME SlotsInv, NEW i \in DOMAIN sources, RemoveFile(i)
  PROVE  SlotsInv'
  <1> DEFINE d == [sources[i] EXCEPT !.file = NoFile, !.given = 0]
  <1>1. sources' = [sources EXCEPT ![i] = d] /\ UNCHANGED <<made, tokens, uploads, picks>>
    BY DEF RemoveFile
  <1>2. d \in SourceType /\ d.file = NoFile /\ d.given = 0
    BY SlotPieces, SourcesFresh DEF SourceType
  <1> HIDE DEF d
  <1>3. /\ DOMAIN sources' = DOMAIN sources /\ sources'[i] = d
        /\ \A n \in DOMAIN sources : n # i => sources'[n] = sources[n]
        /\ sources' \in Seq(SourceType) /\ Len(sources') = Len(sources)
    BY <1>1, <1>2, ReplaceEffect
  <1>4. UNCHANGED <<made, tokens, uploads, picks>> /\ NoFile.pick <= picks
    BY <1>1, SourcesFresh, SlotPieces
  <1> QED
    BY <1>2, <1>3, <1>4, SourcesFresh, OneChanges

\* A refusal keeps the pick and stages nothing.
LEMMA RefusedIsQuiet ==
  ASSUME NEW f, f.pick \in Nat
  PROVE  Refused(f) \in FileType /\ Quiet(Refused(f)) /\ Refused(f).pick = f.pick
  BY DEF Refused, NoFile, FileType, Quiet, Running, Staged

\* A file that is refused shows its error where it was to land.
LEMMA RefusedKeeps ==
  ASSUME SlotsInv, NEW i \in DOMAIN sources,
         sources' = [sources EXCEPT ![i].file = Refused(@)],
         UNCHANGED <<tokens, picks>>, uploads' \subseteq uploads,
         made' = made + Len(sources') - Len(sources)
  PROVE  SlotsInv'
  <1> DEFINE d == [sources[i] EXCEPT !.file = Refused(sources[i].file)]
  <1>1. sources' = [sources EXCEPT ![i] = d]
    OBVIOUS
  <1>2. /\ d \in SourceType /\ d.file = Refused(sources[i].file) /\ d.given = sources[i].given
    BY SlotPieces, RefusedIsQuiet DEF SourceType
  <1> HIDE DEF d
  <1>3. /\ Quiet(d.file) /\ d.file.pick = d.given /\ d.file.pick <= picks
    BY <1>2, RefusedIsQuiet, SlotPieces DEF SlotsInv, NumbersAreFresh
  <1>4. /\ DOMAIN sources' = DOMAIN sources /\ sources'[i] = d
        /\ \A n \in DOMAIN sources : n # i => sources'[n] = sources[n]
        /\ sources' \in Seq(SourceType) /\ Len(sources') = Len(sources)
    BY <1>1, <1>2, ReplaceEffect
  <1>5. made' = made
    BY <1>4, SlotPieces
  <1> QED
    BY <1>2, <1>3, <1>4, <1>5, OneChanges

\* A file given goes out under a number and a token that nothing else carries.
LEMMA GiveKeeps ==
  ASSUME SlotsInv, NEW i \in DOMAIN sources, NEW way \in Ways, Give(i, way)
  PROVE  SlotsInv'
  <1> DEFINE f == [NoFile EXCEPT !.state = "running", !.way = way, !.token = tokens',
                                 !.pick = picks']
             d == [sources[i] EXCEPT !.file = f, !.given = picks']
             c == [pick |-> picks', key |-> sources[i].key, token |-> tokens', way |-> way]
  <1>1. /\ sources' = [sources EXCEPT ![i] = d]
        /\ picks' = picks + 1 /\ tokens' = tokens + 1 /\ made' = made
        /\ uploads' = uploads \cup {c}
    BY DEF Give
  <1>2. picks' \in Nat /\ tokens' \in Nat
    BY <1>1, SlotPieces
  <1>3. /\ f \in FileType /\ Running(f) /\ ~Staged(f) /\ f.pick = picks' /\ f.token = tokens'
    BY <1>2 DEF NoFile, FileType, Running, Staged
  <1>4. c \in UploadType /\ c.pick = picks' /\ c.token = tokens'
    BY <1>2, SlotPieces DEF UploadType
  <1> HIDE DEF f, c
  <1>5. d \in SourceType /\ d.file = f /\ d.given = picks'
    BY <1>2, <1>3, SlotPieces DEF SourceType
  <1> HIDE DEF d
  <1>6. /\ DOMAIN sources' = DOMAIN sources /\ sources'[i] = d
        /\ \A n \in DOMAIN sources : n # i => sources'[n] = sources[n]
        /\ sources' \in Seq(SourceType) /\ Len(sources') = Len(sources)
    BY <1>1, <1>5, ReplaceEffect
  <1>7. picks' = picks + 1 /\ tokens' = tokens + 1 /\ uploads' = uploads \cup {c}
    BY <1>1
  <1>8. SourcesTyped'
    BY <1>1, <1>2, <1>4, <1>6, SlotPieces DEF SourcesTyped
  <1>9. \A n \in DOMAIN sources : sources[n].file.pick \in Nat /\ sources[n].file.pick <= picks
    BY SlotPieces DEF SlotsInv, NumbersAreFresh
  <1>10. /\ \A u \in uploads : u.token \in Nat /\ u.token <= tokens
         /\ \A n \in DOMAIN sources :
               Running(sources[n].file) =>
                  sources[n].file.token \in Nat /\ sources[n].file.token <= tokens
    BY SlotPieces DEF SlotsInv, NumbersAreFresh, UploadType, FileType
  <1>11. SlotsTellTheTruth'
    <2>1. Len(sources') <= MaxSources
      BY <1>6, SlotPieces
    <2>2. \A n \in DOMAIN sources' : sources'[n].file.pick = sources'[n].given
      BY <1>3, <1>5, <1>6, SlotPieces
    <2> QED
      BY <1>3, <1>5, <1>6, <2>1, <2>2 DEF SlotsInv, SlotsTellTheTruth
  <1>12. picks \in Nat /\ tokens \in Nat
    BY SlotPieces
  <1>13. NumbersAreFresh'
    <2>1. ASSUME NEW n \in DOMAIN sources
          PROVE  /\ sources'[n].file.pick <= picks'
                 /\ Running(sources'[n].file) => sources'[n].file.token <= tokens'
      <3>1. CASE n = i
        BY <1>2, <1>3, <1>5, <1>6, <3>1
      <3>2. CASE n # i
        BY <1>6, <1>7, <1>9, <1>10, <1>12, <3>2
      <3> QED
        BY <3>1, <3>2
    <2>2. \A u \in uploads' : u.token <= tokens'
      BY <1>4, <1>7, <1>10, <1>12
    <2> QED
      BY <1>6, <2>1, <2>2 DEF NumbersAreFresh
  <1>14. AnswerIsOfItsPick'
    <2>1. ASSUME NEW n \in DOMAIN sources, NEW u \in uploads \cup {c},
                 Running(sources'[n].file), sources'[n].file.token = u.token
          PROVE  sources'[n].file.pick = u.pick
      <3>1. CASE n = i /\ u = c
        BY <1>3, <1>4, <1>5, <1>6, <3>1
      <3>2. CASE n = i /\ u \in uploads
        BY <1>3, <1>5, <1>6, <1>7, <1>10, <1>12, <2>1, <3>2
      <3>3. CASE n # i /\ u = c
        BY <1>4, <1>6, <1>7, <1>10, <1>12, <2>1, <3>3
      <3>4. CASE n # i /\ u \in uploads
        BY <1>6, <2>1, <3>4 DEF SlotsInv, AnswerIsOfItsPick
      <3> QED
        BY <2>1, <3>1, <3>2, <3>3, <3>4
    <2> QED
      BY <1>6, <1>7, <2>1 DEF AnswerIsOfItsPick
  <1>15. OnItsWayAlone'
    <2> SUFFICES ASSUME NEW n \in DOMAIN sources', NEW m \in DOMAIN sources', n # m,
                        Running(sources'[n].file),
                        Running(sources'[m].file) \/ Staged(sources'[m].file)
                 PROVE  sources'[n].file.pick # sources'[m].file.pick
      BY DEF OnItsWayAlone
    <2>1. CASE n = i
      BY <1>3, <1>5, <1>6, <1>7, <1>9, <1>12, <2>1
    <2>2. CASE m = i
      BY <1>3, <1>5, <1>6, <1>7, <1>9, <1>12, <2>2
    <2>3. CASE n # i /\ m # i
      BY <1>6, <2>3 DEF SlotsInv, OnItsWayAlone
    <2> QED
      BY <2>1, <2>2, <2>3
  <1> QED
    BY <1>8, <1>11, <1>13, <1>14, <1>15 DEF SlotsInv

-----------------------------------------------------------------------------
\* What a landed answer fills a source with.
LEMMA FillIs ==
  ASSUME NEW c \in UploadType, NEW frame \in Nat
  PROVE  /\ Fill(c, frame) \in FileType /\ Staged(Fill(c, frame)) /\ ~Running(Fill(c, frame))
         /\ Fill(c, frame).pick = c.pick /\ Fill(c, frame).frame = frame
  BY DEF Fill, NoFile, FileType, UploadType, Staged, Running

\* The list with the frames of a GIF in it: the source that picked it and its new neighbours
\* hold one frame each, and the others are those before.
LEMMA PlacedEffect ==
  ASSUME SlotsInv, NEW i \in DOMAIN sources, NEW c \in UploadType, NEW rest \in Nat,
         rest <= MaxSources - Len(sources),
         sources' = Placed(i, c, rest + 1)
  PROVE  /\ sources' \in Seq(SourceType) /\ Len(sources') = Len(sources) + rest
         /\ DOMAIN sources' = 1 .. Len(sources) + rest
         /\ \A n \in i .. i + rest :
               /\ sources'[n].file = Fill(c, n - i + 1)
               /\ sources'[n].given = IF n = i THEN sources[i].given ELSE c.pick
               /\ sources'[n].key = IF n = i THEN sources[i].key ELSE made + (n - i)
         /\ \A n \in DOMAIN sources' :
               n < i => n \in DOMAIN sources /\ sources'[n] = sources[n]
         /\ \A n \in DOMAIN sources' :
               n > i + rest => n - rest \in DOMAIN sources /\ sources'[n] = sources[n - rest]
  <1> DEFINE frame(n) == [key |-> made + (n - i), level |-> sources[i].level,
                          file |-> Fill(c, n - i + 1), given |-> c.pick]
             first == [sources[i] EXCEPT !.file = Fill(c, 1)]
  <1>0. Len(sources) \in Nat /\ i \in 1 .. Len(sources) /\ MaxSources \in Nat /\ made \in Nat
    BY SlotPieces
  <1>1. sources' = [n \in 1 .. Len(sources) + ((rest + 1) - 1) |->
                      CASE n < i -> sources[n]
                        [] n = i -> first
                        [] n > i + ((rest + 1) - 1) -> sources[n - ((rest + 1) - 1)]
                        [] OTHER -> frame(n)]
    <2>1. ~((rest + 1) - 1 > MaxSources - Len(sources))
      BY <1>0
    <2> QED
      BY <2>1, Zenon DEF Placed
  <1>2. /\ first \in SourceType /\ first.file = Fill(c, 1) /\ first.given = sources[i].given
        /\ first.key = sources[i].key
    BY FillIs, SlotPieces DEF SourceType
  <1>3. \A n \in Nat : n > i =>
           /\ frame(n) \in SourceType /\ frame(n).file = Fill(c, n - i + 1)
           /\ frame(n).given = c.pick /\ frame(n).key = made + (n - i)
    <2> TAKE n \in Nat
    <2> HAVE n > i
    <2>1. n - i + 1 \in Nat /\ made + (n - i) \in Nat
      BY <1>0
    <2>2. Fill(c, n - i + 1) \in FileType /\ c.pick \in Nat
      BY <2>1, FillIs DEF UploadType
    <2> QED
      BY <2>1, <2>2, SlotPieces DEF SourceType
  <1> HIDE DEF first, frame
  <1>4. (rest + 1) - 1 = rest /\ DOMAIN sources' = 1 .. Len(sources) + rest
    BY <1>1
  <1>5. \A n \in DOMAIN sources' :
           /\ n < i => sources'[n] = sources[n]
           /\ n = i => sources'[n] = first
           /\ n > i + rest => sources'[n] = sources[n - rest]
           /\ n > i /\ n <= i + rest => sources'[n] = frame(n)
    <2> TAKE n \in DOMAIN sources'
    <2>1. sources'[n] = CASE n < i -> sources[n]
                          [] n = i -> first
                          [] n > i + rest -> sources[n - rest]
                          [] OTHER -> frame(n)
      BY <1>1, <1>4
    <2>2. n \in Int /\ i \in Int
      BY <1>0, <1>4
    <2> QED
      BY <2>1, <2>2
  <1>6. \A n \in DOMAIN sources' :
           /\ n < i => n \in DOMAIN sources
           /\ n > i + rest => n - rest \in DOMAIN sources
    BY <1>0, <1>4, SlotPieces
  <1>7. ASSUME NEW n \in DOMAIN sources'
        PROVE  sources'[n] \in SourceType
    <2>1. n \in Nat /\ i \in Nat /\ (n < i \/ n = i \/ n > i + rest \/ (n > i /\ n <= i + rest))
      BY <1>0, <1>4
    <2>2. CASE n < i \/ n > i + rest
      BY <1>5, <1>6, <2>2, SlotPieces
    <2>3. CASE n = i
      BY <1>2, <1>5, <2>3
    <2>4. CASE n > i /\ n <= i + rest
      <3>1. sources'[n] = frame(n)
        BY <1>5, <2>4
      <3>2. frame(n) \in SourceType
        BY <1>3, <2>1, <2>4
      <3> QED
        BY <3>1, <3>2
    <2> QED
      BY <2>1, <2>2, <2>3, <2>4
  <1>8. Len(sources) + rest \in Nat /\ sources' \in [1 .. Len(sources) + rest -> SourceType]
    BY <1>0, <1>1, <1>4, <1>7
  <1>9. sources' \in Seq(SourceType) /\ Len(sources') = Len(sources) + rest
    BY <1>4, <1>8, SeqDef
  <1>10. ASSUME NEW n \in i .. i + rest
         PROVE  /\ sources'[n].file = Fill(c, n - i + 1)
                /\ sources'[n].given = IF n = i THEN sources[i].given ELSE c.pick
                /\ sources'[n].key = IF n = i THEN sources[i].key ELSE made + (n - i)
    <2>1. n \in DOMAIN sources'
      BY <1>0, <1>4
    <2>2. CASE n = i
      <3>1. n - i + 1 = 1
        BY <1>0, <2>2
      <3> QED
        BY <1>2, <1>5, <2>1, <2>2, <3>1
    <2>3. CASE n > i
      <3>1. n \in Nat /\ n <= i + rest /\ n # i
        BY <1>0, <2>3
      <3>2. sources'[n] = frame(n)
        BY <1>5, <2>1, <2>3, <3>1
      <3>3. /\ frame(n).file = Fill(c, n - i + 1) /\ frame(n).given = c.pick
            /\ frame(n).key = made + (n - i)
        BY <1>3, <2>3, <3>1
      <3> QED
        BY <3>1, <3>2, <3>3
    <2> QED
      BY <1>0, <2>2, <2>3
  <1> QED
    BY <1>4, <1>5, <1>6, <1>9, <1>10

\* The answer of a file in its parts: nobody else holds one of them.
LEMMA PlacedKeeps ==
  ASSUME SlotsInv, NEW c \in uploads, NEW i \in DOMAIN sources, NEW rest \in Nat,
         Awaits(sources[i], c),
         rest <= MaxSources - Len(sources),
         sources' = Placed(i, c, rest + 1),
         UNCHANGED <<tokens, picks>>, uploads' \subseteq uploads,
         made' = made + Len(sources') - Len(sources)
  PROVE  SlotsInv'
  <1>0. /\ Len(sources) \in Nat /\ DOMAIN sources = 1 .. Len(sources) /\ MaxSources \in Nat
        /\ c \in UploadType /\ made \in Nat /\ picks \in Nat
    BY SlotPieces
  <1>1. /\ sources' \in Seq(SourceType) /\ Len(sources') = Len(sources) + rest
        /\ DOMAIN sources' = 1 .. Len(sources) + rest
        /\ \A n \in i .. i + rest :
              /\ sources'[n].file = Fill(c, n - i + 1)
              /\ sources'[n].given = IF n = i THEN sources[i].given ELSE c.pick
        /\ \A n \in DOMAIN sources' :
              n < i => n \in DOMAIN sources /\ sources'[n] = sources[n]
        /\ \A n \in DOMAIN sources' :
              n > i + rest => n - rest \in DOMAIN sources /\ sources'[n] = sources[n - rest]
    BY <1>0, PlacedEffect
  <1>2. /\ Running(sources[i].file) /\ sources[i].file.pick = c.pick
        /\ sources[i].given = c.pick /\ c.pick <= picks
    <2>1. Running(sources[i].file) /\ sources[i].file.token = c.token
      BY DEF Awaits
    <2>2. sources[i].file.pick = c.pick
      BY <2>1 DEF SlotsInv, AnswerIsOfItsPick
    <2> QED
      BY <2>1, <2>2, SlotPieces DEF SlotsInv, NumbersAreFresh
  <1> DEFINE new(n) == n \in i .. i + rest
             old == [n \in DOMAIN sources' |-> IF n < i THEN n ELSE n - rest]
  <1>3. \A n \in DOMAIN sources' : new(n) =>
           /\ Staged(sources'[n].file) /\ ~Running(sources'[n].file)
           /\ sources'[n].file.pick = c.pick /\ sources'[n].given = c.pick
           /\ sources'[n].file.frame = n - i + 1
    <2> SUFFICES ASSUME NEW n \in DOMAIN sources', n \in i .. i + rest
                 PROVE  /\ Staged(sources'[n].file) /\ ~Running(sources'[n].file)
                        /\ sources'[n].file.pick = c.pick /\ sources'[n].given = c.pick
                        /\ sources'[n].file.frame = n - i + 1
      OBVIOUS
    <2>1. sources'[n].file = Fill(c, n - i + 1) /\ sources'[n].given = c.pick
      BY <1>1, <1>2
    <2>2. n - i + 1 \in Nat
      BY <1>0
    <2> QED
      BY <1>0, <2>1, <2>2, FillIs
  <1>4. \A n \in DOMAIN sources' : ~new(n) =>
           /\ old[n] \in DOMAIN sources /\ old[n] # i /\ sources'[n] = sources[old[n]]
    <2> SUFFICES ASSUME NEW n \in DOMAIN sources', n \notin i .. i + rest
                 PROVE  old[n] \in DOMAIN sources /\ old[n] # i /\ sources'[n] = sources[old[n]]
      OBVIOUS
    <2>1. CASE n < i
      BY <1>0, <1>1, <2>1
    <2>2. CASE n > i + rest
      <3>1. n - rest \in DOMAIN sources /\ sources'[n] = sources[n - rest]
        BY <1>0, <1>1, <2>2
      <3>2. old[n] = n - rest /\ n - rest # i
        BY <1>0, <1>1, <2>2
      <3> QED
        BY <3>1, <3>2
    <2> QED
      BY <1>0, <1>1, <2>1, <2>2
  <1>5. \A n, m \in DOMAIN sources' : ~new(n) /\ ~new(m) /\ old[n] = old[m] => n = m
    <2> TAKE n, m \in DOMAIN sources'
    <2>1. n \in Nat /\ m \in Nat /\ i \in Nat
      BY <1>0, <1>1
    <2>2. /\ old[n] = IF n < i THEN n ELSE n - rest
          /\ old[m] = IF m < i THEN m ELSE m - rest
      OBVIOUS
    <2> HIDE DEF old
    <2> QED
      BY <2>1, <2>2
  <1>6. \A n, m \in DOMAIN sources' :
           new(n) /\ new(m) /\ n - i + 1 = m - i + 1 => n = m
    <2> TAKE n, m \in DOMAIN sources'
    <2>1. n \in Int /\ m \in Int /\ i \in Int
      BY <1>0, <1>1
    <2> HIDE DEF old, new
    <2> QED
      BY <2>1
  <1> HIDE DEF old, new
  <1>7. \A n \in DOMAIN sources' : ~new(n) =>
           \/ Quiet(sources'[n].file)
           \/ sources'[n].file.pick # c.pick
    BY <1>2, <1>4 DEF SlotsInv, OnItsWayAlone, Quiet
  <1>8. Len(sources') \in Nat /\ made' \in Nat
    BY <1>0, <1>1
  <1>9. SourcesTyped'
    BY <1>0, <1>1, <1>8, SlotPieces DEF SourcesTyped
  <1>10. SlotsTellTheTruth'
    <2>1. Len(sources') <= MaxSources
      BY <1>0, <1>1
    <2>2. \A n \in DOMAIN sources' : sources'[n].file.pick = sources'[n].given
      <3> TAKE n \in DOMAIN sources'
      <3>1. CASE new(n)
        BY <1>3, <3>1
      <3>2. CASE ~new(n)
        BY <1>4, <3>2, SlotPieces
      <3> QED
        BY <3>1, <3>2
    <2>3. ASSUME NEW n \in DOMAIN sources', NEW m \in DOMAIN sources',
                 Staged(sources'[n].file), Staged(sources'[m].file),
                 sources'[n].file.pick = sources'[m].file.pick,
                 sources'[n].file.frame = sources'[m].file.frame
          PROVE  n = m
      <3>1. CASE new(n) /\ new(m)
        BY <1>3, <1>6, <2>3, <3>1
      <3>2. CASE ~new(n) /\ ~new(m)
        <4>1. old[n] = old[m]
          BY <1>4, <2>3, <3>2 DEF SlotsInv, SlotsTellTheTruth
        <4> QED
          BY <1>5, <3>2, <4>1
      <3>3. CASE new(n) <=> ~new(m)
        BY <1>3, <1>7, <2>3, <3>3 DEF Quiet
      <3> QED
        BY <3>1, <3>2, <3>3
    <2> QED
      BY <2>1, <2>2, <2>3 DEF SlotsTellTheTruth
  <1>11. UNCHANGED <<tokens, picks>> /\ uploads' \subseteq uploads
    OBVIOUS
  <1>12. NumbersAreFresh'
    BY <1>2, <1>3, <1>4, <1>11 DEF SlotsInv, NumbersAreFresh
  <1>13. AnswerIsOfItsPick'
    BY <1>3, <1>4, <1>11 DEF SlotsInv, AnswerIsOfItsPick
  <1>14. OnItsWayAlone'
    <2>1. ASSUME NEW n \in DOMAIN sources', NEW m \in DOMAIN sources', n # m,
                 Running(sources'[n].file),
                 Running(sources'[m].file) \/ Staged(sources'[m].file)
          PROVE  sources'[n].file.pick # sources'[m].file.pick
      <3>1. ~new(n)
        BY <1>3, <2>1
      <3>2. CASE new(m)
        BY <1>3, <1>7, <2>1, <3>1, <3>2 DEF Quiet
      <3>3. CASE ~new(m)
        <4>1. old[n] # old[m]
          BY <1>5, <2>1, <3>1, <3>3
        <4> QED
          BY <1>4, <2>1, <3>1, <3>3, <4>1 DEF SlotsInv, OnItsWayAlone
      <3> QED
        BY <3>2, <3>3
    <2> QED
      BY <2>1 DEF OnItsWayAlone
  <1> QED
    BY <1>9, <1>10, <1>12, <1>13, <1>14 DEF SlotsInv

LEMMA LandUploadKeeps ==
  ASSUME SlotsInv, NEW c \in uploads, LandUpload(c)
  PROVE  SlotsInv'
  <1>1. /\ UNCHANGED <<tokens, picks>> /\ uploads' \subseteq uploads
        /\ made' = made + Len(sources') - Len(sources)
    BY DEF LandUpload
  <1>2. CASE UNCHANGED sources
    <2>1. made' = made
      BY <1>1, <1>2, SlotPieces
    <2> QED
      BY <1>1, <1>2, <2>1 DEF SlotsInv, SourcesTyped, SlotsTellTheTruth, NumbersAreFresh,
         AnswerIsOfItsPick, OnItsWayAlone
  <1>3. ASSUME NEW i \in DOMAIN sources, sources' = [sources EXCEPT ![i].file = Refused(@)]
        PROVE  SlotsInv'
    BY <1>1, <1>3, RefusedKeeps
  <1>4. ASSUME NEW i \in DOMAIN sources, Awaits(sources[i], c),
               NEW frames \in Frames \cup {1}, sources' = Placed(i, c, frames)
        PROVE  SlotsInv'
    <2>1. frames - 1 \in Nat /\ frames = (frames - 1) + 1
      BY SourcesAssumption
    <2>2. PICK rest \in Nat : frames = rest + 1 /\ rest = frames - 1
      BY <2>1
    <2>3. CASE rest > MaxSources - Len(sources)
      BY <1>3, <1>4, <2>2, <2>3 DEF Placed
    <2>4. CASE rest <= MaxSources - Len(sources)
      BY <1>1, <1>4, <2>2, <2>4, PlacedKeeps
    <2> QED
      BY <2>3, <2>4, SlotPieces
  <1> QED
    BY <1>2, <1>3, <1>4 DEF LandUpload

\* A list of which nothing is on its way, under counters that start over.
LEMMA ReloadSourcesKeeps ==
  ASSUME SlotsInv, ReloadSources
  PROVE  SlotsInv'
  <1>1. made' = Len(sources') /\ tokens' = 0 /\ uploads' = {} /\ picks' = picks
    BY DEF ReloadSources
  <1>2. CASE sources' = Seed
    <2>1. /\ sources' \in Seq(SourceType) /\ DOMAIN sources' = 1 .. 1 /\ Len(sources') = 1
          /\ Quiet(sources'[1].file) /\ sources'[1].file.pick = 0 /\ sources'[1].given = 0
      BY <1>2, SeedIsQuiet
    <2>2. \A n \in DOMAIN sources' : n = 1
      BY <2>1
    <2>3. SourcesTyped'
      BY <1>1, <2>1, SlotPieces DEF SourcesTyped
    <2>4. SlotsTellTheTruth'
      BY <2>1, <2>2, SlotPieces DEF SlotsTellTheTruth
    <2>5. NumbersAreFresh' /\ AnswerIsOfItsPick' /\ OnItsWayAlone'
      BY <1>1, <2>1, <2>2, SlotPieces DEF NumbersAreFresh, AnswerIsOfItsPick, OnItsWayAlone, Quiet
    <2> QED
      BY <2>3, <2>4, <2>5 DEF SlotsInv
  <1>3. ASSUME NEW expired \in SUBSET (1 .. picks),
               sources' = [n \in DOMAIN sources |-> Restored(sources[n], n, expired)]
        PROVE  SlotsInv'
    <2>1. ASSUME NEW n \in DOMAIN sources
          PROVE  /\ sources'[n] \in SourceType
                 /\ sources'[n].given = sources[n].given
                 /\ \/ /\ sources'[n].file = Refused(sources[n].file)
                       /\ Quiet(sources'[n].file)
                    \/ sources'[n].file = sources[n].file /\ ~Running(sources[n].file)
                 /\ sources'[n].file.pick = sources[n].file.pick
      <3>1. sources'[n] = Restored(sources[n], n, expired)
        BY <1>3
      <3>2. n \in Nat /\ sources[n] \in SourceType /\ sources[n].file.pick \in Nat
        BY SlotPieces
      <3>3. /\ sources'[n].given = sources[n].given
            /\ sources'[n].file \in {Refused(sources[n].file), sources[n].file}
            /\ Running(sources[n].file) => sources'[n].file = Refused(sources[n].file)
            /\ sources'[n] = [sources[n] EXCEPT !.key = n, !.file = sources'[n].file]
        BY <3>1, <3>2 DEF Restored, SourceType
      <3>4. /\ Refused(sources[n].file) \in FileType /\ Quiet(Refused(sources[n].file))
            /\ Refused(sources[n].file).pick = sources[n].file.pick
        BY <3>2, RefusedIsQuiet
      <3>5. sources'[n].file \in FileType
        BY <3>3, <3>4, SlotPieces
      <3>6. sources'[n] \in SourceType
        BY <3>2, <3>3, <3>5 DEF SourceType
      <3> QED
        BY <3>3, <3>4, <3>6
    <2>2. DOMAIN sources' = DOMAIN sources /\ sources' \in [1 .. Len(sources) -> SourceType]
      BY <1>3, <2>1, SlotPieces
    <2>3. sources' \in Seq(SourceType) /\ Len(sources') = Len(sources)
      BY <2>2, SlotPieces, SeqDef
    <2>4. SourcesTyped'
      BY <1>1, <2>3, SlotPieces DEF SourcesTyped
    <2>5. \A n \in DOMAIN sources' : ~Running(sources'[n].file)
      BY <2>1, <2>2 DEF Quiet
    <2>6. DOMAIN sources' = DOMAIN sources
      BY <2>2
    <2>7. SlotsTellTheTruth'
      BY <2>1, <2>3, <2>6, SlotPieces DEF SlotsInv, SlotsTellTheTruth, Quiet
    <2>8. NumbersAreFresh' /\ AnswerIsOfItsPick' /\ OnItsWayAlone'
      BY <1>1, <2>1, <2>5, <2>6
         DEF SlotsInv, NumbersAreFresh, AnswerIsOfItsPick, OnItsWayAlone
    <2> QED
      BY <2>4, <2>7, <2>8 DEF SlotsInv
  <1> QED
    BY <1>2, <1>3 DEF ReloadSources

LEMMA PostKeeps ==
  ASSUME SlotsInv, Post
  PROVE  SlotsInv'
  <1>1. sources' = <<>> /\ uploads' = {} /\ made' = 0 /\ tokens' = 0 /\ picks' = picks
    BY DEF Post
  <1>2. sources' \in Seq(SourceType) /\ DOMAIN sources' = {} /\ Len(sources') = 0
    BY <1>1
  <1> QED
    BY <1>1, <1>2, SlotPieces DEF SlotsInv, SourcesTyped, SlotsTellTheTruth, NumbersAreFresh,
       AnswerIsOfItsPick, OnItsWayAlone

LEMMA SlotsKept == SlotsInv /\ [SourcesNext]_sourcesVars => SlotsInv'
  <1> SUFFICES ASSUME SlotsInv, [SourcesNext]_sourcesVars
               PROVE  SlotsInv'
    OBVIOUS
  <1>1. CASE UNCHANGED <<sources, made, tokens, uploads, picks>>
    BY <1>1 DEF SlotsInv, SourcesTyped, SlotsTellTheTruth, NumbersAreFresh, AnswerIsOfItsPick,
       OnItsWayAlone
  <1>2. CASE OpenPanel \/ UNCHANGED sourcesVars
    BY <1>1, <1>2 DEF OpenPanel, sourcesVars
  <1>3. CASE PostForm \/ PostFromPanel
    BY <1>3, PostKeeps DEF PostForm, PostFromPanel
  <1> QED
    BY <1>2, <1>3, AddSourceKeeps, RemoveSourceKeeps, MoveKeeps, SetLevelKeeps, RemoveFileKeeps,
       GiveKeeps, LandUploadKeeps, ReloadSourcesKeeps DEF SourcesNext

\* Whatever answers late, a source shows the file its reader gave it last, no two sources hold
\* one staged file, and a GIF never takes the list past its cap: the tokens in flight are of the
\* picks their sources show, and a file on its way is nowhere else.
THEOREM SlotsAreTrue == SourcesSpec => []SlotsTellTheTruth
  <1>1. SlotsInv => SlotsTellTheTruth
    BY DEF SlotsInv
  <1> QED
    BY <1>1, InitSlots, SlotsKept, PTL DEF SourcesSpec

-----------------------------------------------------------------------------
\* The next key is new, and no two sources have one; the panel is the version's.
PanelIsOfVersion == page \in {"submit", "version"} /\ (asking => page = "version")

KeysApart ==
    /\ \A i \in DOMAIN sources : sources[i].key <= made
    /\ \A i, j \in DOMAIN sources : sources[i].key = sources[j].key => i = j
    /\ PanelIsOfVersion
    /\ picks <= MaxPicks

LEMMA PanelStays ==
  ASSUME PanelIsOfVersion, page' = page, asking' \in {asking, FALSE}
  PROVE  PanelIsOfVersion'
  <1>1. asking' = asking \/ asking' = FALSE
    OBVIOUS
  <1>2. CASE asking' = FALSE
    BY <1>2 DEF PanelIsOfVersion
  <1>3. CASE asking' = asking
    BY <1>3, Zenon DEF PanelIsOfVersion
  <1> QED
    BY <1>1, <1>2, <1>3

\* A list whose sources are those before, each once, keeps its keys apart.
LEMMA SameKeys ==
  ASSUME SlotsInv, KeysApart, NEW g \in [DOMAIN sources' -> DOMAIN sources],
         \A n \in DOMAIN sources' : sources'[n].key = sources[g[n]].key,
         \A n, m \in DOMAIN sources' : g[n] = g[m] => n = m,
         made' = made, picks' = picks, PanelIsOfVersion'
  PROVE  KeysApart'
  <1>1. \A n \in DOMAIN sources' : g[n] \in DOMAIN sources
    OBVIOUS
  <1>2. ASSUME NEW n \in DOMAIN sources'
        PROVE  sources'[n].key <= made'
    BY <1>1 DEF KeysApart
  <1>3. ASSUME NEW n \in DOMAIN sources', NEW m \in DOMAIN sources',
               sources'[n].key = sources'[m].key
        PROVE  n = m
    <2>1. /\ g[n] \in DOMAIN sources /\ g[m] \in DOMAIN sources
          /\ sources[g[n]].key = sources[g[m]].key
      BY <1>1, <1>3
    <2>2. g[n] = g[m]
      BY <2>1 DEF KeysApart
    <2> QED
      BY <2>2
  <1>4. picks' <= MaxPicks
    BY DEF KeysApart
  <1> QED
    BY <1>2, <1>3, <1>4 DEF KeysApart

\* A step that gives one source another file or level keeps the key it has.
LEMMA OneKeepsItsKey ==
  ASSUME SlotsInv, KeysApart, NEW i \in DOMAIN sources, NEW d \in SourceType,
         sources' = [sources EXCEPT ![i] = d], d.key = sources[i].key,
         made' = made, PanelIsOfVersion', picks' <= MaxPicks
  PROVE  KeysApart'
  <1>1. /\ DOMAIN sources' = DOMAIN sources
        /\ \A n \in DOMAIN sources : sources'[n].key = sources[n].key
    BY ReplaceEffect
  <1> QED
    BY <1>1 DEF KeysApart

LEMMA ListKeys ==
  ASSUME SlotsInv, KeysApart, NEW i \in DOMAIN sources,
         \/ AddSource \/ RemoveSource(i) \/ MoveSource(i) \/ RemoveFile(i)
         \/ \E l \in Levels : SetLevel(i, l)
         \/ \E way \in Ways : Give(i, way)
  PROVE  KeysApart'
  <1>0. PanelIsOfVersion'
    <2>1. asking' \in {asking, FALSE} /\ page' = page
      BY DEF AddSource, RemoveSource, MoveSource, RemoveFile, SetLevel, Give, PanelMayClose
    <2> QED
      BY <2>1, PanelStays DEF KeysApart
  <1>1. CASE AddSource
    <2>1. /\ sources' = Append(sources, NewSource(made')) /\ made' = made + 1 /\ picks' = picks
      BY <1>1 DEF AddSource
    <2>2. NewSource(made').key = made + 1
      BY <2>1 DEF NewSource
    <2>3. /\ DOMAIN sources' = 1 .. Len(sources) + 1
          /\ \A n \in 1 .. Len(sources) : sources'[n] = sources[n]
          /\ sources'[Len(sources) + 1].key = made + 1
      BY <2>1, <2>2, SlotPieces
    <2>4. \A n \in DOMAIN sources : sources[n].key \in Nat /\ sources[n].key <= made
      BY SlotPieces DEF KeysApart
    <2>5. \A n \in DOMAIN sources' :
             \/ n \in DOMAIN sources /\ sources'[n] = sources[n]
             \/ n = Len(sources) + 1 /\ sources'[n].key = made + 1
      BY <2>3, SlotPieces
    <2> QED
      BY <1>0, <2>1, <2>4, <2>5, SlotPieces DEF KeysApart
  <1>2. CASE RemoveSource(i)
    <2> DEFINE g == [n \in 1 .. Len(sources) - 1 |-> IF n < i THEN n ELSE n + 1]
    <2>1. /\ sources' = [n \in 1 .. Len(sources) - 1 |-> sources[IF n < i THEN n ELSE n + 1]]
          /\ UNCHANGED <<made, picks>>
      BY <1>2 DEF RemoveSource
    <2>2. DOMAIN sources' = 1 .. Len(sources) - 1
      BY <2>1
    <2>3. /\ \A n \in DOMAIN sources' : g[n] \in DOMAIN sources /\ sources'[n] = sources[g[n]]
          /\ \A n, m \in DOMAIN sources' : g[n] = g[m] => n = m
      <3>1. DOMAIN sources = 1 .. Len(sources) /\ Len(sources) \in Nat /\ i \in Nat
        BY SlotPieces
      <3>2. \A n \in DOMAIN sources' :
               /\ g[n] \in DOMAIN sources
               /\ sources'[n] = sources[IF n < i THEN n ELSE n + 1]
        BY <2>1, <2>2, <3>1
      <3> QED
        BY <2>2, <3>1, <3>2
    <2>4. g \in [DOMAIN sources' -> DOMAIN sources]
      BY <2>2, <2>3
    <2> HIDE DEF g
    <2> QED
      BY <1>0, <2>1, <2>3, <2>4, SameKeys
  <1>3. CASE MoveSource(i)
    <2> DEFINE g == [n \in DOMAIN sources |->
                       IF n = i THEN i + 1 ELSE IF n = i + 1 THEN i ELSE n]
    <2>1. /\ sources' = [sources EXCEPT ![i] = sources[i + 1], ![i + 1] = sources[i]]
          /\ i < Len(sources) /\ UNCHANGED <<made, picks>>
      BY <1>3 DEF MoveSource
    <2>2. i + 1 \in DOMAIN sources /\ DOMAIN sources' = DOMAIN sources
      BY <2>1, SlotPieces
    <2>3. /\ \A n \in DOMAIN sources' : g[n] \in DOMAIN sources /\ sources'[n] = sources[g[n]]
          /\ \A n, m \in DOMAIN sources' : g[n] = g[m] => n = m
      BY <2>1, <2>2, SlotPieces
    <2>4. g \in [DOMAIN sources' -> DOMAIN sources]
      BY <2>2, <2>3
    <2> HIDE DEF g
    <2> QED
      BY <1>0, <2>1, <2>3, <2>4, SameKeys
  <1>4. CASE RemoveFile(i)
    <2> DEFINE d == [sources[i] EXCEPT !.file = NoFile, !.given = 0]
    <2>1. sources' = [sources EXCEPT ![i] = d] /\ UNCHANGED <<made, picks>>
      BY <1>4 DEF RemoveFile
    <2>2. d \in SourceType /\ d.key = sources[i].key
      BY SlotPieces, SourcesFresh DEF SourceType
    <2> HIDE DEF d
    <2>3. picks' <= MaxPicks
      BY <2>1 DEF KeysApart
    <2> QED
      BY <1>0, <2>1, <2>2, <2>3, OneKeepsItsKey
  <1>5. ASSUME NEW l \in Levels, SetLevel(i, l)
        PROVE  KeysApart'
    <2> DEFINE d == [sources[i] EXCEPT !.level = l]
    <2>1. sources' = [sources EXCEPT ![i] = d] /\ UNCHANGED <<made, picks>>
      BY <1>5 DEF SetLevel
    <2>2. d \in SourceType /\ d.key = sources[i].key
      BY SlotPieces DEF SourceType
    <2> HIDE DEF d
    <2>3. picks' <= MaxPicks
      BY <2>1 DEF KeysApart
    <2> QED
      BY <1>0, <2>1, <2>2, <2>3, OneKeepsItsKey
  <1>6. ASSUME NEW way \in Ways, Give(i, way)
        PROVE  KeysApart'
    <2> DEFINE f == [NoFile EXCEPT !.state = "running", !.way = way, !.token = tokens',
                                   !.pick = picks']
               d == [sources[i] EXCEPT !.file = f, !.given = picks']
    <2>1. /\ sources' = [sources EXCEPT ![i] = d] /\ made' = made
          /\ picks < MaxPicks /\ picks' = picks + 1 /\ tokens' = tokens + 1
      BY <1>6 DEF Give
    <2>2. picks' \in Nat /\ tokens' \in Nat /\ picks' <= MaxPicks
      BY <2>1, SlotPieces, SourcesAssumption
    <2>3. f \in FileType
      BY <2>2 DEF NoFile, FileType
    <2> HIDE DEF f
    <2>4. d \in SourceType /\ d.key = sources[i].key
      BY <2>2, <2>3, SlotPieces DEF SourceType
    <2> HIDE DEF d
    <2> QED
      BY <1>0, <2>1, <2>2, <2>4, OneKeepsItsKey
  <1> QED
    BY <1>1, <1>2, <1>3, <1>4, <1>5, <1>6

\* The sources the frames of a GIF make have the next keys.
LEMMA PlacedKeys ==
  ASSUME SlotsInv, KeysApart, NEW c \in UploadType, NEW i \in DOMAIN sources, NEW rest \in Nat,
         rest <= MaxSources - Len(sources), sources' = Placed(i, c, rest + 1),
         made' = made + Len(sources') - Len(sources), UNCHANGED <<picks, page, asking>>
  PROVE  KeysApart'
  <1>0. /\ Len(sources) \in Nat /\ made \in Nat /\ i \in 1 .. Len(sources)
        /\ \A n \in DOMAIN sources : sources[n].key \in Nat /\ sources[n].key <= made
    BY SlotPieces DEF KeysApart
  <1>1. /\ Len(sources') = Len(sources) + rest /\ DOMAIN sources' = 1 .. Len(sources) + rest
        /\ \A n \in i .. i + rest :
              sources'[n].key = IF n = i THEN sources[i].key ELSE made + (n - i)
        /\ \A n \in DOMAIN sources' :
              n < i => n \in DOMAIN sources /\ sources'[n] = sources[n]
        /\ \A n \in DOMAIN sources' :
              n > i + rest => n - rest \in DOMAIN sources /\ sources'[n] = sources[n - rest]
    BY PlacedEffect
  <1>2. made' = made + rest
    BY <1>0, <1>1
  <1> DEFINE g == [n \in DOMAIN sources' |-> IF n <= i THEN n ELSE n - rest]
  <1>5. \A n \in DOMAIN sources' : n \in Int /\ n \in 1 .. Len(sources) + rest
    BY <1>0, <1>1
  <1>3. ASSUME NEW n \in DOMAIN sources'
        PROVE  \/ /\ n <= i \/ n > i + rest
                  /\ g[n] \in DOMAIN sources /\ sources'[n].key = sources[g[n]].key
               \/ n \in i + 1 .. i + rest /\ sources'[n].key = made + (n - i)
    <2>1. CASE n < i
      BY <1>0, <1>1, <1>5, <2>1
    <2>2. CASE n = i
      <3>1. i \in i .. i + rest /\ g[n] = i
        BY <1>0, <2>2
      <3>2. sources'[i].key = sources[i].key
        BY <1>1, <3>1
      <3> QED
        BY <1>0, <2>2, <3>1, <3>2
    <2>3. CASE n > i + rest
      <3>1. g[n] = n - rest
        BY <1>0, <1>5, <2>3
      <3> QED
        BY <1>1, <2>3, <3>1
    <2>4. CASE n > i /\ n <= i + rest
      <3>1. n \in i .. i + rest /\ n # i /\ n \in i + 1 .. i + rest
        BY <1>0, <1>5, <2>4
      <3> QED
        BY <1>1, <3>1
    <2> QED
      BY <1>0, <1>5, <2>1, <2>2, <2>3, <2>4
  <1>4. ASSUME NEW n \in DOMAIN sources', NEW m \in DOMAIN sources',
               n <= i \/ n > i + rest, m <= i \/ m > i + rest, g[n] = g[m]
        PROVE  n = m
    BY <1>0, <1>4, <1>5
  <1> HIDE DEF g
  <1>6. \A n \in DOMAIN sources' : sources'[n].key <= made'
    <2> TAKE n \in DOMAIN sources'
    <2>1. CASE g[n] \in DOMAIN sources /\ sources'[n].key = sources[g[n]].key
      BY <1>0, <1>2, <2>1
    <2>2. CASE n \in i + 1 .. i + rest /\ sources'[n].key = made + (n - i)
      BY <1>0, <1>2, <2>2
    <2> QED
      BY <1>3, <2>1, <2>2
  <1>7. ASSUME NEW n \in DOMAIN sources', NEW m \in DOMAIN sources',
               sources'[n].key = sources'[m].key
        PROVE  n = m
    <2> DEFINE Old(x) == g[x] \in DOMAIN sources /\ sources'[x].key = sources[g[x]].key
               New(x) == sources'[x].key = made + (x - i) /\ x > i
    <2>1. \/ (n <= i \/ n > i + rest) /\ Old(n)
          \/ New(n)
      BY <1>0, <1>3, <1>5
    <2>2. \/ (m <= i \/ m > i + rest) /\ Old(m)
          \/ New(m)
      BY <1>0, <1>3, <1>5
    <2>3. CASE (n <= i \/ n > i + rest) /\ Old(n) /\ (m <= i \/ m > i + rest) /\ Old(m)
      <3>1. g[n] = g[m]
        BY <1>7, <2>3 DEF KeysApart
      <3> QED
        BY <1>4, <2>3, <3>1
    <2>4. CASE New(n) /\ New(m)
      <3>1. made + (n - i) = made + (m - i)
        BY <1>7, <2>4
      <3>2. made \in Int /\ i \in Int /\ n \in Int /\ m \in Int
        BY <1>0, <1>5
      <3> QED
        BY <3>1, <3>2
    <2>5. CASE Old(n) /\ New(m)
      <3>1. sources[g[n]].key \in Nat /\ sources[g[n]].key <= made
        BY <1>0, <2>5
      <3>2. made \in Int /\ i \in Int /\ m \in Int /\ made + (m - i) > made
        BY <1>0, <1>5, <2>5
      <3>3. sources[g[n]].key = made + (m - i)
        BY <1>7, <2>5
      <3> QED
        BY <3>1, <3>2, <3>3
    <2>6. CASE New(n) /\ Old(m)
      <3>1. sources[g[m]].key \in Nat /\ sources[g[m]].key <= made
        BY <1>0, <2>6
      <3>2. made \in Int /\ i \in Int /\ n \in Int /\ made + (n - i) > made
        BY <1>0, <1>5, <2>6
      <3>3. sources[g[m]].key = made + (n - i)
        BY <1>7, <2>6
      <3> QED
        BY <3>1, <3>2, <3>3
    <2> QED
      BY <2>1, <2>2, <2>3, <2>4, <2>5, <2>6
  <1>8. PanelIsOfVersion' /\ picks' <= MaxPicks
    BY DEF KeysApart, PanelIsOfVersion
  <1> QED
    BY <1>6, <1>7, <1>8 DEF KeysApart

LEMMA LandKeys ==
  ASSUME SlotsInv, KeysApart, NEW c \in uploads, LandUpload(c)
  PROVE  KeysApart'
  <1>1. /\ UNCHANGED <<picks, page, asking>> /\ c \in UploadType
        /\ made' = made + Len(sources') - Len(sources)
    BY SlotPieces DEF LandUpload
  <1>2. CASE UNCHANGED sources
    BY <1>1, <1>2, SlotPieces DEF KeysApart, PanelIsOfVersion
  <1>3. ASSUME NEW i \in DOMAIN sources, sources' = [sources EXCEPT ![i].file = Refused(@)]
        PROVE  KeysApart'
    <2> DEFINE d == [sources[i] EXCEPT !.file = Refused(sources[i].file)]
    <2>1. sources' = [sources EXCEPT ![i] = d]
      BY <1>3
    <2>2. d \in SourceType /\ d.key = sources[i].key
      BY SlotPieces, RefusedIsQuiet DEF SourceType
    <2> HIDE DEF d
    <2>3. Len(sources') = Len(sources)
      BY <2>1, <2>2, ReplaceEffect
    <2>4. made' = made /\ picks' <= MaxPicks /\ PanelIsOfVersion'
      BY <1>1, <2>3, SlotPieces DEF KeysApart, PanelIsOfVersion
    <2> QED
      BY <2>1, <2>2, <2>4, OneKeepsItsKey
  <1>4. ASSUME NEW i \in DOMAIN sources, NEW frames \in Frames \cup {1},
               sources' = Placed(i, c, frames)
        PROVE  KeysApart'
    <2>1. frames - 1 \in Nat /\ frames = (frames - 1) + 1
      BY SourcesAssumption
    <2>2. PICK rest \in Nat : frames = rest + 1 /\ rest = frames - 1
      BY <2>1
    <2>3. CASE rest > MaxSources - Len(sources)
      BY <1>3, <1>4, <2>2, <2>3 DEF Placed
    <2>4. CASE rest <= MaxSources - Len(sources)
      BY <1>1, <1>4, <2>2, <2>4, PlacedKeys
    <2> QED
      BY <2>3, <2>4, SlotPieces
  <1> QED
    BY <1>2, <1>3, <1>4 DEF LandUpload

LEMMA SeedKeys == DOMAIN Seed = 1 .. 1 /\ Seed[1].key = 1
  <1>1. NewSource(1).key = 1
        /\ [NewSource(1) EXCEPT !.file = [NoFile EXCEPT !.state = "stored"]].key = 1
    BY DEF NewSource
  <1> QED
    BY <1>1 DEF Seed

\* A page that starts over numbers its sources from one.
LEMMA ReloadKeys ==
  ASSUME SlotsInv, KeysApart, ReloadSources
  PROVE  KeysApart'
  <1>1. made' = Len(sources') /\ UNCHANGED <<picks, page>> /\ asking' = FALSE
    BY DEF ReloadSources
  <1>2. CASE sources' = Seed
    <2>1. made' = 1 /\ DOMAIN sources' = 1 .. 1 /\ sources'[1].key = 1
      BY <1>1, <1>2, SeedKeys, SeedIsQuiet
    <2>2. \A n \in DOMAIN sources' : n = 1
      BY <2>1
    <2> QED
      BY <1>1, <2>1, <2>2 DEF KeysApart, PanelIsOfVersion
  <1>3. ASSUME NEW expired \in SUBSET (1 .. picks),
               sources' = [n \in DOMAIN sources |-> Restored(sources[n], n, expired)]
        PROVE  KeysApart'
    <2>1. DOMAIN sources' = DOMAIN sources
      BY <1>3
    <2>2. \A n \in DOMAIN sources : sources'[n].key = n
      BY <1>3, SlotPieces DEF Restored, SourceType
    <2>3. Len(sources') = Len(sources)
      <3>1. ReloadSources => SlotsInv'
        BY ReloadSourcesKeeps
      <3>2. sources' \in Seq(SourceType)
        BY <3>1 DEF SlotsInv, SourcesTyped
      <3> QED
        BY <2>1, <3>2, SlotPieces
    <2> QED
      BY <1>1, <2>1, <2>2, <2>3, SlotPieces DEF KeysApart, PanelIsOfVersion
  <1> QED
    BY <1>2, <1>3 DEF ReloadSources

LEMMA KeysKept == SlotsInv /\ KeysApart /\ [SourcesNext]_sourcesVars => KeysApart'
  <1> SUFFICES ASSUME SlotsInv, KeysApart, [SourcesNext]_sourcesVars
               PROVE  KeysApart'
    OBVIOUS
  <1>1. CASE UNCHANGED sourcesVars
    BY <1>1 DEF KeysApart, PanelIsOfVersion, sourcesVars
  <1>2. CASE OpenPanel
    BY <1>2 DEF KeysApart, PanelIsOfVersion, OpenPanel
  <1>3. CASE PostForm \/ PostFromPanel
    <2>1. sources' = <<>> /\ asking' = FALSE /\ UNCHANGED <<page, picks>>
      BY <1>3 DEF PostForm, PostFromPanel, Post
    <2> QED
      BY <2>1 DEF KeysApart, PanelIsOfVersion
  <1>4. CASE AddSource
    <2>1. CASE sources = <<>>
      <3>1. /\ sources' = Append(<<>>, NewSource(made')) /\ made' = made + 1
            /\ asking' \in {asking, FALSE} /\ UNCHANGED <<page, picks>>
        BY <1>4, <2>1 DEF AddSource, PanelMayClose
      <3>3. PanelIsOfVersion'
        BY <3>1, PanelStays DEF KeysApart
      <3>2. \A n \in DOMAIN sources' : n = 1 /\ sources'[n].key = made'
        BY <3>1 DEF NewSource
      <3> QED
        BY <3>1, <3>2, <3>3, SlotPieces DEF KeysApart
    <2>2. CASE sources # <<>>
      <3>1. 1 \in DOMAIN sources
        BY <2>2, SlotPieces
      <3> QED
        BY <1>4, <3>1, ListKeys
    <2> QED
      BY <2>1, <2>2
  <1> QED
    BY <1>1, <1>2, <1>3, <1>4, ListKeys, LandKeys, ReloadKeys DEF SourcesNext

\* Every source has a key of its own, which is what an answer finds it again by, and the panel of
\* the version's note is open on a published event's form only; with the shape of the rest.
THEOREM SourcesTypes == SourcesSpec => []SourcesTypeOK
  <1>1. SourcesInit => KeysApart
    <2> SUFFICES ASSUME SourcesInit PROVE KeysApart
      OBVIOUS
    <2>1. \A n \in DOMAIN sources : n = 1 /\ sources[n].key = 1
      BY SeedKeys DEF SourcesInit
    <2> QED
      BY <2>1, SourcesAssumption DEF SourcesInit, KeysApart, PanelIsOfVersion
  <1>2. SlotsInv /\ KeysApart => SourcesTypeOK
    <2> SUFFICES ASSUME SlotsInv, KeysApart PROVE SourcesTypeOK
      OBVIOUS
    <2>1. \A i \in DOMAIN sources :
             sources[i].file.state \in {"none", "stored", "running", "staged", "failed"}
      BY SlotPieces DEF FileType
    <2>2. picks \in 0 .. MaxPicks
      BY SlotPieces, SourcesAssumption DEF KeysApart
    <2> QED
      BY <2>1, <2>2, SlotPieces DEF SourcesTypeOK, KeysApart, PanelIsOfVersion
  <1> QED
    BY <1>1, <1>2, InitSlots, SlotsKept, KeysKept, PTL DEF SourcesSpec

-----------------------------------------------------------------------------
(***************************************************************************)
(* The edit page of a collection: a save of its form is a three-way merge. *)
(***************************************************************************)

\* The two records the page holds have their fields, whatever these hold.
EditShape ==
    /\ editor = [stage |-> editor.stage, upTo |-> editor.upTo]
    /\ saving = [on |-> saving.on, details |-> saving.details,
                 add |-> saving.add, remove |-> saving.remove]
    /\ saving.on \in BOOLEAN /\ saving.details \in BOOLEAN

\* A save runs on the form, sends no more than the difference it was clicked with, and only
\* what it has not sent yet; that difference is among the rows the form has changed.
SaveSendsTheDifference ==
    /\ ~saving.on => ~saving.details
    /\ saving.on => editor.stage = "form"
    /\ saving.on => /\ saving.add \subseteq wanted \ opened
                    /\ saving.remove \subseteq opened \ wanted
                    /\ wanted \ opened \subseteq changed
                    /\ opened \ wanted \subseteq changed

\* A row the walk of the save has passed is on the server as the form said, unless another tab
\* wrote it too.
WhatIsSentStands ==
    saving.on => \A e \in Events :
        e \notin late => /\ e \in (wanted \ opened) \ saving.add => e \in members
                         /\ e \in (opened \ wanted) \ saving.remove => e \notin members

EditInv == EditShape /\ SaveIsItsDifference /\ SaveSendsTheDifference /\ WhatIsSentStands

-----------------------------------------------------------------------------
LEMMA InitEdit == EditInit => EditInv
  BY DEF EditInit, NotSaving, EditInv, EditShape, SaveIsItsDifference, SaveSendsTheDifference,
         WhatIsSentStands

\* Reading the set and picking rows happen in front of a save, or behind its back: the save
\* keeps the rows of its click, and the opening set does not move once the form is up.
LEMMA FormKeeps ==
  ASSUME EditInv,
         ReadBlock \/ ReadFails \/ \E e \in Events : Pick(e) \/ Drop(e) \/ EventLeaves(e)
  PROVE  EditInv'
  <1>1. UNCHANGED <<members, saving, wanted, changed, theirs, late>>
    BY DEF ReadBlock, ReadFails, Pick, Drop, EventLeaves
  <1>2. /\ editor' = [stage |-> editor'.stage, upTo |-> editor'.upTo]
        /\ editor.stage = "form" => editor' = editor
        /\ editor'.stage # "saved" \/ editor' = editor
    BY DEF EditInv, EditShape, ReadBlock, ReadFails, Pick, Drop, EventLeaves
  <1>3. editor.stage # "reading" => opened' = opened
    BY DEF ReadBlock, ReadFails, Pick, Drop, EventLeaves
  <1>4. saving.on => opened' = opened /\ editor' = editor
    BY <1>2, <1>3 DEF EditInv, SaveSendsTheDifference
  <1>5. editor'.stage = "saved" => opened' = opened /\ editor' = editor
    BY <1>2, <1>3
  <1>6. EditShape'
    BY <1>1, <1>2 DEF EditInv, EditShape
  <1>7. SaveIsItsDifference'
    BY <1>1, <1>5 DEF EditInv, SaveIsItsDifference
  <1>8. SaveSendsTheDifference' /\ WhatIsSentStands'
    BY <1>1, <1>4 DEF EditInv, SaveSendsTheDifference, WhatIsSentStands
  <1> QED
    BY <1>6, <1>7, <1>8 DEF EditInv

\* A click takes the difference from the opening set, and has sent nothing yet.
LEMMA SaveKeeps ==
  ASSUME EditInv, Save
  PROVE  EditInv'
  <1>1. /\ saving' = [on |-> TRUE, details |-> FALSE,
                      add |-> picked \ opened, remove |-> opened \ picked]
        /\ wanted' = picked /\ editor.stage = "form"
        /\ changed' = changed \cup (picked \ opened) \cup (opened \ picked)
        /\ UNCHANGED <<members, editor, opened, theirs, late>>
    BY DEF Save, Difference
  <1>2. EditShape' /\ SaveSendsTheDifference'
    BY <1>1 DEF EditInv, EditShape, SaveSendsTheDifference
  <1>3. SaveIsItsDifference'
    BY <1>1 DEF EditInv, SaveIsItsDifference
  <1>4. WhatIsSentStands'
    BY <1>1 DEF WhatIsSentStands
  <1> QED
    BY <1>2, <1>3, <1>4 DEF EditInv

LEMMA SaveDetailsKeeps ==
  ASSUME EditInv, SaveDetails
  PROVE  EditInv'
  <1>1. /\ saving.on
        /\ saving' = [on |-> saving.on, details |-> TRUE,
                      add |-> saving.add, remove |-> saving.remove]
        /\ UNCHANGED <<members, editor, opened, wanted, changed, theirs, late>>
    BY DEF SaveDetails, EditInv, EditShape
  <1> QED
    BY <1>1 DEF EditInv, EditShape, SaveIsItsDifference, SaveSendsTheDifference,
                WhatIsSentStands

\* A row that is added is a row of the difference, so no row that was to go.
LEMMA AddKeeps ==
  ASSUME EditInv, NEW e \in Events, AddOne(e)
  PROVE  EditInv'
  <1>1. /\ saving.on /\ e \in saving.add
        /\ saving' = [on |-> saving.on, details |-> saving.details,
                      add |-> saving.add \ {e}, remove |-> saving.remove]
        /\ members' = members \cup {e}
        /\ UNCHANGED <<editor, opened, wanted, changed, theirs, late>>
    BY DEF AddOne, EditInv, EditShape, SaveSendsTheDifference
  <1>2. e \in wanted \ opened /\ e \in changed /\ editor.stage = "form"
    BY <1>1 DEF EditInv, SaveSendsTheDifference
  <1>3. EditShape' /\ SaveSendsTheDifference'
    BY <1>1 DEF EditInv, EditShape, SaveSendsTheDifference
  <1>4. SaveIsItsDifference'
    BY <1>1, <1>2 DEF EditInv, SaveIsItsDifference
  <1>5. WhatIsSentStands'
    BY <1>1, <1>2 DEF EditInv, WhatIsSentStands
  <1> QED
    BY <1>3, <1>4, <1>5 DEF EditInv

LEMMA RemoveKeeps ==
  ASSUME EditInv, NEW e \in Events, RemoveOne(e)
  PROVE  EditInv'
  <1>1. /\ saving.on /\ e \in saving.remove
        /\ saving' = [on |-> saving.on, details |-> saving.details,
                      add |-> saving.add, remove |-> saving.remove \ {e}]
        /\ members' = members \ {e}
        /\ UNCHANGED <<editor, opened, wanted, changed, theirs, late>>
    BY DEF RemoveOne, EditInv, EditShape, SaveSendsTheDifference
  <1>2. e \in opened \ wanted /\ e \in changed /\ editor.stage = "form"
    BY <1>1 DEF EditInv, SaveSendsTheDifference
  <1>3. EditShape' /\ SaveSendsTheDifference'
    BY <1>1 DEF EditInv, EditShape, SaveSendsTheDifference
  <1>4. SaveIsItsDifference'
    BY <1>1, <1>2 DEF EditInv, SaveIsItsDifference
  <1>5. WhatIsSentStands'
    BY <1>1, <1>2 DEF EditInv, WhatIsSentStands
  <1> QED
    BY <1>3, <1>4, <1>5 DEF EditInv

\* A save that breaks off has written at most rows of its difference.
LEMMA FailKeeps ==
  ASSUME EditInv, SaveFails
  PROVE  EditInv'
  <1>1. /\ saving.on /\ saving' = NotSaving
        /\ UNCHANGED <<editor, opened, wanted, changed, theirs, late>>
    BY DEF SaveFails
  <1>2. \A e \in Events : e \notin changed => (e \in members' <=> e \in members)
    BY <1>1 DEF SaveFails, EditInv, SaveSendsTheDifference
  <1>3. editor'.stage = "form"
    BY <1>1 DEF EditInv, SaveSendsTheDifference
  <1>4. EditShape' /\ SaveSendsTheDifference' /\ WhatIsSentStands'
    BY <1>1 DEF EditInv, EditShape, SaveSendsTheDifference, WhatIsSentStands, NotSaving
  <1>5. SaveIsItsDifference'
    BY <1>1, <1>2, <1>3 DEF EditInv, SaveIsItsDifference
  <1> QED
    BY <1>4, <1>5 DEF EditInv

\* Nothing is left to send: what was sent is the whole difference.
LEMMA DoneKeeps ==
  ASSUME EditInv, SaveDone
  PROVE  EditInv'
  <1>1. /\ saving.on /\ saving.add = {} /\ saving.remove = {} /\ saving' = NotSaving
        /\ editor' = [stage |-> "saved", upTo |-> editor.upTo]
        /\ UNCHANGED <<members, opened, wanted, changed, theirs, late>>
    BY DEF SaveDone, EditInv, EditShape, SaveSendsTheDifference
  <1>2. \A e \in Events :
          (e \in wanted <=> e \notin opened) /\ e \notin late =>
              (e \in members <=> e \in wanted)
    BY <1>1 DEF EditInv, WhatIsSentStands
  <1>3. EditShape' /\ SaveSendsTheDifference' /\ WhatIsSentStands'
    BY <1>1 DEF EditInv, EditShape, SaveSendsTheDifference, WhatIsSentStands, NotSaving
  <1>4. SaveIsItsDifference'
    BY <1>1, <1>2 DEF EditInv, SaveIsItsDifference
  <1> QED
    BY <1>3, <1>4 DEF EditInv

\* What another tab writes is in what there would be without this page, and is told apart.
LEMMA OtherKeeps ==
  ASSUME EditInv, NEW e \in Events, OtherTab(e)
  PROVE  EditInv'
  <1>1. /\ editor.stage # "saved" /\ late' = late \cup {e}
        /\ UNCHANGED <<editor, opened, saving, wanted, changed>>
    BY DEF OtherTab
  <1>2. \/ members' = members \cup {e} /\ theirs' = theirs \cup {e}
        \/ members' = members \ {e} /\ theirs' = theirs \ {e}
    BY DEF OtherTab
  <1>3. EditShape' /\ SaveSendsTheDifference'
    BY <1>1 DEF EditInv, EditShape, SaveSendsTheDifference
  <1>4. SaveIsItsDifference'
    BY <1>1, <1>2 DEF EditInv, SaveIsItsDifference
  <1>5. WhatIsSentStands'
    BY <1>1, <1>2 DEF EditInv, WhatIsSentStands
  <1> QED
    BY <1>3, <1>4, <1>5 DEF EditInv

-----------------------------------------------------------------------------
\* The edit page keeps its invariant, in whatever order the pages, the saves and the other
\* tabs' writes arrive.
THEOREM EditCorrect == EditSpec => []EditInv
  <1>1. EditInit => EditInv
    BY InitEdit
  <1>2. EditInv /\ [EditNext]_editVars => EditInv'
    <2> SUFFICES ASSUME EditInv, [EditNext]_editVars PROVE EditInv'
      OBVIOUS
    <2>1. CASE ReadBlock \/ ReadFails \/ \E e \in Events : Pick(e) \/ Drop(e) \/ EventLeaves(e)
      BY <2>1, FormKeeps
    <2>2. CASE Save
      BY <2>2, SaveKeeps
    <2>3. CASE SaveDetails
      BY <2>3, SaveDetailsKeeps
    <2>4. CASE \E e \in Events : AddOne(e)
      BY <2>4, AddKeeps
    <2>5. CASE \E e \in Events : RemoveOne(e)
      BY <2>5, RemoveKeeps
    <2>6. CASE SaveFails
      BY <2>6, FailKeeps
    <2>7. CASE SaveDone
      BY <2>7, DoneKeeps
    <2>8. CASE \E e \in Events : OtherTab(e)
      BY <2>8, OtherKeeps
    <2>9. CASE UNCHANGED editVars
      BY <2>9 DEF editVars, EditInv, EditShape, SaveIsItsDifference, SaveSendsTheDifference,
                  WhatIsSentStands
    <2> QED
      BY <2>1, <2>2, <2>3, <2>4, <2>5, <2>6, <2>7, <2>8, <2>9 DEF EditNext
  <1> QED
    BY <1>1, <1>2, PTL DEF EditSpec

\* A save merges its difference into what is there, never the form over what others wrote.
THEOREM SavesMerge == EditSpec => []SaveIsItsDifference
  <1>1. EditInv => SaveIsItsDifference
    BY DEF EditInv
  <1> QED
    BY <1>1, EditCorrect, PTL

-----------------------------------------------------------------------------
\* Were there always one above, the numbers of rows above would be too few to be apart.
LEMMA Greatest ==
  ASSUME NEW S \in SUBSET Nat, IsFiniteSet(S), S # {}
  PROVE  \E m \in S : \A t \in S : t <= m
  <1> SUFFICES ASSUME \A r \in S : \E t \in S : t > r
               PROVE  FALSE
    OBVIOUS
  <1> DEFINE n == Cardinality(S)
             above(r) == {t \in S : t > r}
             rank == [r \in S |-> Cardinality(above(r))]
  <1>0. \A t \in S : t \in Nat
    OBVIOUS
  <1>1. n \in Nat /\ n > 0
    BY FS_CardinalityType, FS_EmptySet
  <1>2. ASSUME NEW r \in S
        PROVE  /\ IsFiniteSet(above(r)) /\ above(r) \in SUBSET S /\ above(r) # {} /\ above(r) # S
               /\ Cardinality(above(r)) \in 1 .. n - 1
    <2>1. above(r) \in SUBSET S /\ above(r) # {}
      OBVIOUS
    <2>2. r \notin above(r)
      OBVIOUS
    <2>3. above(r) # S
      BY <2>2
    <2>4. IsFiniteSet(above(r))
      BY <2>1, FS_Subset
    <2> HIDE DEF above
    <2>5. Cardinality(above(r)) \in Nat /\ Cardinality(above(r)) # 0
      BY <2>1, <2>4, FS_CardinalityType, FS_EmptySet
    <2>6. Cardinality(above(r)) <= n /\ Cardinality(above(r)) # n
      BY <2>1, <2>3, FS_Subset
    <2> QED
      BY <1>1, <2>1, <2>3, <2>4, <2>5, <2>6
  <1>3. ASSUME NEW r \in S, NEW s \in S, r < s
        PROVE  Cardinality(above(r)) # Cardinality(above(s))
    <2>1. above(s) \in SUBSET above(r) /\ s \in above(r) /\ s \notin above(s)
      <3>1. \A t \in S : t > s => t > r
        BY <1>0, <1>3
      <3>2. s > r /\ ~(s > s)
        BY <1>0, <1>3
      <3> QED
        BY <3>1, <3>2
    <2>2. above(r) # above(s)
      BY <2>1
    <2> HIDE DEF above
    <2> QED
      BY <1>2, <2>1, <2>2, FS_Subset
  <1>4. rank \in [S -> 1 .. n - 1]
    BY <1>2
  <1>5. \A r, s \in S : rank[r] = rank[s] => r = s
    <2> TAKE r, s \in S
    <2> HAVE rank[r] = rank[s]
    <2> HIDE DEF above
    <2>1. ~(r < s) /\ ~(s < r)
      BY <1>3
    <2> QED
      BY <2>1
  <1>6. rank \in Injection(S, 1 .. n - 1)
    BY <1>4, <1>5, Fun_IsInj
  <1>7. IsFiniteSet(1 .. n - 1) /\ Cardinality(1 .. n - 1) = n - 1
    <2> HIDE DEF n
    <2>1. /\ IsFiniteSet(1 .. n - 1)
          /\ Cardinality(1 .. n - 1) = IF 1 > n - 1 THEN 0 ELSE (n - 1) - 1 + 1
      BY <1>1, FS_Interval
    <2> QED
      BY <1>1, <2>1
  <1>8. n <= n - 1
    BY <1>6, <1>7, FS_Injection
  <1> QED
    BY <1>1, <1>8

\* Counted down from one of its numbers, a set of naturals has a greatest: its least.
LEMMA Least ==
  ASSUME NEW S \in SUBSET Nat, S # {}
  PROVE  \E m \in S : \A t \in S : m <= t
  <1>1. PICK e \in S : TRUE
    OBVIOUS
  <1> DEFINE U == {u \in 0 .. e : e - u \in S}
  <1>2. U \in SUBSET Nat /\ IsFiniteSet(U) /\ 0 \in U
    <2>1. IsFiniteSet(0 .. e) /\ U \in SUBSET (0 .. e)
      BY FS_Interval
    <2> QED
      BY <2>1, FS_Subset
  <1>3. PICK m \in U : \A t \in U : t <= m
    <2> HIDE DEF U
    <2> QED
      BY <1>2, Greatest
  <1>4. e - m \in S /\ m \in Nat /\ m <= e
    OBVIOUS
  <1>5. ASSUME NEW t \in S
        PROVE  e - m <= t
    <2>1. CASE t <= e
      <3>1. e - t \in 0 .. e /\ e - (e - t) = t
        BY <2>1
      <3>2. e - t \in U
        BY <3>1
      <3> QED
        BY <1>3, <1>4, <3>2
    <2> QED
      BY <1>4, <2>1
  <1> QED
    BY <1>4, <1>5

\* A block that leaves rows behind has a last row: the cursor of the next read.
LEMMA BlockHasALast ==
  ASSUME NEW S \in SUBSET Nat, NEW n \in Nat \ {0}, First(n, S) # S
  PROVE  \E e \in First(n, S) : \A f \in First(n, S) : f <= e
  <1> DEFINE below(e) == {f \in S : f < e}
             block == First(n, S)
  <1>0. \A t \in S : t \in Nat
    OBVIOUS
  <1>1. block \in SUBSET S /\ \A e \in S : e \in block <=> Cardinality(below(e)) < n
    BY DEF First
  <1>2. ASSUME NEW e \in S
        PROVE  IsFiniteSet(below(e)) /\ Cardinality(below(e)) \in Nat
    <2>1. below(e) \in SUBSET (0 .. e)
      <3>1. \A t \in S : t < e => t \in 0 .. e
        BY <1>0
      <3> QED
        BY <3>1
    <2>2. IsFiniteSet(0 .. e)
      BY <1>0, FS_Interval
    <2> HIDE DEF below
    <2> QED
      BY <2>1, <2>2, FS_Subset, FS_CardinalityType
  <1>3. PICK x \in S : x \notin block
    BY <1>1
  <1>4. ASSUME NEW e \in block
        PROVE  e <= x
    <2>1. e \in S /\ e \in Nat /\ x \in Nat
      BY <1>0, <1>1
    <2>2. CASE x < e
      <3>1. \A t \in S : t < x => t < e
        BY <1>0, <2>1, <2>2
      <3>2. below(x) \in SUBSET below(e)
        BY <3>1
      <3> HIDE DEF below, block
      <3>3. Cardinality(below(x)) <= Cardinality(below(e))
        BY <1>2, <2>1, <3>2, FS_Subset
      <3>4. /\ Cardinality(below(e)) < n /\ ~(Cardinality(below(x)) < n)
            /\ Cardinality(below(e)) \in Nat /\ Cardinality(below(x)) \in Nat
        BY <1>1, <1>2, <1>3, <2>1
      <3> QED
        BY <3>3, <3>4
    <2> QED
      BY <2>1, <2>2
  <1>5. block # {}
    <2>1. PICK e \in S : \A t \in S : e <= t
      BY <1>3, Least
    <2>2. below(e) = {}
      <3>1. \A t \in S : ~(t < e)
        BY <1>0, <2>1
      <3> QED
        BY <3>1
    <2>3. Cardinality(below(e)) = 0
      BY <2>2, FS_EmptySet
    <2> HIDE DEF below, block
    <2> QED
      BY <1>1, <2>1, <2>3
  <1>6. IsFiniteSet(block) /\ block \in SUBSET Nat
    <2> HIDE DEF block
    <2>1. \A e \in block : e \in 0 .. x
      BY <1>0, <1>1, <1>4
    <2>2. IsFiniteSet(0 .. x)
      BY <1>0, FS_Interval
    <2>3. block \in SUBSET (0 .. x)
      BY <2>1
    <2> QED
      BY <1>1, <2>2, <2>3, FS_Subset
  <1> HIDE DEF block
  <1>7. \E e \in block : \A f \in block : f <= e
    BY <1>5, <1>6, Greatest
  <1> QED
    BY <1>7 DEF block

\* What the edit page holds, and what a save still has to send, is of its declared type: a read
\* that goes on has a row to go on from.
LEMMA EditTypesKept ==
  ASSUME EditTypeOK, [EditNext]_editVars
  PROVE  EditTypeOK'
  <1> DEFINE EditorType == [stage : {"reading", "form", "error", "saved"}, upTo : Events \cup {0}]
             SavingType == [on : BOOLEAN, details : BOOLEAN, add : SUBSET Events,
                            remove : SUBSET Events]
  <1>1. /\ {members, gone, opened, picked, wanted, changed, theirs, late} \subseteq SUBSET Events
        /\ editor \in EditorType /\ saving \in SavingType
        /\ saves \in 0 .. MaxSaves /\ others \in 0 .. MaxOthers
    BY DEF EditTypeOK
  <1>2. editor' \in EditorType /\ opened' \subseteq Events /\ picked' \subseteq Events
    <2>1. CASE ReadBlock
      <3> DEFINE left == {e \in members \ gone : e > editor.upTo}
                 block == First(BlockSize, left)
                 read == opened \cup block
                 last == CHOOSE e \in block : \A f \in block : f <= e
      <3>1. /\ left \in SUBSET Nat /\ block \subseteq Events /\ read \subseteq Events
            /\ First(ReaderMax, read) \subseteq Events
        BY <1>1, EditAssumption DEF First
      <3>2. \/ /\ opened' = First(ReaderMax, read) /\ picked' = opened'
               /\ editor' = [editor EXCEPT !.stage = "form"]
            \/ /\ block # left /\ opened' = read /\ picked' = picked
               /\ editor' = [editor EXCEPT !.upTo = last]
        BY <2>1 DEF ReadBlock
      <3>3. block # left => last \in block
        <4>1. block # left => \E e \in block : \A f \in block : f <= e
          BY <3>1, BlockHasALast, EditAssumption
        <4> HIDE DEF left, block
        <4> QED
          BY <4>1
      <3> HIDE DEF left, block, read, last
      <3> QED
        BY <1>1, <3>1, <3>2, <3>3
    <2>2. CASE ReadFails
      BY <1>1, <2>2 DEF ReadFails
    <2>3. CASE SaveDone
      BY <1>1, <2>3 DEF SaveDone
    <2>4. ASSUME NEW e \in Events, Pick(e) \/ Drop(e)
          PROVE  editor' \in EditorType /\ opened' \subseteq Events /\ picked' \subseteq Events
      BY <1>1, <2>4 DEF Pick, Drop
    <2>5. CASE UNCHANGED <<editor, opened, picked>>
      BY <1>1, <2>5
    <2> HIDE DEF EditorType
    <2> QED
      BY <2>1, <2>2, <2>3, <2>4, <2>5
         DEF EditNext, editVars, Save, SaveDetails, SaveFails, AddOne, RemoveOne, OtherTab,
             EventLeaves
  <1>3. saving' \in SavingType
    <2>1. CASE Save
      BY <1>1, <2>1 DEF Save, Difference
    <2>2. CASE SaveDetails
      BY <1>1, <2>2 DEF SaveDetails
    <2>3. ASSUME NEW e \in Events, AddOne(e) \/ RemoveOne(e)
          PROVE  saving' \in SavingType
      BY <1>1, <2>3 DEF AddOne, RemoveOne
    <2>4. CASE SaveFails \/ SaveDone
      <3>1. saving' = NotSaving
        BY <2>4 DEF SaveFails, SaveDone
      <3>2. NotSaving \in SavingType
        BY DEF NotSaving
      <3> QED
        BY <3>1, <3>2
    <2>5. CASE saving' = saving
      BY <1>1, <2>5
    <2> HIDE DEF SavingType
    <2> QED
      BY <2>1, <2>2, <2>3, <2>4, <2>5
         DEF EditNext, editVars, ReadBlock, ReadFails, Pick, Drop, OtherTab, EventLeaves
  <1>4. members' \subseteq Events /\ theirs' \subseteq Events /\ gone' \subseteq Events
        /\ late' \subseteq Events
    <2>1. ASSUME NEW e \in Events, AddOne(e) \/ RemoveOne(e) \/ OtherTab(e) \/ EventLeaves(e)
          PROVE  /\ members' \subseteq Events /\ theirs' \subseteq Events
                 /\ gone' \subseteq Events /\ late' \subseteq Events
      BY <1>1, <2>1 DEF AddOne, RemoveOne, OtherTab, EventLeaves
    <2>2. CASE SaveFails
      BY <1>1, <2>2 DEF SaveFails
    <2>3. CASE UNCHANGED <<members, theirs, gone, late>>
      BY <1>1, <2>3
    <2> QED
      BY <2>1, <2>2, <2>3
         DEF EditNext, editVars, ReadBlock, ReadFails, Pick, Drop, Save, SaveDetails, SaveDone
  <1>5. wanted' \subseteq Events /\ changed' \subseteq Events
    <2>1. CASE Save
      BY <1>1, <2>1 DEF Save
    <2>2. CASE UNCHANGED <<wanted, changed>>
      BY <1>1, <2>2
    <2> QED
      BY <2>1, <2>2
         DEF EditNext, editVars, ReadBlock, ReadFails, Pick, Drop, SaveDetails, SaveFails, SaveDone,
             AddOne, RemoveOne, OtherTab, EventLeaves
  <1>6. saves' \in 0 .. MaxSaves
    <2>1. CASE Save
      BY <1>1, <2>1, EditAssumption DEF Save
    <2> QED
      BY <1>1, <2>1
         DEF EditNext, editVars, ReadBlock, ReadFails, Pick, Drop, SaveDetails, SaveFails, SaveDone,
             AddOne, RemoveOne, OtherTab, EventLeaves
  <1>7. others' \in 0 .. MaxOthers
    <2>1. ASSUME NEW e \in Events, OtherTab(e) \/ EventLeaves(e)
          PROVE  others' \in 0 .. MaxOthers
      BY <1>1, <2>1, EditAssumption DEF OtherTab, EventLeaves
    <2>2. CASE others' = others
      BY <1>1, <2>2
    <2> QED
      BY <2>1, <2>2
         DEF EditNext, editVars, ReadBlock, ReadFails, Pick, Drop, Save, SaveDetails, SaveFails,
             SaveDone, AddOne, RemoveOne
  <1> QED
    BY <1>2, <1>3, <1>4, <1>5, <1>6, <1>7 DEF EditTypeOK

\* What the forms hold, and what they have under way, is what it is declared to be; so are the
\* sources, their keys apart.
THEOREM FormTypes ==
  /\ SubmitSpec => []SubmitTypeOK
  /\ SourcesSpec => []SourcesTypeOK
  /\ EditSpec => []EditTypeOK
  <1>1. DraftInv => SubmitTypeOK
    BY DEF DraftInv
  <1>2. EditInit => EditTypeOK
    BY EditAssumption DEF EditInit, EditTypeOK, NotSaving
  <1>3. EditTypeOK /\ [EditNext]_editVars => EditTypeOK'
    BY EditTypesKept
  <1> QED
    BY <1>1, <1>2, <1>3, InitDraft, DraftKept, SourcesTypes, PTL DEF SubmitSpec, EditSpec

=============================================================================
