--------------------------- MODULE EventIntakeProofs ---------------------------
(***************************************************************************)
(* Proofs about EventIntake, for any deliveries, templates and lengths:    *)
(* who is mailed and recorded at all, and what Render makes of a text in   *)
(* whatever order it takes the variables.                                  *)
(***************************************************************************)
EXTENDS EventIntake, TLAPS

\* UnmarshalJSON lets through what is not malformed, and nothing else: a null is
\* stopped by the pattern.
LEMMA DecodableIsFit ==
  ASSUME envelope \in Deliveries
  PROVE  Decodable(envelope) <=> ~Malformed
<1>1. envelope.absent \cup envelope.mistyped = {}
        <=> envelope.absent = {} /\ envelope.mistyped = {}
  OBVIOUS
<1>2. ~Patterned("")
  BY DEF Patterned, EventTypes
<1>3. /\ envelope.form \in {"object", "null", "broken"}
      /\ envelope.form = "null" => ~Patterned(envelope.event_type)
  BY <1>2, DeliveriesAssumption
<1> QED
  BY <1>1, <1>3 DEF Decodable, Malformed

Fit == ~Malformed /\ Mapped(envelope)

\* A delivery gets past the mapping only if it is fit, and only then is it
\* mailed or recorded.
Screened ==
  /\ envelope \in Deliveries
  /\ pc = "decode" => result = "none"
  /\ pc = "map" => ~Malformed
  /\ pc \in {"template", "subject", "body", "send", "save"} => Fit
  /\ mail # <<>> => Fit
  /\ pc = "done" =>
       \/ result = "nacked" /\ Malformed
       \/ result = "logged" /\ ~Malformed
       \/ result = "recorded" /\ Fit

\* At first nothing has been decoded or mailed.
LEMMA ScreenedInit == Init => Screened
  BY DEF Init, Screened

\* Every step keeps Screened: one case for each action.
LEMMA ScreenedStep == Screened /\ [Next]_vars => Screened'
<1> SUFFICES ASSUME Screened, [Next]_vars PROVE Screened'
  OBVIOUS
<1>1. envelope' = envelope
  BY DEF Next, vars, Reject, Decode, Refuse, Map, PassTemplate, TakeTemplate,
    RenderSubject, RenderBody, SubjectDone, BodyDone, Send, Save, SaveRefused
<1>2. /\ (Malformed' <=> Malformed) /\ (Fit' <=> Fit)
      /\ envelope \in Deliveries /\ envelope' \in Deliveries
  BY <1>1 DEF Fit, Malformed, Screened
<1>3. CASE Reject
  BY <1>2, <1>3, DecodableIsFit DEF Reject, Finish, Screened
<1>4. CASE Decode
  BY <1>2, <1>4, DecodableIsFit DEF Decode, Screened
<1>5. CASE Refuse
  BY <1>2, <1>5 DEF Refuse, Finish, Screened
<1>6. CASE Map
  BY <1>2, <1>6 DEF Map, Screened, Fit
<1>7. CASE PassTemplate \/ TakeTemplate
  BY <1>2, <1>7 DEF PassTemplate, TakeTemplate, Screened
<1>8. ASSUME NEW k \in left, RenderSubject(k) \/ RenderBody(k) PROVE Screened'
  BY <1>2, <1>8 DEF RenderSubject, RenderBody, Screened
<1>9. CASE SubjectDone \/ BodyDone
  BY <1>2, <1>9 DEF SubjectDone, BodyDone, Screened
<1>10. CASE Send
  BY <1>2, <1>10 DEF Send, Screened
<1>11. CASE Save \/ SaveRefused
  BY <1>2, <1>11 DEF Save, SaveRefused, Finish, Screened, Fit
<1>12. CASE UNCHANGED vars
  BY <1>2, <1>12 DEF vars, Screened
<1> QED
  BY <1>3, <1>4, <1>5, <1>6, <1>7, <1>8, <1>9, <1>10, <1>11, <1>12 DEF Next

\* A malformed or unmapped event is never mailed, and ends as such.
THEOREM UnfitIsNotMailedAlways == Spec => []UnfitIsNotMailed
<1>1. Screened => UnfitIsNotMailed
  BY DEF Screened, UnfitIsNotMailed, Unmapped, Fit
<1> QED
  BY <1>1, ScreenedInit, ScreenedStep, PTL DEF Spec
-----------------------------------------------------------------------------
(* Texts: what the loop of Render does to them. *)

Keys == {"alert_type", "ficha", "schedule_name"}

\* Two keys have two placeholders.
LEMMA HolesDiffer == \A k, h \in Keys : Hole(k) = Hole(h) => k = h
  BY DEF Keys, Hole

\* A string of the payload, or the empty one, is a word.
LEMMA StrIsWord == \A e \in Deliveries : \A k : Str(e, k) \in Words
<1> SUFFICES ASSUME NEW e \in Deliveries, NEW k PROVE Str(e, k) \in Words
  OBVIOUS
<1>1. Range(e.payload) \subseteq Words
  BY DeliveriesAssumption
<1> QED
  BY <1>1, WordsAssumption DEF Str, Range

\* An event has two variables, and each is a word.
LEMMA VarsAreWords ==
  ASSUME NEW e \in Deliveries
  PROVE  /\ DOMAIN Vars(e) \subseteq Keys
         /\ \A k \in DOMAIN Vars(e) : Vars(e)[k] \in Words
  BY StrIsWord DEF Vars, Keys

\* Replacing words by words leaves a text.
LEMMA ReplacedIsText ==
  ASSUME NEW text \in Seq(Words), NEW k, NEW value \in Words
  PROVE  Replaced(text, k, value) \in Seq(Words)
<1> DEFINE word(i) == IF text[i] = Hole(k) THEN value ELSE text[i]
<1>1. DOMAIN text = 1..Len(text) /\ Len(text) \in Nat
  OBVIOUS
<1>2. \A i \in 1..Len(text) : word(i) \in Words
  OBVIOUS
<1> HIDE DEF word
<1>3. [i \in 1..Len(text) |-> word(i)] \in Seq(Words)
  BY <1>1, <1>2
<1> QED
  BY <1>1, <1>3 DEF Replaced, word

\* No key visited yet: the text is as the template has it.
LEMMA NothingFilled ==
  ASSUME NEW text \in Seq(Words)
  PROVE  Filled(text, {}) = text
  BY DEF Filled

\* Where a filled text holds what.
LEMMA FilledAt ==
  ASSUME NEW text, NEW keys \in SUBSET Keys, NEW i \in DOMAIN text
  PROVE  /\ \A k \in keys : text[i] = Hole(k) => Filled(text, keys)[i] = Vars(envelope)[k]
         /\ (\A k \in keys : text[i] # Hole(k)) => Filled(text, keys)[i] = text[i]
<1>1. ASSUME NEW k \in keys, text[i] = Hole(k)
      PROVE  Filled(text, keys)[i] = Vars(envelope)[k]
  <2>1. (CHOOSE h \in keys : text[i] = Hole(h)) = k
    BY <1>1, HolesDiffer
  <2> QED
    BY <1>1, <2>1 DEF Filled
<1>2. (\A k \in keys : text[i] # Hole(k)) => Filled(text, keys)[i] = text[i]
  BY DEF Filled
<1> QED
  BY <1>1, <1>2

\* One round of the loop: with values that are no placeholders, a key more is
\* filled in, and those before it are left alone, in whatever order they come.
LEMMA ReplacedFills ==
  ASSUME NEW text, Plain, DOMAIN Vars(envelope) \subseteq Keys,
         NEW keys \in SUBSET DOMAIN Vars(envelope),
         NEW k \in DOMAIN Vars(envelope)
  PROVE  Replaced(Filled(text, keys), k, Vars(envelope)[k]) = Filled(text, keys \cup {k})
<1> DEFINE before == Filled(text, keys)
           after == Filled(text, keys \cup {k})
<1>1. DOMAIN before = DOMAIN text /\ DOMAIN after = DOMAIN text
  BY DEF Filled
<1>2. ASSUME NEW i \in DOMAIN text
      PROVE  after[i] = IF before[i] = Hole(k) THEN Vars(envelope)[k] ELSE before[i]
  <2>0. keys \in SUBSET Keys /\ keys \cup {k} \in SUBSET Keys
    OBVIOUS
  <2> HIDE DEF before, after
  <2>1. CASE \E h \in keys : text[i] = Hole(h)
    <3>1. PICK h \in keys : text[i] = Hole(h)
      BY <2>1
    <3>2. before[i] = Vars(envelope)[h] /\ after[i] = Vars(envelope)[h]
      BY <2>0, <3>1, FilledAt DEF before, after
    <3> QED
      BY <3>2 DEF Plain
  <2>2. CASE \A h \in keys : text[i] # Hole(h)
    <3>1. before[i] = text[i]
      BY <2>0, <2>2, FilledAt DEF before
    <3>2. CASE text[i] = Hole(k)
      <4>1. after[i] = Vars(envelope)[k]
        BY <2>0, <3>2, FilledAt DEF after
      <4> QED
        BY <3>1, <3>2, <4>1
    <3>3. CASE text[i] # Hole(k)
      <4>1. after[i] = text[i]
        BY <2>0, <2>2, <3>3, FilledAt DEF after
      <4> QED
        BY <3>1, <3>3, <4>1
    <3> QED
      BY <3>2, <3>3
  <2> QED
    BY <2>1, <2>2
<1>3. after = [i \in DOMAIN text |-> after[i]]
  BY DEF Filled
<1> HIDE DEF before, after
<1>4. Replaced(before, k, Vars(envelope)[k]) = after
  BY <1>1, <1>2, <1>3 DEF Replaced
<1> QED
  BY <1>4 DEF before, after
-----------------------------------------------------------------------------
(* Types, and where each thing is settled. *)

\* The texts are texts, and a delivery has one mail at most.
Texts ==
  /\ subject \in Seq(Words)
  /\ body \in Seq(Words)
  /\ mail \in Seq(Seq(Words))
  /\ Len(mail) =< 1

\* The rest of TypeOK; nothing is mailed before Send; a template is taken exactly
\* if there is an active one; Render visits keys the event has.
Stages ==
  /\ envelope \in Deliveries
  /\ template \in Templates \cup {NoTemplate}
  /\ pc \in {"decode", "map", "template", "subject", "body", "send", "save", "done"}
  /\ left \subseteq Keys
  /\ templated \in BOOLEAN
  /\ result \in {"none", "nacked", "logged", "recorded"}
  /\ result # "none" <=> pc = "done"
  /\ pc \in {"decode", "map", "template", "subject", "body", "send"} => mail = <<>>
  /\ pc \in {"decode", "map", "template"} => ~templated
  /\ pc \in {"subject", "body"} => templated /\ left \subseteq DOMAIN Vars(envelope)
  /\ templated => ActiveTemplate
  /\ pc \in {"send", "save"} => (templated <=> ActiveTemplate)

Typed == Texts /\ Stages

\* At first there is no text and no mail.
LEMMA TypedInit == Init => Typed
<1>1. Init => Texts
  BY DEF Init, Texts
<1>2. Init => Stages
  BY DEF Init, Stages
<1> QED
  BY <1>1, <1>2 DEF Typed

\* What no step touches, and what follows from it.
LEMMA Given ==
  ASSUME Stages, [Next]_vars
  PROVE  /\ envelope' = envelope /\ template' = template
         /\ Vars(envelope)' = Vars(envelope)
         /\ FixedSubject(envelope)' = FixedSubject(envelope)
         /\ (ActiveTemplate' <=> ActiveTemplate) /\ (Plain' <=> Plain)
         /\ \A text, keys : Filled(text, keys)' = Filled(text, keys)
         /\ \A text : Substituted(text)' = Substituted(text)
         /\ DOMAIN Vars(envelope) \subseteq Keys
         /\ FixedSubject(envelope) \in Seq(Words)
         /\ \A k \in DOMAIN Vars(envelope) : Vars(envelope)[k] \in Words
         /\ ActiveTemplate => /\ template.subject_template \in Seq(Words)
                              /\ template.body_template \in Seq(Words)
<1>1. envelope' = envelope /\ template' = template
  BY DEF Next, vars, Reject, Decode, Refuse, Map, PassTemplate, TakeTemplate,
    RenderSubject, RenderBody, SubjectDone, BodyDone, Send, Save, SaveRefused
<1>2. /\ (ActiveTemplate' <=> ActiveTemplate) /\ (Plain' <=> Plain)
      /\ \A text, keys : Filled(text, keys)' = Filled(text, keys)
      /\ \A text : Substituted(text)' = Substituted(text)
  BY <1>1 DEF ActiveTemplate, Plain, Filled, Substituted
<1>3. /\ DOMAIN Vars(envelope) \subseteq Keys
      /\ \A k \in DOMAIN Vars(envelope) : Vars(envelope)[k] \in Words
  BY VarsAreWords DEF Stages
<1>4. ActiveTemplate => /\ template.subject_template \in Seq(Words)
                        /\ template.body_template \in Seq(Words)
  BY TemplatesAssumption DEF Stages, ActiveTemplate
<1>5. FixedSubject(envelope) \in Seq(Words)
  <2>1. envelope \in Deliveries
    BY DEF Stages
  <2>2. /\ "Alert triggered:" \in Words /\ "Schedule published" \in Words
        /\ Str(envelope, "alert_type_code") \in Words
    BY <2>1, StrIsWord, WordsAssumption
  <2>3. \A a, b \in Words : <<a, b>> \in Seq(Words) /\ <<a>> \in Seq(Words)
    OBVIOUS
  <2> QED
    BY <2>2, <2>3 DEF FixedSubject
<1> QED
  BY <1>1, <1>2, <1>3, <1>4, <1>5

\* Every step leaves texts: the replaced ones by ReplacedIsText.
LEMMA TextsStep == Typed /\ [Next]_vars => Texts'
<1> SUFFICES ASSUME Texts, Stages, [Next]_vars PROVE Texts'
  BY DEF Typed
<1>1. CASE UNCHANGED <<subject, body, mail>>
  BY <1>1 DEF Texts
<1>2. CASE Map
  BY <1>2, Given DEF Map, Texts
<1>3. CASE TakeTemplate
  BY <1>3, Given DEF TakeTemplate, Texts
<1>4. ASSUME NEW k \in left, RenderSubject(k) PROVE Texts'
  <2>1. k \in DOMAIN Vars(envelope)
    BY <1>4 DEF RenderSubject, Stages
  <2>2. Replaced(subject, k, Vars(envelope)[k]) \in Seq(Words)
    BY <2>1, Given, ReplacedIsText DEF Texts
  <2> QED
    BY <1>4, <2>2 DEF RenderSubject, Texts
<1>5. ASSUME NEW k \in left, RenderBody(k) PROVE Texts'
  <2>1. k \in DOMAIN Vars(envelope)
    BY <1>5 DEF RenderBody, Stages
  <2>2. Replaced(body, k, Vars(envelope)[k]) \in Seq(Words)
    BY <2>1, Given, ReplacedIsText DEF Texts
  <2> QED
    BY <1>5, <2>2 DEF RenderBody, Texts
<1>6. CASE Send
  <2>1. \A S : \A t \in S :
          /\ Append(<<>>, t) \in Seq(S) /\ Len(Append(<<>>, t)) =< 1
    OBVIOUS
  <2>2. mail = <<>>
    BY <1>6 DEF Send, Stages
  <2>3. mail' = Append(<<>>, subject) \/ mail' = mail
    BY <1>6, <2>2 DEF Send
  <2>4. mail' \in Seq(Seq(Words)) /\ Len(mail') =< 1
    BY <2>1, <2>3 DEF Texts
  <2> QED
    BY <1>6, <2>4 DEF Send, Texts
<1> QED
  BY <1>1, <1>2, <1>3, <1>4, <1>5, <1>6
  DEF Next, vars, Reject, Decode, Refuse, PassTemplate, SubjectDone, BodyDone, Save, SaveRefused

\* Every step keeps the stages: one case for each action.
LEMMA StagesStep == Typed /\ [Next]_vars => Stages'
<1> SUFFICES ASSUME Stages, [Next]_vars PROVE Stages'
  BY DEF Typed
<1>1. CASE Reject \/ Refuse \/ Save \/ SaveRefused
  BY <1>1, Given DEF Reject, Refuse, Save, SaveRefused, Finish, Stages
<1>2. CASE Decode \/ Map \/ PassTemplate
  BY <1>2, Given DEF Decode, Map, PassTemplate, Stages
<1>3. CASE TakeTemplate
  BY <1>3, Given DEF TakeTemplate, Stages
<1>4. ASSUME NEW k \in left, RenderSubject(k) \/ RenderBody(k) PROVE Stages'
  BY <1>4, Given DEF RenderSubject, RenderBody, Stages
<1>5. CASE SubjectDone \/ BodyDone
  BY <1>5, Given DEF SubjectDone, BodyDone, Stages
<1>6. CASE Send
  BY <1>6, Given DEF Send, Stages
<1>7. CASE UNCHANGED vars
  BY <1>7, Given DEF vars, Stages
<1> QED
  BY <1>1, <1>2, <1>3, <1>4, <1>5, <1>6, <1>7 DEF Next

\* Typed is inductive.
LEMMA TypedStep == Typed /\ [Next]_vars => Typed'
  BY TextsStep, StagesStep DEF Typed

\* The types are kept, the texts of a template and of a rendering included.
THEOREM TypeCorrect == Spec => []TypeOK
<1>1. Typed => TypeOK
  BY DEF Typed, Texts, Stages, Keys, TypeOK
<1> QED
  BY <1>1, TypedInit, TypedStep, PTL DEF Spec
-----------------------------------------------------------------------------
(* What is rendered. *)

Visited == DOMAIN Vars(envelope) \ left

\* Halfway through the loop, in any order: the keys visited are filled in.  Then
\* the text is the substituted one; without a template it is the fixed one.
Rendering ==
  /\ pc = "template" \/ (pc \in {"send", "save"} /\ ~templated) =>
       subject = FixedSubject(envelope)
  /\ Plain /\ pc = "subject" =>
       /\ subject = Filled(template.subject_template, Visited)
       /\ body = template.body_template
  /\ Plain /\ pc = "body" =>
       /\ subject = Substituted(template.subject_template)
       /\ body = Filled(template.body_template, Visited)
  /\ RenderedOnce

\* At first nothing is rendered.
LEMMA RenderingInit == Init => Rendering
  BY DEF Init, Rendering, RenderedOnce, Rendered

\* Every step keeps it: the loop by ReplacedFills, everything else by what it
\* leaves alone.
LEMMA RenderingStep == Typed /\ Rendering /\ [Next]_vars => Rendering'
<1> SUFFICES ASSUME Stages, Rendering, [Next]_vars PROVE Rendering'
  BY DEF Typed
<1>1. CASE Reject \/ Refuse \/ Decode
  BY Given, <1>1
  DEF Reject, Refuse, Decode, Finish, Stages, Rendering, RenderedOnce, Rendered
<1>2. CASE Map
  BY Given, <1>2 DEF Map, Stages, Rendering, RenderedOnce, Rendered
<1>3. CASE PassTemplate
  BY Given, <1>3 DEF PassTemplate, Stages, Rendering, RenderedOnce, Rendered
<1>4. CASE TakeTemplate
  <2>1. Visited' = {}
    BY Given, <1>4 DEF TakeTemplate, Visited
  <2>2. Filled(template.subject_template, {}) = template.subject_template
    BY <1>4, Given, NothingFilled DEF TakeTemplate, Stages
  <2> QED
    BY Given, <1>4, <2>1, <2>2
    DEF TakeTemplate, Stages, Rendering, RenderedOnce, Rendered
<1>5. ASSUME NEW k \in left, RenderSubject(k) PROVE Rendering'
  <2>1. k \in DOMAIN Vars(envelope) /\ Visited' = Visited \cup {k}
    BY Given, <1>5 DEF RenderSubject, Stages, Visited
  <2>2. ASSUME Plain
        PROVE  subject' = Filled(template.subject_template, Visited \cup {k})
    BY <1>5, Given, <2>1, <2>2, ReplacedFills DEF RenderSubject, Rendering, Visited
  <2> QED
    BY Given, <1>5, <2>1, <2>2
    DEF RenderSubject, Rendering, RenderedOnce, Rendered
<1>6. CASE SubjectDone
  <2>1. Visited = DOMAIN Vars(envelope) /\ Visited' = {}
    BY Given, <1>6 DEF SubjectDone, Visited
  <2>2. Filled(template.body_template, {}) = template.body_template
    BY <1>6, Given, NothingFilled DEF SubjectDone, Stages
  <2> QED
    BY Given, <1>6, <2>1, <2>2
    DEF SubjectDone, Rendering, RenderedOnce, Rendered, Substituted
<1>7. ASSUME NEW k \in left, RenderBody(k) PROVE Rendering'
  <2>1. k \in DOMAIN Vars(envelope) /\ Visited' = Visited \cup {k}
    BY Given, <1>7 DEF RenderBody, Stages, Visited
  <2>2. ASSUME Plain
        PROVE  body' = Filled(template.body_template, Visited \cup {k})
    BY <1>7, Given, <2>1, <2>2, ReplacedFills DEF RenderBody, Rendering, Visited
  <2> QED
    BY Given, <1>7, <2>1, <2>2
    DEF RenderBody, Rendering, RenderedOnce, Rendered
<1>8. CASE BodyDone
  <2>1. Visited = DOMAIN Vars(envelope)
    BY <1>8 DEF BodyDone, Visited
  <2> QED
    BY Given, <1>8, <2>1
    DEF BodyDone, Stages, Rendering, RenderedOnce, Rendered, Substituted
<1>9. CASE Send \/ Save \/ SaveRefused
  BY Given, <1>9
  DEF Send, Save, SaveRefused, Finish, Rendering, RenderedOnce, Rendered
<1>10. CASE UNCHANGED vars
  <2>1. Visited' = Visited
    BY Given, <1>10 DEF vars, Visited
  <2> QED
    BY Given, <1>10, <2>1 DEF vars, Rendering, RenderedOnce, Rendered
<1> QED
  BY <1>1, <1>2, <1>3, <1>4, <1>5, <1>6, <1>7, <1>8, <1>9, <1>10 DEF Next

\* Whatever order Go visits the map in, the rendered subject and body are those
\* of the template with each placeholder replaced, once.
THEOREM RenderedOnceAlways == Spec => []RenderedOnce
<1>1. Rendering => RenderedOnce
  BY DEF Rendering
<1> QED
  BY <1>1, TypedInit, TypedStep, RenderingInit, RenderingStep, PTL DEF Spec

\* A text filled for every variable of an event has no placeholder of its type
\* left, whatever fields the event lacks.
LEMMA NoHoleLeft ==
  ASSUME NEW text, Plain, DOMAIN Vars(envelope) \subseteq Keys,
         NEW k \in SeededKeys(envelope.event_type)
  PROVE  Hole(k) \notin Range(Substituted(text))
<1>1. k \in DOMAIN Vars(envelope)
  BY DEF Vars, SeededKeys
<1> SUFFICES ASSUME NEW i \in DOMAIN text, Substituted(text)[i] = Hole(k)
             PROVE  FALSE
  BY DEF Range, Substituted, Filled
<1>2. CASE \E h \in DOMAIN Vars(envelope) : text[i] = Hole(h)
  <2>1. PICK h \in DOMAIN Vars(envelope) : text[i] = Hole(h)
    BY <1>2
  <2>2. Substituted(text)[i] = Vars(envelope)[h]
    BY <2>1, FilledAt DEF Substituted
  <2> QED
    BY <1>1, <2>2 DEF Plain
<1>3. CASE \A h \in DOMAIN Vars(envelope) : text[i] # Hole(h)
  <2>1. Substituted(text)[i] = text[i]
    BY <1>3, FilledAt DEF Substituted
  <2> QED
    BY <1>1, <1>3, <2>1
<1> QED
  BY <1>2, <1>3

\* Nothing is mailed or stored with a placeholder of its event in it.
THEOREM NoPlaceholderIsMailedAlways == Spec => []NoPlaceholderIsMailed
<1>1. Typed /\ Rendering => NoPlaceholderIsMailed
  <2> SUFFICES ASSUME Stages, Rendering, Rendered, Plain,
                      NEW k \in SeededKeys(envelope.event_type)
               PROVE  Hole(k) \notin Range(subject) \cup Range(body)
    BY DEF Typed, NoPlaceholderIsMailed
  <2>1. /\ subject = Substituted(template.subject_template)
        /\ body = Substituted(template.body_template)
    BY DEF Rendering, RenderedOnce
  <2>2. DOMAIN Vars(envelope) \subseteq Keys
    BY VarsAreWords DEF Stages
  <2> QED
    BY <2>1, <2>2, NoHoleLeft
<1> QED
  BY <1>1, TypedInit, TypedStep, RenderingInit, RenderingStep, PTL DEF Spec
-----------------------------------------------------------------------------
(* What becomes of a delivery. *)

\* The text the INSERT is given does not depend on the order of the map, nor
\* does its length.
LEMMA SavedSubject ==
  ASSUME Stages, Rendering, Plain, pc = "save"
  PROVE  subject = IF ActiveTemplate THEN Substituted(template.subject_template)
                   ELSE FixedSubject(envelope)
<1>1. CASE templated
  BY <1>1 DEF Stages, Rendering, RenderedOnce, Rendered
<1>2. CASE ~templated
  BY <1>2 DEF Stages, Rendering
<1> QED
  BY <1>1, <1>2

\* FateFollowsClass is kept: it is decided in Save or SaveRefused, about the
\* subject of SavedSubject.
LEMMA FateStep ==
  Typed /\ Screened /\ Rendering /\ FateFollowsClass /\ [Next]_vars => FateFollowsClass'
<1> SUFFICES ASSUME Stages, Screened, Rendering, FateFollowsClass, [Next]_vars,
                    pc' = "done", Plain', Fit'
             PROVE  result' = IF Unstorable' THEN "logged" ELSE "recorded"
  BY DEF Typed, FateFollowsClass, Unmapped, Fit
<1>1. Plain /\ Fit /\ (Unstorable' <=> Unstorable)
  BY Given DEF Fit, Malformed, Unmapped, Unstorable
<1>2. CASE Reject \/ Refuse
  BY <1>1, <1>2, DecodableIsFit DEF Reject, Refuse, Screened, Stages, Fit
<1>3. CASE Save \/ SaveRefused
  <2>1. Storable <=> ~Unstorable
    BY <1>1, <1>3, SavedSubject DEF Save, SaveRefused, Storable, Unstorable, Unmapped, Fit
  <2> QED
    BY <1>1, <1>3, <2>1 DEF Save, SaveRefused, Finish
<1>4. CASE UNCHANGED vars
  BY <1>1, <1>4 DEF vars, FateFollowsClass, Unmapped, Fit
<1> QED
  BY <1>2, <1>3, <1>4
  DEF Next, Decode, Map, PassTemplate, TakeTemplate, RenderSubject, RenderBody,
    SubjectDone, BodyDone, Send

\* Among the events that are fit, exactly those Postgres must refuse end in the
\* log and all others in a row, in whatever order Go visits the map.
THEOREM FateFollowsClassAlways == Spec => []FateFollowsClass
<1>1. Init => FateFollowsClass
  BY DEF Init, FateFollowsClass
<1> QED
  BY <1>1, TypedInit, TypedStep, ScreenedInit, ScreenedStep, RenderingInit, RenderingStep,
    FateStep, PTL DEF Spec
=============================================================================
