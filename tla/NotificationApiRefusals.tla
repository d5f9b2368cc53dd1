------------------------ MODULE NotificationApiRefusals ------------------------
(***************************************************************************)
(* The proof of RefusalsHaveCause: a client that repeats a POST without    *)
(* source_event_id does not fail more often than something went wrong.     *)
(* A try is charged to its cause in the step in which the cause occurs,    *)
(* before the client hears of it, and each cause is charged with one try.  *)
(***************************************************************************)
EXTENDS NotificationApiProofs, FiniteSetTheorems

Unanswered == {"503", "timeout"}

\* The requests RefusalsHaveCause is about.
Plain == {q \in Requests \ (Invalid \cup Unstorable) : SourceOf[q] = NoSource}

\* The tries that have failed or are bound to fail: the answer 503 is waiting
\* to be written, or the template that was picked has been deleted.
Doomed(c) ==
  \/ heard[c] \in Unanswered
  \/ pc[c] = "respond" /\ answer[c] = "503"
  \/ pc[c] = "save" /\ picked[c] /\ template = "deleted"
Charged(q) == {n \in 1..MaxTries : Doomed(<<q, n>>)}

\* What can be charged: errors, and the one deletion of the template.
Budget == faults + (IF template = "deleted" THEN 1 ELSE 0)

\* A try is sent once the one before has failed, and not before: of the tries
\* for a request, one at most is under way and not yet given up.
Sequential ==
  /\ \A c \in Call : heard[c] \in Unanswered => pc[c] # "unsent"
  /\ \A q \in Requests : \A k, n \in 1..MaxTries :
       k < n /\ pc[<<q, n>>] # "unsent" => heard[<<q, k>>] \in Unanswered

Pays == \A q \in Plain : Cardinality(Charged(q)) =< Budget

Paying == Serving /\ Sequential /\ Pays

-----------------------------------------------------------------------------
(* Counting. *)

\* The tries of a request are finitely many, and so are the charged ones.
LEMMA ChargedFinite ==
  ASSUME NEW S \in SUBSET (1..MaxTries)
  PROVE  IsFiniteSet(S) /\ Cardinality(S) \in Nat
<1>1. 1 \in Int /\ MaxTries \in Int
  BY BoundsAssumption
<1>2. IsFiniteSet(1..MaxTries)
  BY <1>1, FS_Interval
<1>3. IsFiniteSet(S)
  BY <1>2, FS_Subset
<1> QED
  BY <1>3, FS_CardinalityType

\* A set that gains at most one element grows by at most one.
LEMMA OneMore ==
  ASSUME NEW S \in SUBSET (1..MaxTries), NEW n \in 1..MaxTries,
         NEW T, T \subseteq S \cup {n}
  PROVE  Cardinality(T) =< Cardinality(S) + 1
<1>1. IsFiniteSet(S) /\ Cardinality(S) \in Nat
  BY ChargedFinite
<1>2. /\ IsFiniteSet(S \cup {n})
      /\ Cardinality(S \cup {n}) = IF n \in S THEN Cardinality(S) ELSE Cardinality(S) + 1
  BY <1>1, FS_AddElement
<1>3. T \in SUBSET (1..MaxTries) /\ S \cup {n} \in SUBSET (1..MaxTries)
  OBVIOUS
<1>4. Cardinality(T) \in Nat /\ Cardinality(S \cup {n}) \in Nat
  BY <1>3, ChargedFinite
<1>5. Cardinality(T) =< Cardinality(S \cup {n})
  BY <1>2, FS_Subset
<1> QED
  BY <1>1, <1>2, <1>4, <1>5

\* The budget is a number.
LEMMA BudgetTyped == TypeOK => Budget \in Nat
<1> SUFFICES ASSUME TypeOK PROVE Budget \in Nat
  OBVIOUS
<1>1. faults \in Nat
  BY BoundsAssumption DEF TypeOK
<1> QED
  BY <1>1 DEF Budget

-----------------------------------------------------------------------------
(* One try at a time. *)

\* Steps that send nothing, take no failure back and fail only what was sent.
LEMMA SequentialKept ==
  ASSUME Sequential,
         \A c \in Call : /\ heard[c] \in Unanswered => heard'[c] \in Unanswered
                         /\ heard'[c] \in Unanswered /\ heard[c] \notin Unanswered
                              => pc'[c] # "unsent"
                         /\ pc[c] = "unsent" <=> pc'[c] = "unsent"
  PROVE  Sequential'
BY DEF Sequential, Call

\* Every step keeps Sequential.  Post asks that the try before has failed; that
\* one had been sent, so the tries before it have failed too.
LEMMA SequentialStep == Serving /\ Sequential /\ [Next]_vars => Sequential'
<1> SUFFICES ASSUME Serving, Sequential, [Next]_vars PROVE Sequential'
  OBVIOUS
<1> USE DEF Serving, TypeOK, Unanswered
<1>1. ASSUME NEW c \in Call, Post(c) PROVE Sequential'
  <2>1. /\ pc' = [pc EXCEPT ![c] = "validate"] /\ UNCHANGED heard
        /\ c[2] > 1 => heard[<<c[1], c[2] - 1>>] \in Unanswered
    BY <1>1 DEF Post, client
  <2>2. \A d \in Call : heard'[d] \in Unanswered => pc'[d] # "unsent"
    BY <2>1 DEF Sequential
  <2>3. ASSUME NEW q \in Requests, NEW k \in 1..MaxTries, NEW n \in 1..MaxTries,
               k < n, pc'[<<q, n>>] # "unsent"
        PROVE  heard'[<<q, k>>] \in Unanswered
    <3>1. CASE <<q, n>> # c
      <4>1. pc[<<q, n>>] # "unsent"
        BY <2>1, <2>3, <3>1 DEF Call
      <4> QED
        BY <2>1, <2>3, <4>1 DEF Sequential
    <3>2. CASE <<q, n>> = c
      <4>1. n - 1 \in 1..MaxTries /\ heard[<<q, n - 1>>] \in Unanswered
        BY <2>1, <2>3, <3>2, BoundsAssumption
      <4>2. CASE k = n - 1
        BY <2>1, <4>1, <4>2
      <4>3. CASE k < n - 1
        <5>1. <<q, n - 1>> \in Call
          BY <4>1 DEF Call
        <5>2. pc[<<q, n - 1>>] # "unsent"
          BY <4>1, <5>1 DEF Sequential
        <5> QED
          BY <2>1, <4>1, <4>3, <5>2 DEF Sequential
      <4> QED
        BY <2>3, <4>2, <4>3, BoundsAssumption
    <3> QED
      BY <3>1, <3>2
  <2> QED
    BY <2>2, <2>3 DEF Sequential
<1>2. ASSUME NEW c \in Call, GiveUp(c) PROVE Sequential'
  BY <1>2, SequentialKept DEF GiveUp, handler
<1>3. ASSUME NEW c \in Call,
             pc[c] # "unsent", UNCHANGED heard,
             \E next \in {"template", "save", "respond"} : pc' = [pc EXCEPT ![c] = next]
      PROVE  Sequential'
  BY <1>3, SequentialKept DEF Sequential
<1>4. ASSUME NEW c \in Call, Refuse(c) \/ Validate(c) \/ LookUp(c) \/ LookUpFails(c)
      PROVE  Sequential'
  BY <1>3, <1>4 DEF Refuse, Validate, LookUp, LookUpFails, Answer, client
<1>5. ASSUME NEW c \in Call,
             Save(c, TRUE) \/ Save(c, FALSE) \/ SaveRefused(c) \/ SaveFails(c)
      PROVE  Sequential'
  BY <1>3, <1>5 DEF Save, SaveRefused, SaveFails, Answer, client
<1>6. ASSUME NEW c \in Call, Respond(c) PROVE Sequential'
  <2>1. heard[c] \in Unanswered => heard'[c] \in Unanswered
    BY <1>6 DEF Respond, AnswersKnown
  <2> QED
    BY <1>6, <2>1, SequentialKept DEF Respond
<1>7. CASE Crash
  BY <1>7, SequentialKept DEF Crash
<1>8. ASSUME UNCHANGED <<pc, heard>> PROVE Sequential'
  BY <1>8 DEF Sequential
<1>9. ASSUME NEW c \in Call, Get(c) PROVE Sequential'
  BY <1>8, <1>9 DEF Get, handler
<1>10. CASE ChangeTemplate
  BY <1>8, <1>10 DEF ChangeTemplate, handler, client
<1>11. CASE WorkerRecords
  BY <1>8, <1>11 DEF WorkerRecords, handler, client
<1>12. CASE UNCHANGED vars
  BY <1>8, <1>12 DEF vars, handler, client
<1> QED
  BY <1>1, <1>2, <1>4, <1>5, <1>6, <1>7, <1>9, <1>10, <1>11, <1>12 DEF Next, Step

-----------------------------------------------------------------------------
(* A step charges one try at most, and then adds to the budget. *)

NothingNew(q) == Charged(q)' \subseteq Charged(q) /\ Budget' >= Budget
OnePaid(q) ==
  \E n \in 1..MaxTries : Charged(q)' \subseteq Charged(q) \cup {n} /\ Budget' = Budget + 1

\* A step of one call charges no other one: it is free of charge if it dooms
\* nothing, and pays for the call if it has met an error.
LEMMA StepCharges ==
  ASSUME TypeOK, NEW c \in Call, NEW q \in Plain,
         \A d \in Call \ {c} : /\ pc'[d] = pc[d] /\ answer'[d] = answer[d]
                               /\ heard'[d] = heard[d] /\ picked'[d] = picked[d],
         UNCHANGED template
  PROVE  /\ (c[1] = q /\ Doomed(c)' => Doomed(c)) /\ UNCHANGED faults => NothingNew(q)
         /\ faults' = faults + 1 => OnePaid(q)
<1>1. q \in Requests /\ c \in Requests \X (1..MaxTries)
  BY DEF Plain, Call
<1>2. \A n \in 1..MaxTries : <<q, n>> # c => (Doomed(<<q, n>>)' <=> Doomed(<<q, n>>))
  BY <1>1 DEF Doomed, Call
<1>3. ASSUME c[1] = q /\ Doomed(c)' => Doomed(c), UNCHANGED faults PROVE NothingNew(q)
  <2>1. \A n \in 1..MaxTries : Doomed(<<q, n>>)' => Doomed(<<q, n>>)
    BY <1>1, <1>2, <1>3
  <2>2. Budget' >= Budget
    BY <1>3 DEF Budget, TypeOK
  <2> QED
    BY <2>1, <2>2 DEF NothingNew, Charged
<1>4. ASSUME faults' = faults + 1 PROVE OnePaid(q)
  <2>1. c[2] \in 1..MaxTries /\ (c[1] = q => c = <<q, c[2]>>)
    BY <1>1
  <2>2. Charged(q)' \subseteq Charged(q) \cup {c[2]}
    BY <1>1, <1>2, <2>1 DEF Charged
  <2>3. Budget' = Budget + 1
    BY <1>4, BoundsAssumption DEF Budget, TypeOK
  <2> QED
    BY <2>1, <2>2, <2>3 DEF OnePaid
<1> QED
  BY <1>3, <1>4

\* An error dooms the call it meets, unless the client had given up: then it was.
LEMMA QueryFaultPaid ==
  ASSUME TypeOK, NEW c \in Call, NEW q \in Plain, QueryFault(c),
         \A d \in Call \ {c} : /\ pc'[d] = pc[d] /\ answer'[d] = answer[d]
                               /\ heard'[d] = heard[d] /\ picked'[d] = picked[d],
         UNCHANGED template
  PROVE  NothingNew(q) \/ OnePaid(q)
<1>1. CASE heard[c] = "timeout"
  <2>1. Doomed(c) /\ UNCHANGED faults
    BY <1>1 DEF Doomed, Unanswered, QueryFault
  <2> QED
    BY <2>1, StepCharges
<1>2. CASE heard[c] # "timeout"
  BY <1>2, StepCharges DEF QueryFault, Fault
<1> QED
  BY <1>1, <1>2

\* Steps that doom, of every request, only tries under way: with the next try
\* waiting for the failure of the last, that is one try of a request.
LEMMA UnderWayPaid ==
  ASSUME Sequential, NEW q \in Plain, Budget \in Nat, Budget' = Budget + 1,
         \A n \in 1..MaxTries : Doomed(<<q, n>>)' /\ ~Doomed(<<q, n>>) =>
                                   pc[<<q, n>>] # "unsent"
  PROVE  NothingNew(q) \/ OnePaid(q)
<1>1. q \in Requests
  BY DEF Plain
<1>2. \A k, n \in 1..MaxTries : k < n /\ pc[<<q, n>>] # "unsent" => Doomed(<<q, k>>)
  BY <1>1 DEF Sequential, Doomed
<1>3. CASE Charged(q)' \subseteq Charged(q)
  BY <1>3 DEF NothingNew
<1>4. ASSUME NEW n \in Charged(q)', n \notin Charged(q) PROVE OnePaid(q)
  <2>1. n \in 1..MaxTries /\ pc[<<q, n>>] # "unsent" /\ ~Doomed(<<q, n>>)
    BY <1>4 DEF Charged
  <2>2. ASSUME NEW k \in Charged(q)', k \notin Charged(q) PROVE k = n
    <3>1. k \in 1..MaxTries /\ pc[<<q, k>>] # "unsent" /\ ~Doomed(<<q, k>>)
      BY <2>2 DEF Charged
    <3>2. ~(k < n) /\ ~(n < k)
      BY <1>2, <2>1, <3>1
    <3> QED
      BY <2>1, <3>1, <3>2, BoundsAssumption
  <2> QED
    BY <2>1, <2>2 DEF OnePaid
<1> QED
  BY <1>3, <1>4

\* Every step either charges nothing and leaves the budget, or charges one try
\* and adds one to the budget: one case for each action.
LEMMA StepPays ==
  ASSUME Serving, Sequential, NEW q \in Plain, [Next]_vars
  PROVE  NothingNew(q) \/ OnePaid(q)
<1> USE DEF Serving, TypeOK, Unanswered
<1>1. q \in Requests /\ q \notin Invalid /\ q \notin Unstorable /\ SourceOf[q] = NoSource
  BY DEF Plain
<1>2. ASSUME NEW c \in Call, Post(c) PROVE NothingNew(q)
  <2>1. Doomed(c)' => Doomed(c)
    BY <1>2 DEF Post, Doomed, database, client
  <2> QED
    BY <1>2, <2>1, StepCharges DEF Post, database, client
<1>3. ASSUME NEW c \in Call, GiveUp(c) PROVE OnePaid(q)
  BY <1>3, StepCharges DEF GiveUp, Fault, database, handler
<1>4. ASSUME NEW c \in Call, Refuse(c) PROVE NothingNew(q)
  <2>1. Doomed(c)' => Doomed(c)
    BY <1>4 DEF Refuse, Answer, Doomed, database, client
  <2> QED
    BY <1>4, <2>1, StepCharges DEF Refuse, Answer, database, client
<1>5. ASSUME NEW c \in Call, Validate(c) PROVE NothingNew(q)
  <2>1. Doomed(c)' => Doomed(c)
    BY <1>5 DEF Validate, Doomed, database, client
  <2> QED
    BY <1>5, <2>1, StepCharges DEF Validate, database, client
<1>6. ASSUME NEW c \in Call, LookUp(c) PROVE NothingNew(q)
  <2>1. Doomed(c)' => Doomed(c)
    BY <1>6 DEF LookUp, Doomed, database, client
  <2> QED
    BY <1>6, <2>1, StepCharges DEF LookUp, database, client
<1>7. ASSUME NEW c \in Call, LookUpFails(c) PROVE NothingNew(q) \/ OnePaid(q)
  BY <1>7, QueryFaultPaid DEF LookUpFails, database, client
<1>8. ASSUME NEW c \in Call, Save(c, TRUE) PROVE NothingNew(q)
  <2>1. Doomed(c)' => Doomed(c)
    BY <1>8 DEF Save, Answer, Doomed, client
  <2> QED
    BY <1>8, <2>1, StepCharges DEF Save, Answer, client
<1>9. ASSUME NEW c \in Call, Save(c, FALSE) PROVE OnePaid(q)
  BY <1>9, StepCharges DEF Save, Answer, Fault, client
<1>10. ASSUME NEW c \in Call, SaveRefused(c) PROVE NothingNew(q)
  <2>1. c[1] = q => Doomed(c)
    BY <1>1, <1>10 DEF SaveRefused, Storable, Source, Doomed
  <2> QED
    BY <1>10, <2>1, StepCharges DEF SaveRefused, Answer, database, client
<1>11. ASSUME NEW c \in Call, SaveFails(c) PROVE NothingNew(q) \/ OnePaid(q)
  BY <1>11, QueryFaultPaid DEF SaveFails, Answer, database, client
<1>12. ASSUME NEW c \in Call, Respond(c) PROVE NothingNew(q)
  <2>1. Doomed(c)' => Doomed(c)
    BY <1>12 DEF Respond, Doomed, database
  <2> QED
    BY <1>12, <2>1, StepCharges DEF Respond, database
<1>13. CASE Crash
  <2>1. Budget' = Budget + 1
    BY <1>13, BoundsAssumption DEF Crash, Fault, Budget, database
  <2>2. ASSUME NEW n \in 1..MaxTries, pc[<<q, n>>] = "unsent", Doomed(<<q, n>>)'
        PROVE  Doomed(<<q, n>>)
    <3>1. <<q, n>> \in Call
      BY <1>1 DEF Call
    <3> QED
      BY <1>13, <2>2, <3>1 DEF Crash, Doomed
  <2> QED
    BY <2>1, <2>2, UnderWayPaid, BudgetTyped
<1>14. ASSUME NEW c \in Call, Get(c) PROVE NothingNew(q)
  <2>1. UNCHANGED <<pc, picked, answer, heard, template>>
    BY <1>14 DEF Get, database, handler
  <2>2. faults' \in {faults, faults + 1}
    BY <1>14 DEF Get, Fault
  <2>3. Budget' >= Budget
    <3>1. faults \in Nat
      BY BoundsAssumption
    <3>2. CASE faults' = faults
      BY <2>1, <3>1, <3>2 DEF Budget
    <3>3. CASE faults' = faults + 1
      BY <2>1, <3>1, <3>3 DEF Budget
    <3> QED
      BY <2>2, <3>2, <3>3
  <2>4. Charged(q)' = Charged(q)
    BY <2>1 DEF Charged, Doomed
  <2> QED
    BY <2>3, <2>4 DEF NothingNew
<1>15. CASE ChangeTemplate
  <2>1. UNCHANGED <<pc, picked, answer, heard, faults>> /\ template # "deleted"
    BY <1>15 DEF ChangeTemplate, handler, client
  <2>2. CASE template' = "deleted"
    <3>1. Budget' = Budget + 1
      BY <2>1, <2>2, BoundsAssumption DEF Budget
    <3>2. \A n \in 1..MaxTries : Doomed(<<q, n>>)' /\ ~Doomed(<<q, n>>) =>
                                     pc[<<q, n>>] # "unsent"
      BY <2>1 DEF Doomed
    <3> QED
      BY <3>1, <3>2, UnderWayPaid, BudgetTyped
  <2>3. CASE template' # "deleted"
    BY <2>1, <2>3, BoundsAssumption DEF NothingNew, Charged, Doomed, Budget
  <2> QED
    BY <2>2, <2>3
<1>16. CASE WorkerRecords
  BY <1>16, BoundsAssumption DEF WorkerRecords, NothingNew, Charged, Doomed, Budget,
    handler, client
<1>17. CASE UNCHANGED vars
  BY <1>17, BoundsAssumption DEF vars, NothingNew, Charged, Doomed, Budget,
    database, handler, client
<1> QED
  BY <1>2, <1>3, <1>4, <1>5, <1>6, <1>7, <1>8, <1>9, <1>10, <1>11, <1>12, <1>13, <1>14,
    <1>15, <1>16, <1>17 DEF Next, Step

-----------------------------------------------------------------------------
\* At first nothing was sent and nothing is charged.
LEMMA PayingInit == Init => Paying
<1> SUFFICES ASSUME Init PROVE Paying
  OBVIOUS
<1>1. Serving
  BY ServingInit
<1>2. Sequential
  BY DEF Init, Sequential, Unanswered, Call
<1>3. ASSUME NEW q \in Plain PROVE Cardinality(Charged(q)) =< Budget
  <2>1. \A n \in 1..MaxTries : <<q, n>> \in Call
    BY DEF Plain, Call
  <2>2. Charged(q) = {}
    BY <2>1 DEF Init, Charged, Doomed, Unanswered
  <2>3. Cardinality(Charged(q)) = 0
    BY <2>2, FS_EmptySet
  <2> QED
    BY <2>3 DEF Init, Budget
<1> QED
  BY <1>1, <1>2, <1>3 DEF Paying, Pays

\* What is charged stays paid for.
LEMMA PayingStep == Paying /\ [Next]_vars => Paying'
<1> SUFFICES ASSUME Paying, [Next]_vars PROVE Paying'
  OBVIOUS
<1>1. Serving' /\ Sequential'
  BY ServingStep, SequentialStep DEF Paying
<1>2. Budget \in Nat /\ Budget' \in Nat
  <2>1. TypeOK
    BY DEF Paying, Serving
  <2>2. faults' \in 0..MaxFaults
    BY <1>1 DEF Serving, TypeOK
  <2>3. PICK f \in Nat : faults' = f
    BY <2>2, BoundsAssumption
  <2>4. Budget' \in Nat
    BY <2>3 DEF Budget
  <2> QED
    BY <2>1, <2>4, BudgetTyped
<1>3. ASSUME NEW q \in Plain PROVE Cardinality(Charged(q)') =< Budget'
  <2>1. Charged(q) \in SUBSET (1..MaxTries) /\ Charged(q)' \in SUBSET (1..MaxTries)
    BY DEF Charged
  <2>2. Cardinality(Charged(q)) \in Nat /\ Cardinality(Charged(q)') \in Nat
    BY <2>1, ChargedFinite
  <2>3. Cardinality(Charged(q)) =< Budget
    BY DEF Paying, Pays
  <2>4. CASE NothingNew(q)
    <3>1. Cardinality(Charged(q)') =< Cardinality(Charged(q))
      BY <2>1, <2>4, ChargedFinite, FS_Subset DEF NothingNew
    <3> QED
      BY <1>2, <2>2, <2>3, <2>4, <3>1 DEF NothingNew
  <2>5. CASE OnePaid(q)
    <3>1. /\ Cardinality(Charged(q)') =< Cardinality(Charged(q)) + 1
          /\ Budget' = Budget + 1
      BY <2>1, <2>5, OneMore DEF OnePaid
    <3> QED
      BY <1>2, <2>2, <2>3, <3>1
  <2> QED
    BY <2>4, <2>5, StepPays DEF Paying
<1> QED
  BY <1>1, <1>3 DEF Paying, Pays, Plain

\* A POST without source_event_id fails at most once for each error and once
\* for the deletion of the template, however often it is repeated.
THEOREM RefusalsHaveCauseAlways == Spec => []RefusalsHaveCause
<1>1. Paying => RefusalsHaveCause
  <2> SUFFICES ASSUME Paying, NEW q \in Requests \ (Invalid \cup Unstorable),
                      SourceOf[q] = NoSource
               PROVE  Cardinality({n \in 1..MaxTries : heard[<<q, n>>] \in {"503", "timeout"}})
                        =< faults + (IF template = "deleted" THEN 1 ELSE 0)
    BY DEF RefusalsHaveCause
  <2> DEFINE Failed == {n \in 1..MaxTries : heard[<<q, n>>] \in {"503", "timeout"}}
  <2>1. q \in Plain
    BY DEF Plain
  <2>2. Failed \subseteq Charged(q) /\ Charged(q) \in SUBSET (1..MaxTries)
    BY DEF Charged, Doomed, Unanswered
  <2>3. Cardinality(Failed) =< Cardinality(Charged(q))
    BY <2>2, ChargedFinite, FS_Subset
  <2>4. Cardinality(Failed) \in Nat /\ Cardinality(Charged(q)) \in Nat
    BY <2>2, ChargedFinite
  <2>5. Cardinality(Charged(q)) =< Budget /\ Budget \in Nat
    BY <2>1, BudgetTyped DEF Paying, Pays, Serving
  <2> QED
    BY <2>3, <2>4, <2>5 DEF Budget
<1> QED
  BY <1>1, PayingInit, PayingStep, PTL DEF Spec
=============================================================================
