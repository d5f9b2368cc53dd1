--------------------------- MODULE OutboxRelayProofs ---------------------------
(***************************************************************************)
(* Proofs about OutboxRelay, for any relays, rows, batch size and number   *)
(* of failures.  The inductive invariant Relaying says what a relay holds  *)
(* in the middle of a poll; everything else follows from it.               *)
(***************************************************************************)
EXTENDS OutboxRelay, TLAPS

\* What is marked has been handed over, what is handed over is locked, what is
\* locked is an unpublished row of the table.
BatchShape ==
  \A r \in Relays :
    /\ locked[r] \subseteq staged \ published
    /\ sending[r] \subseteq locked[r] \cap handed
    /\ marked[r] \subseteq sending[r]

\* No row is in the hands of two relays.
LocksDisjoint ==
  \A r \in Relays : \A s \in Relays \ {r} : locked[r] \cap locked[s] = {}

\* Without interruption what was handed over is with the broker or on its way.
Arriving ==
  interruptions = 0 =>
    \A r \in Relays : sending[r] \subseteq accepted \cup UNION {wire[s] : s \in Relays}

Relaying ==
  TypeOK /\ BatchShape /\ LocksDisjoint /\ PublishedWasHanded /\ Arriving
  /\ LostOnlyByInterruption

\* What has been handed over changes with the count of copies only.
LEMMA HandedStep ==
  /\ copies' = copies => handed' = handed
  /\ \A r \in Relays, e \in Events :
       TypeOK /\ PublishOne(r, e) =>
         /\ copies' \in [Events -> Nat]
         /\ handed' = handed \cup {e}
<1>1. ASSUME NEW r \in Relays, NEW e \in Events, TypeOK, PublishOne(r, e)
      PROVE  copies' \in [Events -> Nat] /\ handed' = handed \cup {e}
  <2>1. /\ copies' \in [Events -> Nat] /\ copies'[e] > 0
        /\ \A f \in Events \ {e} : copies'[f] = copies[f]
    BY <1>1 DEF PublishOne, TypeOK
  <2> QED
    BY <2>1 DEF handed
<1> QED
  BY <1>1 DEF handed

\* Before anything runs nothing is staged, locked or handed over.
LEMMA RelayingInit == Init => Relaying
  BY DEF Init, Relaying, TypeOK, BatchShape, LocksDisjoint,
    PublishedWasHanded, Arriving, LostOnlyByInterruption, handed

\* Every step keeps Relaying: one case for each action.
LEMMA RelayingStep == Relaying /\ [Next]_vars => Relaying'
<1> SUFFICES ASSUME Relaying, [Next]_vars PROVE Relaying'
  OBVIOUS
<1> USE DEF Relaying, TypeOK, BatchShape, LocksDisjoint, PublishedWasHanded
<1>0. copies' = copies => handed' = handed
  BY HandedStep
<1>1. ASSUME NEW e \in Events, Stage(e) PROVE Relaying'
  BY <1>0, <1>1 DEF Stage, batch, link, Arriving, LostOnlyByInterruption
<1>2. ASSUME NEW r \in Relays, Poll(r) PROVE Relaying'
  <2>1. PICK b \in SUBSET Eligible(r) : locked' = [locked EXCEPT ![r] = b]
    BY <1>2 DEF Poll
  <2>2. b \subseteq staged \ published /\ \A s \in Relays : b \cap locked[s] = {}
    BY <2>1 DEF Eligible
  <2>3. sending[r] = {} /\ marked[r] = {}
    BY <1>2 DEF Poll
  <2>4. /\ UNCHANGED <<table, marked, sending, link, copies, interruptions, faults>>
        /\ pc' = [pc EXCEPT ![r] = "publish"]
    BY <1>2 DEF Poll
  <2>5. TypeOK'
    BY <2>1, <2>2, <2>4 DEF table, link
  <2>6. BatchShape' /\ LocksDisjoint' /\ PublishedWasHanded'
    BY <1>0, <2>1, <2>2, <2>3, <2>4 DEF table
  <2>7. Arriving' /\ LostOnlyByInterruption'
    BY <2>4 DEF table, link, Arriving, LostOnlyByInterruption
  <2> QED
    BY <2>5, <2>6, <2>7
<1>3. ASSUME NEW r \in Relays, NEW e \in Events, PublishOne(r, e) PROVE Relaying'
  <2>1. e \in locked[r]
    BY <1>3 DEF PublishOne, IsNext
  <2>a. copies' \in [Events -> Nat] /\ handed' = handed \cup {e}
    BY <1>3, HandedStep
  <2>2. TypeOK' /\ BatchShape' /\ LocksDisjoint' /\ PublishedWasHanded'
    BY <1>3, <2>1, <2>a DEF PublishOne, table
  <2>3. /\ wire' = [wire EXCEPT ![r] = @ \cup {e}] /\ UNCHANGED <<accepted, published>>
        /\ sending' = [sending EXCEPT ![r] = @ \cup {e}] /\ UNCHANGED interruptions
    BY <1>3 DEF PublishOne, table
  <2>4. \A s \in Relays : wire[s] \subseteq wire'[s]
    BY <2>3
  <2>5. e \in UNION {wire'[s] : s \in Relays}
    BY <2>3
  <2>6. Arriving' /\ LostOnlyByInterruption'
    <3>1. \A f \in accepted \cup UNION {wire[s] : s \in Relays} :
            f \in accepted' \cup UNION {wire'[s] : s \in Relays}
      BY <2>3, <2>4
    <3> QED
      BY <2>3, <2>5, <3>1 DEF Arriving, LostOnlyByInterruption
  <2> QED
    BY <2>2, <2>6
<1>4. ASSUME NEW r \in Relays, Mark(r) PROVE Relaying'
  BY <1>0, <1>4 DEF Mark, table, link, Arriving, LostOnlyByInterruption
<1>5. ASSUME NEW r \in Relays, Commit(r) PROVE Relaying'
  <2>1. TypeOK' /\ BatchShape' /\ LocksDisjoint' /\ PublishedWasHanded'
    BY <1>0, <1>5 DEF Commit, EndPoll, link
  <2>2. /\ UNCHANGED <<interruptions, accepted, wire>>
        /\ published' = published \cup marked[r]
        /\ \A s \in Relays : sending'[s] \subseteq sending[s]
    BY <1>5 DEF Commit, EndPoll, link
  <2>3. marked[r] \subseteq sending[r]
    OBVIOUS
  <2> QED
    BY <2>1, <2>2, <2>3 DEF Arriving, LostOnlyByInterruption
<1>6. ASSUME NEW r \in Relays, PublishFails(r) \/ SqlFails(r) PROVE Relaying'
  <2>1. /\ EndPoll(r) /\ UNCHANGED <<staged, published, copies, interruptions, link>>
        /\ pc' = [pc EXCEPT ![r] = "tick"] /\ faults' \in Nat
    BY <1>6 DEF PublishFails, SqlFails, table
  <2> QED
    BY <1>0, <2>1 DEF EndPoll, link, Arriving, LostOnlyByInterruption
<1>7. ASSUME NEW r \in Relays, NEW e \in Events, Accept(r, e) PROVE Relaying'
  <2>1. /\ wire' = [wire EXCEPT ![r] = @ \ {e}] /\ accepted' = accepted \cup {e}
        /\ UNCHANGED <<table, batch, pc, open, copies, interruptions, faults>>
    BY <1>7 DEF Accept
  <2>2. \A f \in accepted \cup UNION {wire[s] : s \in Relays} :
          f \in accepted' \cup UNION {wire'[s] : s \in Relays}
    <3> SUFFICES ASSUME NEW s \in Relays, NEW f \in wire[s], f # e
                 PROVE  f \in wire'[s]
      BY <2>1
    <3> QED
      BY <2>1
  <2> QED
    BY <1>0, <2>1, <2>2 DEF table, batch, Arriving, LostOnlyByInterruption
<1>8. ASSUME NEW r \in Relays, ChannelClosed(r) \/ Crash(r) PROVE Relaying'
  <2>1. interruptions' = interruptions + 1
    BY <1>8 DEF ChannelClosed, Crash
  <2>2. Arriving' /\ LostOnlyByInterruption'
    BY <2>1 DEF Arriving, LostOnlyByInterruption
  <2>3. TypeOK' /\ BatchShape' /\ LocksDisjoint' /\ PublishedWasHanded'
    <3>1. CASE ChannelClosed(r)
      BY <1>0, <3>1, <2>1 DEF ChannelClosed, table, batch
    <3>2. CASE Crash(r)
      <4>1. /\ EndPoll(r) /\ UNCHANGED <<staged, published, accepted, copies, faults>>
            /\ pc' = [pc EXCEPT ![r] = "down"] /\ open' = [open EXCEPT ![r] = FALSE]
            /\ wire' = [wire EXCEPT ![r] = {}]
        BY <3>2 DEF Crash, table
      <4> QED
        BY <1>0, <2>1, <4>1 DEF EndPoll
    <3> QED
      BY <1>8, <3>1, <3>2
  <2> QED
    BY <2>2, <2>3
<1>9. ASSUME NEW r \in Relays, Start(r) PROVE Relaying'
  BY <1>0, <1>9 DEF Start, table, batch, Arriving, LostOnlyByInterruption
<1>10. CASE UNCHANGED vars
  BY <1>0, <1>10 DEF vars, table, batch, link, Arriving, LostOnlyByInterruption
<1> QED
  BY <1>1, <1>2, <1>3, <1>4, <1>5, <1>6, <1>7, <1>8, <1>9, <1>10 DEF Next, Finish

\* Relaying holds in every reachable state.
LEMMA RelayingAlways == Spec => []Relaying
  BY RelayingInit, RelayingStep, PTL DEF Spec

\* Every variable keeps its type: what is published was staged, and a relay
\* that waits for its ticker holds no lock.
THEOREM TypeCorrect == Spec => []TypeOK
  BY RelayingAlways, PTL DEF Relaying

\* FOR UPDATE SKIP LOCKED keeps the batches of the relays apart.
THEOREM BatchesDisjointAlways == Spec => []BatchesDisjoint
<1>1. Relaying => BatchesDisjoint
  BY DEF Relaying, BatchShape, LocksDisjoint, BatchesDisjoint
<1> QED
  BY <1>1, RelayingAlways, PTL

\* No row is marked published that was not written to a channel.
THEOREM PublishedWasHandedAlways == Spec => []PublishedWasHanded
  BY RelayingAlways, PTL DEF Relaying

\* Nothing published is lost as long as no process and no channel was.
THEOREM LostOnlyByInterruptionAlways == Spec => []LostOnlyByInterruption
  BY RelayingAlways, PTL DEF Relaying
-----------------------------------------------------------------------------
(* How often a message is handed over. *)

Failures == interruptions + faults

\* A message has had one copy more than there were failures only while it is
\* published, or in the batch of a relay that nothing has happened to.
Counted ==
  \A e \in Events :
    /\ copies[e] =< 1 + Failures
    /\ copies[e] > Failures =>
         e \in published \/ \E r \in Relays : open[r] /\ e \in sending[r]

\* Between two messages what was handed over is marked: Commit forgets none.
Marked == \A r \in Relays : pc[r] = "publish" => marked[r] = sending[r]

\* A poll begins with nothing handed over, and Mark catches up with PublishOne.
LEMMA MarkedStep == Relaying /\ Marked /\ [Next]_vars => Marked'
<1> SUFFICES ASSUME Relaying, Marked, [Next]_vars, NEW s \in Relays, pc'[s] = "publish"
             PROVE  marked'[s] = sending'[s]
  BY DEF Marked
<1> USE DEF Relaying, TypeOK
<1>1. ASSUME NEW r \in Relays, Poll(r) PROVE marked'[s] = sending'[s]
  <2>1. locked[r] = {}
    BY <1>1 DEF Poll
  <2>2. marked[r] = sending[r]
    BY <2>1 DEF BatchShape
  <2> QED
    BY <1>1, <2>2 DEF Poll, Marked
<1>2. ASSUME NEW r \in Relays, NEW e \in Events, PublishOne(r, e)
      PROVE  marked'[s] = sending'[s]
  BY <1>2 DEF PublishOne, Marked
<1>3. ASSUME NEW r \in Relays, Mark(r) PROVE marked'[s] = sending'[s]
  BY <1>3 DEF Mark, Marked
<1>4. ASSUME NEW r \in Relays, Commit(r) \/ PublishFails(r) \/ SqlFails(r) \/ Crash(r)
      PROVE  marked'[s] = sending'[s]
  <2>1. EndPoll(r) /\ (pc' = [pc EXCEPT ![r] = "tick"] \/ pc' = [pc EXCEPT ![r] = "down"])
    BY <1>4 DEF Commit, PublishFails, SqlFails, Crash
  <2> QED
    BY <2>1 DEF EndPoll, Marked
<1>5. ASSUME NEW r \in Relays, Start(r) PROVE marked'[s] = sending'[s]
  BY <1>5 DEF Start, batch, Marked
<1>6. CASE UNCHANGED <<pc, marked, sending>>
  BY <1>6 DEF Marked
<1> QED
  BY <1>1, <1>2, <1>3, <1>4, <1>5, <1>6
  DEF Next, Finish, vars, batch, Stage, Accept, ChannelClosed

\* At first there are no copies, and no batch.
LEMMA CountedInit == Init => Counted /\ Marked
  BY DEF Init, Counted, Failures, Marked

\* A failure pays for one more copy of everything.
LEMMA FailureCounts ==
  ASSUME TypeOK, Counted, copies' = copies, Failures' = Failures + 1
  PROVE  Counted'
<1>1. Failures \in Nat
  BY DEF TypeOK, Failures
<1>2. ASSUME NEW e \in Events PROVE copies'[e] =< Failures'
  <2>1. copies[e] \in Nat /\ copies[e] =< 1 + Failures
    BY DEF TypeOK, Counted
  <2> QED
    BY <1>1, <2>1
<1>3. Failures' \in Nat /\ \A e \in Events : copies'[e] \in Nat
  BY <1>1 DEF TypeOK
<1>4. \A e \in Events : copies'[e] =< 1 + Failures' /\ ~(copies'[e] > Failures')
  BY <1>2, <1>3
<1> QED
  BY <1>4 DEF Counted

\* Nothing is undone: what is published, and what open relays have in hand, is
\* as before or published.
LEMMA NothingUndone ==
  ASSUME Counted, copies' = copies, Failures' = Failures,
         published \subseteq published',
         \A r \in Relays : open[r] => open'[r] /\ sending[r] \subseteq sending'[r] \cup published'
  PROVE  Counted'
<1> SUFFICES ASSUME NEW e \in Events
             PROVE  /\ copies'[e] =< 1 + Failures'
                    /\ copies'[e] > Failures' =>
                         \/ e \in published'
                         \/ \E r \in Relays : open'[r] /\ e \in sending'[r]
  BY DEF Counted
<1>1. copies'[e] = copies[e] /\ Failures' = Failures
  OBVIOUS
<1>2. copies'[e] =< 1 + Failures'
  BY <1>1 DEF Counted
<1>3. ASSUME copies[e] > Failures
      PROVE  e \in published' \/ \E r \in Relays : open'[r] /\ e \in sending'[r]
  BY <1>3 DEF Counted
<1> QED
  BY <1>1, <1>2, <1>3

\* Every step keeps Counted.  Only PublishOne makes a copy, of a row that is in
\* nobody's hands; a batch is undone by a failure, or by a relay whose channel a
\* failure has closed.
LEMMA CountedStep == Relaying /\ Marked /\ Counted /\ [Next]_vars => Counted'
<1> SUFFICES ASSUME Relaying, Marked, Counted, [Next]_vars PROVE Counted'
  OBVIOUS
<1>1. ASSUME NEW e \in Events, Stage(e) PROVE Counted'
  <2>1. UNCHANGED <<copies, interruptions, faults, published, open, sending>>
    BY <1>1 DEF Stage, batch, link
  <2> QED
    BY <2>1, NothingUndone DEF Failures
<1>2. ASSUME NEW r \in Relays, Poll(r) \/ Mark(r) PROVE Counted'
  <2>1. UNCHANGED <<copies, interruptions, faults, published, open, sending>>
    BY <1>2 DEF Poll, Mark, table, link
  <2> QED
    BY <2>1, NothingUndone DEF Failures
<1>3. ASSUME NEW r \in Relays, NEW e \in Events, PublishOne(r, e) PROVE Counted'
  <2>1. /\ open[r] /\ e \in locked[r] \ sending[r]
        /\ copies' = [copies EXCEPT ![e] = @ + 1]
        /\ sending' = [sending EXCEPT ![r] = @ \cup {e}]
        /\ UNCHANGED <<interruptions, faults, published, open>>
    BY <1>3 DEF PublishOne, IsNext, table
  <2>2. /\ e \notin published
        /\ \A s \in Relays : e \notin sending[s]
    BY <2>1 DEF Relaying, BatchShape, LocksDisjoint
  <2>3. Failures \in Nat /\ Failures' = Failures /\ copies \in [Events -> Nat]
    BY <2>1 DEF Relaying, TypeOK, Failures
  <2>4. copies[e] =< Failures
    BY <2>2, <2>3 DEF Counted
  <2>5. copies'[e] =< 1 + Failures' /\ open'[r] /\ e \in sending'[r]
    BY <2>1, <2>3, <2>4 DEF Relaying, TypeOK
  <2>6. ASSUME NEW f \in Events \ {e}
        PROVE  /\ copies'[f] =< 1 + Failures'
               /\ copies'[f] > Failures' =>
                    f \in published' \/ \E s \in Relays : open'[s] /\ f \in sending'[s]
    <3>1. copies'[f] = copies[f] /\ Failures' = Failures
      BY <2>1, <2>3
    <3>2. \A s \in Relays : sending[s] \subseteq sending'[s]
      BY <2>1 DEF Relaying, TypeOK
    <3>3. copies[f] =< 1 + Failures
      BY DEF Counted
    <3>4. ASSUME copies[f] > Failures
          PROVE  f \in published' \/ \E s \in Relays : open'[s] /\ f \in sending'[s]
      BY <2>1, <3>2, <3>4 DEF Counted
    <3> QED
      BY <3>1, <3>3, <3>4
  <2> QED
    BY <2>5, <2>6 DEF Counted
<1>4. ASSUME NEW r \in Relays, Commit(r) PROVE Counted'
  <2>1. /\ UNCHANGED <<copies, interruptions, faults, open>>
        /\ published' = published \cup marked[r]
        /\ sending' = [sending EXCEPT ![r] = {}]
    BY <1>4 DEF Commit, EndPoll, link
  <2>2. sending[r] \subseteq marked[r]
    BY <1>4 DEF Commit, Marked
  <2>3. \A s \in Relays : sending[s] \subseteq sending'[s] \cup published'
    BY <2>1, <2>2 DEF Relaying, TypeOK
  <2> QED
    BY <2>1, <2>3, NothingUndone DEF Failures
<1>5. ASSUME NEW r \in Relays, PublishFails(r) PROVE Counted'
  <2>1. /\ UNCHANGED <<copies, interruptions, faults, published, open>>
        /\ ~open[r] /\ sending' = [sending EXCEPT ![r] = {}]
    BY <1>5 DEF PublishFails, EndPoll, table, link
  <2>2. \A s \in Relays : open[s] => sending[s] \subseteq sending'[s]
    BY <2>1 DEF Relaying, TypeOK
  <2> QED
    BY <2>1, <2>2, NothingUndone DEF Failures
<1>6. ASSUME NEW r \in Relays, SqlFails(r) \/ ChannelClosed(r) \/ Crash(r) PROVE Counted'
  <2>1. copies' = copies
    BY <1>6 DEF SqlFails, ChannelClosed, Crash
  <2>2. \/ interruptions' = interruptions + 1 /\ faults' = faults
        \/ interruptions' = interruptions /\ faults' = faults + 1
    BY <1>6 DEF SqlFails, ChannelClosed, Crash
  <2>3. Failures' = Failures + 1
    BY <2>2 DEF Failures, Relaying, TypeOK
  <2> QED
    BY <2>1, <2>3, FailureCounts DEF Relaying
<1>7. ASSUME NEW r \in Relays, NEW e \in Events, Accept(r, e) PROVE Counted'
  <2>1. UNCHANGED <<copies, interruptions, faults, published, open, sending>>
    BY <1>7 DEF Accept, table, batch
  <2> QED
    BY <2>1, NothingUndone DEF Failures
<1>8. ASSUME NEW r \in Relays, Start(r) PROVE Counted'
  <2>1. /\ UNCHANGED <<copies, interruptions, faults, published, sending>>
        /\ open' = [open EXCEPT ![r] = TRUE]
    BY <1>8 DEF Start, table, batch
  <2>2. \A s \in Relays : open[s] => open'[s]
    BY <2>1 DEF Relaying, TypeOK
  <2> QED
    BY <2>1, <2>2, NothingUndone DEF Failures
<1>9. CASE UNCHANGED vars
  <2>1. UNCHANGED <<copies, interruptions, faults, published, open, sending>>
    BY <1>9 DEF vars, table, batch, link
  <2> QED
    BY <2>1, NothingUndone DEF Failures
<1> QED
  BY <1>1, <1>2, <1>3, <1>4, <1>5, <1>6, <1>7, <1>8, <1>9 DEF Next, Finish

\* A message goes out at most once more than there were failures, whatever the
\* relays do at the same time: neither a tick nor a second relay repeats one.
THEOREM RepublishedOnlyAfterFailureAlways == Spec => []RepublishedOnlyAfterFailure
<1>1. Relaying /\ Counted => RepublishedOnlyAfterFailure
  <2> SUFFICES ASSUME Relaying, Counted, NEW e \in Events
               PROVE  copies[e] =< 1 + interruptions + faults
    BY DEF RepublishedOnlyAfterFailure
  <2>1. copies[e] =< 1 + (interruptions + faults)
    BY DEF Counted, Failures
  <2> QED
    BY <2>1 DEF Relaying, TypeOK
<1> QED
  BY <1>1, RelayingAlways, CountedInit, MarkedStep, CountedStep, PTL DEF Spec
-----------------------------------------------------------------------------
(* Refinement. *)

\* Stage, PublishOne and Commit are the steps of the promise; the others are
\* not seen from the database.
LEMMA PromiseStep == Relaying /\ [Next]_vars => [Promise!Next]_(Promise!vars)
<1> SUFFICES ASSUME Relaying, [Next]_vars
             PROVE  Promise!Next \/ UNCHANGED <<staged, published, handed>>
  BY DEF Promise!vars
<1>1. ASSUME NEW e \in Events, Stage(e) PROVE Promise!Next
  BY <1>1, HandedStep DEF Stage, Promise!Next, Promise!Stage
<1>2. ASSUME NEW r \in Relays, NEW e \in Events, PublishOne(r, e) PROVE Promise!Next
  <2>1. e \in staged \ published
    BY <1>2 DEF PublishOne, IsNext, Relaying, BatchShape
  <2> QED
    BY <1>2, <2>1, HandedStep
    DEF PublishOne, table, Relaying, Promise!Next, Promise!Hand
<1>3. ASSUME NEW r \in Relays, Commit(r) PROVE Promise!Next
  <2>1. marked[r] \subseteq handed \ published
    BY DEF Relaying, BatchShape
  <2>2. marked[r] \in SUBSET Events
    BY DEF Relaying, TypeOK
  <2>3. Promise!MarkPublished(marked[r])
    BY <1>3, <2>1, HandedStep DEF Commit, Promise!MarkPublished
  <2> QED
    BY <2>2, <2>3 DEF Promise!Next
<1>4. CASE UNCHANGED <<staged, published, handed>>
  BY <1>4
<1> QED
  BY <1>1, <1>2, <1>3, <1>4, HandedStep
    DEF Next, vars, Poll, Finish, Mark, PublishFails, SqlFails, Accept, ChannelClosed,
      Crash, Start, table

\* The relays implement OutboxPromise, whatever fails between two calls.
THEOREM ImplementsPromise == Spec => PromiseSpec
<1>1. Init => Promise!Init
  BY DEF Init, Promise!Init, handed
<1> QED
  BY <1>1, PromiseStep, RelayingAlways, PTL DEF Spec, PromiseSpec, Promise!Spec
=============================================================================
