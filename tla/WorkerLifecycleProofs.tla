------------------------- MODULE WorkerLifecycleProofs -------------------------
(***************************************************************************)
(* What holds of a worker process whatever the order of its goroutines,    *)
(* its signal, its connections and the silence of the servers outside.     *)
(***************************************************************************)
EXTENDS WorkerLifecycle, TLAPS

-----------------------------------------------------------------------------
(* The inductive invariant. *)

Flags ==
  {ctxDone, deaf, cut, marked, mailAnswers, dbAnswers, brokerAnswers} \subseteq BOOLEAN

Places ==
  /\ main \in Startup \cup Loop \cup Closing \cup Ended
  /\ handled \in 0..MaxDeliveries
  /\ consumerConn \in {"none", "open", "lost", "closed"}
  /\ relayConn \in {"none", "open", "closing", "lost", "closed"}
  /\ relay \in {"none", "tick", "stopped"} \cup InTx
  /\ frame \in {"unsent", "written", "received", "lost"}
  /\ health \in {"none", "serving", "stopped"}
  /\ probe \in {"none", "pinging"}
  /\ main \in Startup \cup Ended => relay = "none" /\ health = "none" /\ probe = "none"

\* The relay's connection is opened once, last of the start-up, and closed by
\* main after Run only; what was written to it is lost with it, or read before it
\* is closed.  A row that is marked, or about to be, had its frame written.
Channel ==
  /\ main \in Startup => relayConn = "none"
  /\ relayConn \in {"closing", "closed"} => main \in Closing \cup {"exit 0"}
  /\ relayConn = "none" => frame = "unsent"
  /\ relayConn = "open" => frame # "lost"
  /\ relayConn = "closed" => frame # "written"
  /\ relay \in {"mark", "commit"} \/ marked => frame # "unsent"

\* Run returns on a signal, or deaf.
LeavesForCause == main \in Closing \cup {"exit 0"} /\ ~deaf => ctxDone

\* Once relayCh.Close is under way after a signal, what is marked, or whose
\* COMMIT is sent, was written before.
WrittenBeforeClose ==
  relayConn \in {"closing", "closed"} /\ ~deaf /\ (marked \/ relay = "commit")
    => frame \in {"written", "received"}

Wire == Channel /\ LeavesForCause /\ WrittenBeforeClose
IInv == Flags /\ Places /\ Wire

\* Before main has done anything all three parts hold.
LEMMA InitIInv == Init => IInv
<1>1. Init => Flags
  BY DEF Init, Flags
<1>2. Init => Places
  BY BoundAssumption DEF Init, Places, Startup, Loop, Closing, Ended, InTx
<1>3. Init => Wire
  BY DEF Init, Wire, Channel, LeavesForCause, WrittenBeforeClose, Closing
<1>. QED
  BY <1>1, <1>2, <1>3 DEF IInv

\* The flags are set to booleans, or left alone, by every step.
LEMMA FlagsKept == Flags /\ [Next]_vars => Flags'
BY Zenon DEF Flags, Next, vars, outside, run, consumer, row, server, Up, Fatal, End,
   MainStep, SetUp, Dial, DialRelay, StartupFails, RunStarts, Consumes, RunRefused,
   RunReturns, Receive, LookUp, Send, Save, Settle, SendClose, CloseRelay,
   CloseConsumer, ClosePool, FlushTraces,
   RelayStep, Tick, Query, Publish, Mark, Commit, RelayStops,
   HealthStep, PingStarts, PingReturns, ProberLeaves, HealthStops,
   Happens, Sigterm, ConsumerCut, RelayConnLost, BrokerReads, OutsideChanges
-----------------------------------------------------------------------------
(* Steps that leave the relay and its connection alone. *)

\* main stays in its phase, ctx stays done: nothing on the wire is concerned.
LEMMA WireKept ==
  ASSUME IInv, UNCHANGED <<deaf, relayConn, relay, frame, marked>>, ctxDone => ctxDone',
         main' = main \/ \E P \in {Startup, Loop, Closing} : main \in P /\ main' \in P
  PROVE  Wire'
<1>1. /\ main' \in Startup => main \in Startup
      /\ main \in Closing \cup {"exit 0"} <=> main' \in Closing \cup {"exit 0"}
  BY DEF Startup, Loop, Closing
<1>2. Channel'
  BY <1>1 DEF IInv, Wire, Channel
<1>3. LeavesForCause'
  BY <1>1 DEF IInv, Wire, LeavesForCause
<1>4. WrittenBeforeClose'
  BY DEF IInv, Wire, WrittenBeforeClose
<1>. QED
  BY <1>2, <1>3, <1>4 DEF Wire

\* From one call of main to the next of the same phase.
LEMMA MoveKept ==
  ASSUME IInv, UNCHANGED <<ctxDone, deaf, relayConn, relay, frame, marked, health, probe>>,
         handled' \in 0..MaxDeliveries,
         consumerConn' \in {"none", "open", "lost", "closed"},
         NEW P \in {Startup, Loop, Closing}, main \in P, main' \in P
  PROVE  Places' /\ Wire'
<1>0. /\ main' \in Startup \cup Loop \cup Closing
      /\ main' \in Startup \cup Ended => main \in Startup
  BY DEF Startup, Loop, Closing, Ended
<1>1. Places'
  BY <1>0 DEF IInv, Places
<1>2. Wire'
  BY WireKept
<1>. QED
  BY <1>1, <1>2
-----------------------------------------------------------------------------
(* The ways a process ends. *)

\* What log.Fatal and the return of main leave behind: no goroutine, no open
\* connection, no frame that could still arrive under a lost connection.
LEMMA EndKept ==
  ASSUME IInv, NEW code \in Ended, End(code), UNCHANGED <<handled, ctxDone, deaf, marked>>,
         code = "exit 0" => main \in Closing,
         code = "exit 1" => main \notin Closing \cup {"exit 0"}
  PROVE  Places' /\ Wire'
<1>1. Places'
  BY DEF IInv, Places, End, Startup, Loop, Closing, Ended, InTx
<1>2. Channel'
  BY DEF IInv, Places, Wire, Channel, End, Startup, Closing, Ended
<1>3. LeavesForCause'
  BY DEF IInv, Wire, LeavesForCause, End, Closing, Ended
<1>4. WrittenBeforeClose'
  BY DEF IInv, Wire, WrittenBeforeClose, End
<1>. QED
  BY <1>1, <1>2, <1>3, <1>4 DEF Wire
-----------------------------------------------------------------------------
(* main. *)

\* main, from start-up through the loop to its deferred calls.
LEMMA MainKept == ASSUME IInv, MainStep \/ StartupFails \/ Receive PROVE Places' /\ Wire'
<1>. USE DEF run, consumer, row, server
<1>0. /\ handled \in 0..MaxDeliveries
      /\ consumerConn \in {"none", "open", "lost", "closed"}
  BY DEF IInv, Places
<1>1. CASE SetUp \/ Dial
  <2>1. /\ UNCHANGED <<ctxDone, deaf, relayConn, relay, frame, marked, health, probe, handled>>
        /\ main \in Startup /\ main' \in Startup
        /\ consumerConn' \in {consumerConn, "open"}
    BY <1>1 DEF SetUp, Dial, Startup
  <2>. QED
    BY <1>0, <2>1, MoveKept
<1>2. CASE DialRelay
  <2>1. Places'
    BY <1>2 DEF IInv, Places, DialRelay, Startup, Loop, Closing, Ended, InTx
  <2>2. Channel'
    BY <1>2 DEF IInv, Places, Wire, Channel, DialRelay, Startup, Loop, Closing
  <2>3. LeavesForCause' /\ WrittenBeforeClose'
    BY <1>2 DEF LeavesForCause, WrittenBeforeClose, DialRelay, Closing
  <2>. QED
    BY <2>1, <2>2, <2>3 DEF Wire
<1>3. CASE StartupFails \/ RunRefused
  BY <1>3, EndKept DEF StartupFails, RunRefused, Fatal, Ended, Startup, Closing
<1>4. CASE RunStarts \/ Consumes \/ LookUp \/ Send \/ Save \/ Settle
  <2>1. /\ UNCHANGED <<ctxDone, deaf, relayConn, relay, frame, marked, health, probe>>
        /\ UNCHANGED <<handled, consumerConn>>
        /\ main \in Loop /\ main' \in Loop
    BY <1>4 DEF RunStarts, Consumes, LookUp, Send, Save, Settle, Loop
  <2>. QED
    BY <1>0, <2>1, MoveKept
<1>5. CASE Receive
  <2>1. /\ UNCHANGED <<ctxDone, deaf, relayConn, relay, frame, marked, health, probe>>
        /\ UNCHANGED consumerConn
        /\ main \in Loop /\ main' \in Loop
    BY <1>5 DEF Receive, Loop
  <2>2. handled' \in 0..MaxDeliveries
    <3>1. handled < MaxDeliveries /\ handled' = handled + 1
      BY <1>5 DEF Receive
    <3>. QED
      BY <1>0, <3>1, BoundAssumption
  <2>. QED
    BY <1>0, <2>1, <2>2, MoveKept
<1>6. CASE RunReturns
  \* Its guard is the cause; nothing is closed yet.
  <2>0. deaf' = ~ctxDone
    BY <1>6, Zenon DEF RunReturns
  <2>7. ctxDone' = ctxDone
    BY <1>6 DEF RunReturns
  <2>1. /\ main \in Loop /\ main' = "close relay"
        /\ UNCHANGED <<relayConn, relay, frame, marked, health, probe>>
        /\ UNCHANGED <<handled, consumerConn>>
    BY <1>6 DEF RunReturns, Loop
  <2>2. relayConn \notin {"closing", "closed"}
    BY <2>1 DEF IInv, Wire, Channel, Loop, Closing
  <2>3. Places'
    BY <2>1 DEF IInv, Places, Startup, Closing, Ended
  <2>4. Channel'
    BY <2>1, <2>2 DEF IInv, Wire, Channel, Startup
  <2>5. LeavesForCause'
    BY <2>0, <2>7, Zenon DEF LeavesForCause
  <2>6. WrittenBeforeClose'
    BY <2>1, <2>2 DEF WrittenBeforeClose
  <2>. QED
    BY <2>3, <2>4, <2>5, <2>6 DEF Wire
<1>7. CASE SendClose
  \* What is marked is not lost while the connection is open.
  <2>1. Places'
    BY <1>7 DEF IInv, Places, SendClose
  <2>2. Channel'
    BY <1>7 DEF IInv, Wire, Channel, SendClose, Startup, Closing
  <2>3. LeavesForCause'
    BY <1>7 DEF IInv, Wire, LeavesForCause, SendClose
  <2>4. WrittenBeforeClose'
    BY <1>7 DEF IInv, Places, Wire, Channel, WrittenBeforeClose, SendClose
  <2>. QED
    BY <2>1, <2>2, <2>3, <2>4 DEF Wire
<1>8. CASE CloseRelay
  \* What was written is read before the connection counts as closed.
  <2>1. Places'
    BY <1>8 DEF IInv, Places, CloseRelay, Startup, Closing, Ended
  <2>2. Channel'
    BY <1>8 DEF IInv, Places, Wire, Channel, CloseRelay, Startup, Closing
  <2>3. LeavesForCause'
    BY <1>8 DEF IInv, Wire, LeavesForCause, CloseRelay, Closing
  <2>4. WrittenBeforeClose'
    BY <1>8 DEF IInv, Wire, WrittenBeforeClose, CloseRelay
  <2>. QED
    BY <2>1, <2>2, <2>3, <2>4 DEF Wire
<1>9. CASE CloseConsumer \/ ClosePool
  <2>1. /\ UNCHANGED <<ctxDone, deaf, relayConn, relay, frame, marked, health, probe, handled>>
        /\ main \in Closing /\ main' \in Closing
        /\ consumerConn' \in {consumerConn, "closed"}
    BY <1>9 DEF CloseConsumer, ClosePool, Closing
  <2>. QED
    BY <1>0, <2>1, MoveKept
<1>10. CASE FlushTraces
  BY <1>10, EndKept DEF FlushTraces, Ended, Closing
<1>. QED
  BY <1>1, <1>2, <1>3, <1>4, <1>5, <1>6, <1>7, <1>8, <1>9, <1>10 DEF MainStep
-----------------------------------------------------------------------------
(* The relay goroutine, the health server, and what happens to the process. *)

\* The relay, statement by statement.
LEMMA RelayKept == ASSUME IInv, RelayStep PROVE Places' /\ Wire'
<1>. USE DEF run, consumer, row, server
<1>1. CASE Tick \/ Query \/ RelayStops
  <2>1. /\ UNCHANGED <<main, ctxDone, deaf, relayConn, frame, marked, health, probe>>
        /\ UNCHANGED <<handled, consumerConn>>
        /\ relay # "none" /\ relay' \in {"tick", "query", "publish", "stopped"}
    BY <1>1, Zenon DEF Tick, Query, RelayStops, StatementReturns
  <2>2. Places'
    BY <2>1 DEF IInv, Places, InTx
  <2>3. Wire'
    BY <2>1 DEF IInv, Wire, Channel, LeavesForCause, WrittenBeforeClose
  <2>. QED
    BY <2>2, <2>3
<1>2. CASE Publish
  \* A copy that is with the broker, or on its way, is not taken back.
  <2>1. /\ UNCHANGED <<main, ctxDone, deaf, relayConn, marked, health, probe>>
        /\ UNCHANGED <<handled, consumerConn>>
        /\ relay = "publish" /\ relay' \in {"mark", "tick"}
    BY <1>2 DEF Publish
  <2>2. /\ frame \in {"received", "written"} => frame' = frame
        /\ frame' # frame => /\ relayConn \in {"open", "closing"}
                             /\ frame' = IF relayConn = "open" THEN "written" ELSE "lost"
        /\ relay' = "mark" => relayConn # "none" /\ frame' # "unsent"
    BY <1>2 DEF Publish
  <2>3. Places'
    BY <2>1, <2>2 DEF IInv, Places, InTx
  <2>4. Channel'
    BY <2>1, <2>2 DEF IInv, Wire, Channel
  <2>5. LeavesForCause'
    BY <2>1 DEF IInv, Wire, LeavesForCause
  <2>6. WrittenBeforeClose'
    BY <2>1, <2>2 DEF IInv, Wire, WrittenBeforeClose
  <2>. QED
    BY <2>3, <2>4, <2>5, <2>6 DEF Wire
<1>3. CASE Mark
  \* With ctx done it fails, and after a signal ctx is done when the channel is
  \* being closed.
  <2>1. /\ UNCHANGED <<main, ctxDone, deaf, relayConn, frame, marked, health, probe>>
        /\ UNCHANGED <<handled, consumerConn>>
        /\ relay = "mark" /\ relay' \in {"commit", "tick"}
        /\ relay' = "commit" => ~ctxDone
    BY <1>3 DEF Mark, StatementReturns
  <2>2. Places'
    BY <2>1 DEF IInv, Places, InTx
  <2>3. Channel' /\ LeavesForCause'
    BY <2>1 DEF IInv, Wire, Channel, LeavesForCause
  <2>4. WrittenBeforeClose'
    BY <2>1 DEF IInv, Wire, Channel, LeavesForCause, WrittenBeforeClose
  <2>. QED
    BY <2>2, <2>3, <2>4 DEF Wire
<1>4. CASE Commit
  <2>1. /\ UNCHANGED <<main, ctxDone, deaf, relayConn, frame, health, probe>>
        /\ UNCHANGED <<handled, consumerConn>>
        /\ relay = "commit" /\ relay' = "tick"
    BY <1>4 DEF Commit
  <2>2. Places'
    BY <2>1 DEF IInv, Places, InTx
  <2>3. Channel' /\ LeavesForCause' /\ WrittenBeforeClose'
    BY <2>1 DEF IInv, Wire, Channel, LeavesForCause, WrittenBeforeClose
  <2>. QED
    BY <2>2, <2>3 DEF Wire
<1>. QED
  BY <1>1, <1>2, <1>3, <1>4 DEF RelayStep

\* The health server.
LEMMA HealthKept == ASSUME IInv, HealthStep PROVE Places' /\ Wire'
<1>. USE DEF run, consumer, row, server
<1>1. /\ UNCHANGED <<main, ctxDone, deaf, relayConn, relay, frame, marked>>
      /\ UNCHANGED <<handled, consumerConn>>
      /\ health' \in {health, "stopped"} /\ probe' \in {"none", "pinging"}
      /\ health # "none" \/ probe # "none"
  BY DEF HealthStep, PingStarts, PingReturns, ProberLeaves, HealthStops, IInv, Places
<1>2. Places'
  BY <1>1 DEF IInv, Places
<1>3. Wire'
  BY <1>1, WireKept
<1>. QED
  BY <1>2, <1>3

\* Signals, connections, the broker and the servers outside.
LEMMA HappensKept == ASSUME IInv, Happens PROVE Places' /\ Wire'
<1>. USE DEF run, consumer, row, server
<1>1. CASE Sigterm \/ ConsumerCut \/ OutsideChanges
  <2>1. UNCHANGED <<main, deaf, relayConn, relay, frame, marked, health, probe, handled>>
    BY <1>1 DEF Sigterm, ConsumerCut, OutsideChanges
  <2>0. ctxDone => ctxDone'
    BY <1>1, Zenon DEF Sigterm, ConsumerCut, OutsideChanges
  <2>2. consumerConn' \in {consumerConn, "open", "lost"}
    BY <1>1 DEF Sigterm, ConsumerCut, OutsideChanges
  <2>3. Places'
    BY <2>1, <2>2 DEF IInv, Places
  <2>4. Wire'
    BY <2>0, <2>1, WireKept
  <2>. QED
    BY <2>3, <2>4
<1>2. CASE RelayConnLost
  <2>1. Places'
    BY <1>2 DEF IInv, Places, RelayConnLost
  <2>2. Channel' /\ LeavesForCause' /\ WrittenBeforeClose'
    BY <1>2 DEF IInv, Wire, Channel, LeavesForCause, WrittenBeforeClose, RelayConnLost, Startup
  <2>. QED
    BY <2>1, <2>2 DEF Wire
<1>3. CASE BrokerReads
  <2>1. Places'
    BY <1>3 DEF IInv, Places, BrokerReads
  <2>2. Channel' /\ LeavesForCause' /\ WrittenBeforeClose'
    BY <1>3 DEF IInv, Wire, Channel, LeavesForCause, WrittenBeforeClose, BrokerReads
  <2>. QED
    BY <2>1, <2>2 DEF Wire
<1>. QED
  BY <1>1, <1>2, <1>3 DEF Happens
-----------------------------------------------------------------------------
LEMMA NextIInv == IInv /\ [Next]_vars => IInv'
<1>. SUFFICES ASSUME IInv, [Next]_vars PROVE Places' /\ Wire'
  BY FlagsKept DEF IInv
<1>1. CASE UNCHANGED vars
  <2>1. Places'
    BY <1>1 DEF IInv, Places, vars, run, consumer, row, server
  <2>2. Wire'
    BY <1>1, WireKept DEF vars, run, consumer, row
  <2>. QED
    BY <2>1, <2>2
<1>2. CASE Next
  BY <1>2, MainKept, RelayKept, HealthKept, HappensKept DEF Next
<1>. QED
  BY <1>1, <1>2

\* IInv holds in every behaviour of the process, fair or not.
THEOREM Invariance == Spec => []IInv
BY InitIInv, NextIInv, PTL DEF Spec

\* The process is well typed; during start-up and after its end it has neither
\* relay nor health server.
THEOREM TypeCorrect == Spec => []TypeOK
<1>1. IInv => TypeOK
  BY Zenon DEF IInv, Flags, Places, TypeOK
<1>. QED
  BY <1>1, Invariance, PTL

\* A process that was stopped by a signal, and whose relay connection was not
\* lost, has delivered to the broker every message its relay marked published,
\* though the relay may go on publishing while its channel is being closed.
THEOREM CleanExitLosesNothingAlways == Spec => []CleanExitLosesNothing
<1>1. IInv => CleanExitLosesNothing
  BY DEF IInv, Places, Wire, Channel, WrittenBeforeClose, CleanExitLosesNothing
<1>. QED
  BY <1>1, Invariance, PTL
=============================================================================
