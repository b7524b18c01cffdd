---------------------------- MODULE RunnerProofs ----------------------------
(***************************************************************************)
(* Theorems about the runner, for every number of runs, steps, crashes,    *)
(* faults and recoveries, and whatever is stopped or happens outside.      *)
(***************************************************************************)
EXTENDS Runner, TLAPS

(***************************************************************************)
(* What the head's edits return                                            *)
(***************************************************************************)

(* startTurn leaves a turn, whatever it is asked. *)
LEMMA StartTurnType ==
    ASSUME NEW t \in Turns \cup {NoTurn}, NEW r \in Runs, NEW asked \in Runs,
           NEW edit \in BOOLEAN, NEW from \in Points
    PROVE  StartTurn(t, r, asked, edit, from) \in Turns
<1>1. (IF edit \/ t = NoTurn THEN asked ELSE t.msg) \in Runs
    BY DEF Turns
<1>2. (IF from = NoPoint THEN NoReply ELSE RunningReply(from))
        \in [status : {"none", "running"}, steps : Counts, note : {"plain"}]
    BY ConstantsAssumption DEF Points, Counts, NoPoint, NoReply, RunningReply
<1> QED
    BY <1>1, <1>2 DEF Turns, StartTurn

(* withProgress keeps a turn a turn. *)
LEMMA WithProgressType ==
    ASSUME NEW t \in Turns, NEW n \in Counts
    PROVE  WithProgress(t, n) \in Turns
BY DEF Turns, WithProgress, RunningReply

(* withEnd ends the reply of the turn it is given, and keeps its owner. *)
LEMMA WithEndType ==
    ASSUME NEW t \in Turns, NEW reply \in Replies
    PROVE  /\ WithEnd(t, reply) \in Turns
           /\ WithEnd(t, reply) # NoTurn
           /\ WithEnd(t, reply).owner = t.owner
           /\ HasEnded(WithEnd(t, reply))
BY DEF Turns, WithEnd, Replies, NoTurn, HasEnded, Runs, NoRun

(* What can be read of a turn, saved or not: steps, an owner, an end. *)
LEMMA TurnReplyType ==
    ASSUME NEW t \in Turns \cup {NoTurn}
    PROVE  /\ t.reply.steps \in Counts
           /\ t.owner \in Runs \cup {NoRun}
           /\ HasEnded(t) => t.reply \in Replies /\ t \in Turns
BY ConstantsAssumption DEF Turns, NoTurn, NoReply, Counts, HasEnded, EndStatuses, Replies

(* What the head holds to carry on from is a resume point. *)
LEMMA ResumePointType ==
    ASSUME NEW t \in Turns \cup {NoTurn}
    PROVE  ResumeOf(t) \in Points /\ InterruptedResume(t) \in Points
BY ConstantsAssumption, TurnReplyType
   DEF ResumeOf, InterruptedResume, Points, Counts, NoPoint

(* What `run-ended` says is typed, and an end. *)
LEMMA RunEndedType ==
    ASSUME NEW status \in EventStatuses, NEW messages \in Counts
    PROVE  /\ RunEnded(status, messages) \in Events
           /\ RunEnded(status, messages).status = status
           /\ RunEnded(status, messages).messages = messages
           /\ IsEnd(RunEnded(status, messages))
BY DEF RunEnded, Events, IsEnd

(* A reply that ended has a status to journal. *)
LEMMA StatusType == ASSUME NEW reply \in Replies PROVE StatusOf(reply) \in EventStatuses
BY DEF Replies, StatusOf, EventStatuses, EndStatuses

(* The event of a reply that ended is a `run-ended` with its status. *)
LEMMA EndedEventType ==
    ASSUME NEW reply \in Replies
    PROVE  /\ EndedEvent(reply) \in Events
           /\ EndedEvent(reply).status = StatusOf(reply)
           /\ EndedEvent(reply).status \in EventStatuses
           /\ EndedEvent(reply).messages = reply.steps
           /\ IsEnd(EndedEvent(reply))
<1>1. reply.steps \in Counts
    BY DEF Replies
<1> QED
    BY <1>1, StatusType, RunEndedType DEF EndedEvent

(* The replies the runner ends with are EndedReplies. *)
LEMMA ReplyType ==
    ASSUME NEW status \in EndStatuses, NEW n \in Counts, NEW note \in Notes
    PROVE  Reply(status, n, note) \in Replies
BY DEF Reply, Replies

(* How the runner's replies end, as the journal says it.                   *)
LEMMA StatusOfReply ==
    ASSUME NEW n
    PROVE  /\ StatusOf(Reply("done", n, "ranOut")) = "ran_out"
           /\ StatusOf(Reply("done", n, "plain")) = "done"
           /\ StatusOf(Reply("aborted", n, "plain")) = "stopped"
           /\ StatusOf(Reply("error", n, "plain")) = "error"
           /\ StatusOf(Reply("error", n, "interrupted")) = "error"
BY DEF Reply, StatusOf

(* `run-started` is an event, and no end. *)
LEMMA RunStartedType == RunStarted \in Events /\ ~IsEnd(RunStarted)
BY DEF RunStarted, Events, IsEnd

(* Whatever a retry carries on from is a resume point. *)
LEMMA RetryPointType ==
    ASSUME TypeOK
    PROVE  RetryPoint \in Points
<1>1. ResumeOf(turn) \in Points /\ InterruptedResume(turn) \in Points
    BY ResumePointType DEF TypeOK, TurnOK
<1>2. LeftPoint \subseteq Points
    BY DEF LeftPoint, PreviousSuccess, TypeOK, WorkflowsOK, Outputs
<1>3. NoPoint \in Points
    BY DEF Points
<1> QED
    BY <1>1, <1>2, <1>3 DEF RetryPoint

(***************************************************************************)
(* Type correctness.  It is not inductive alone: a call asked for belongs  *)
(* to a step, which is what Finished takes away, and a pass that saves or  *)
(* journals its end has one.                                               *)
(***************************************************************************)
CallHasStep(e) == e.call # "none" => e.mem > 0
EndStands(e) ==
    e.pc \in {"endSave", "endJournal"} => e.reply \in Replies /\ e.out.status = StatusOf(e.reply)
SoundExecution(e) == e \in Executions /\ CallHasStep(e) /\ EndStands(e)
ExecutionsSound == \A r \in Runs : CallHasStep(ex[r]) /\ EndStands(ex[r])
TypeInv == TypeOK /\ ExecutionsSound

(* Setting one execution to a sound one keeps them all typed and sound. *)
LEMMA SetSound ==
    ASSUME TypeInv, NEW r \in Runs, NEW e, SoundExecution(e), Set(r, e)
    PROVE  ExecutionsOK' /\ ExecutionsSound'
BY DEF TypeInv, TypeOK, ExecutionsOK, ExecutionsSound, SoundExecution, Set

(* A process that runs nothing is sound. *)
LEMMA IdleSound == SoundExecution(Idle)
BY ConstantsAssumption
   DEF SoundExecution, Idle, Executions, CallHasStep, EndStands, Pcs, Points, Counts,
       Whys, NoPoint, NoOutput, Outputs

(* The invariant holds before anything has started. *)
LEMMA InitTypes == Init => TypeInv
<1> SUFFICES ASSUME Init PROVE TypeInv
    OBVIOUS
<1>1. WorkflowsOK /\ JournalOK /\ StopsOK /\ GrantsOK /\ TurnOK /\ SweepOK
    BY BoundsAssumption, ConstantsAssumption
       DEF Init, WorkflowsOK, JournalOK, StopsOK, GrantsOK, TurnOK, SweepOK, Kinds, Begun,
           Outputs, NoOutput, Points, NoPoint
<1>2. HeardOK /\ LineagesOK /\ BoundsOK
    BY BoundsAssumption, ConstantsAssumption DEF Init, HeardOK, LineagesOK, BoundsOK
<1>3. ExecutionsOK /\ ExecutionsSound
    BY IdleSound DEF Init, ExecutionsOK, ExecutionsSound, SoundExecution
<1> QED
    BY <1>1, <1>2, <1>3 DEF TypeInv, TypeOK

(* What an action leaves alone keeps its type. *)
LEMMA FrameTypes ==
    ASSUME TypeInv
    PROVE  /\ UNCHANGED workflows => WorkflowsOK'
           /\ UNCHANGED jrnl => JournalOK'
           /\ UNCHANGED stops => StopsOK'
           /\ UNCHANGED grants => GrantsOK'
           /\ UNCHANGED turn => TurnOK'
           /\ UNCHANGED ex => ExecutionsOK' /\ ExecutionsSound'
           /\ UNCHANGED sweep => SweepOK'
           /\ UNCHANGED <<heard, ends>> => HeardOK'
           /\ UNCHANGED lineages => LineagesOK'
           /\ UNCHANGED bounds => BoundsOK'
<1> USE DEF TypeInv, TypeOK
<1>1. UNCHANGED workflows => WorkflowsOK'
    BY DEF WorkflowsOK, workflows
<1>2. UNCHANGED jrnl => JournalOK'
    BY DEF JournalOK
<1>3. UNCHANGED stops => StopsOK'
    BY DEF StopsOK, stops
<1>4. UNCHANGED grants => GrantsOK'
    BY DEF GrantsOK, grants
<1>5. UNCHANGED turn => TurnOK'
    BY DEF TurnOK
<1>6. UNCHANGED ex => ExecutionsOK' /\ ExecutionsSound'
    BY DEF ExecutionsOK, ExecutionsSound, CallHasStep, EndStands
<1>7. UNCHANGED sweep => SweepOK'
    BY DEF SweepOK
<1>8. UNCHANGED <<heard, ends>> => HeardOK'
    BY DEF HeardOK, ends
<1>9. UNCHANGED lineages => LineagesOK'
    BY DEF LineagesOK, lineages
<1>10. UNCHANGED bounds => BoundsOK'
    BY DEF BoundsOK, bounds
<1> QED
    BY <1>1, <1>2, <1>3, <1>4, <1>5, <1>6, <1>7, <1>8, <1>9, <1>10

(* A call that worked, or failed within the bound, keeps the bounds typed. *)
LEMMA FaultTypes ==
    ASSUME TypeInv, UNCHANGED crashes,
           StoreWorks \/ StoreFails \/ Fault \/ UNCHANGED faults
    PROVE  BoundsOK'
BY BoundsAssumption DEF TypeInv, TypeOK, BoundsOK, StoreWorks, StoreFails, Fault

(* A step that changes one execution, soundly, and no shared state. *)
LEMMA ExecutionTypes ==
    ASSUME TypeInv, NEW r \in Runs, NEW e, SoundExecution(e), Set(r, e),
           UNCHANGED shared, BoundsOK'
    PROVE  TypeInv'
<1>1. ExecutionsOK' /\ ExecutionsSound'
    BY SetSound
<1> QED
    BY <1>1, FrameTypes DEF TypeInv, TypeOK, shared, history

(* A pass that goes to end its reply is sound: it has a reply to save. *)
LEMMA EndWithSound ==
    ASSUME NEW e, e \in Executions, NEW reply \in Replies, NEW resume \in Points
    PROVE  SoundExecution(EndWith(e, StatusOf(reply), reply, resume))
<1>1. [status |-> StatusOf(reply), resume |-> resume] \in Outputs
    BY StatusType DEF Outputs
<1>2. e.emits \in {"open", "start", "broken"}
    BY DEF Executions
<1> QED
    BY <1>1, <1>2, IdleSound
       DEF EndWith, SoundExecution, Idle, Executions, CallHasStep, EndStands, Pcs

(* A process that only moves on, or is told to stop. *)
LEMMA MoveSound ==
    ASSUME TypeInv, NEW r \in Runs, NEW pc \in Pcs,
           pc \in {"endSave", "endJournal"} =>
               ex[r].reply \in Replies /\ ex[r].out.status = StatusOf(ex[r].reply)
    PROVE  /\ SoundExecution([ex[r] EXCEPT !.pc = pc])
           /\ Goto(r, pc) => Set(r, [ex[r] EXCEPT !.pc = pc])
<1>1. SoundExecution(ex[r])
    BY DEF TypeInv, TypeOK, ExecutionsOK, ExecutionsSound, SoundExecution
<1>2. SoundExecution([ex[r] EXCEPT !.pc = pc])
    BY <1>1 DEF SoundExecution, Executions, CallHasStep, EndStands
<1>3. Goto(r, pc) => Set(r, [ex[r] EXCEPT !.pc = pc])
    BY DEF Goto, Set
<1> QED
    BY <1>2, <1>3

(* So is one whose abort signal was raised. *)
LEMMA WhySound ==
    ASSUME TypeInv, NEW r \in Runs, NEW why \in Whys
    PROVE  SoundExecution([ex[r] EXCEPT !.why = why])
<1>1. SoundExecution(ex[r])
    BY DEF TypeInv, TypeOK, ExecutionsOK, ExecutionsSound, SoundExecution
<1> QED
    BY <1>1 DEF SoundExecution, Executions, CallHasStep, EndStands

(* A process that starts, or starts a part of the workflow afresh.         *)
LEMMA IdleTypes ==
    ASSUME TypeInv, NEW r \in Runs
    PROVE  /\ Set(r, Idle) => ExecutionsOK' /\ ExecutionsSound'
           /\ \A pc \in Pcs \ {"endSave", "endJournal"} :
                 Set(r, [Idle EXCEPT !.pc = pc]) => ExecutionsOK' /\ ExecutionsSound'
           /\ \A out \in Outputs :
                 Set(r, [Idle EXCEPT !.pc = "passDone", !.out = out])
                     => ExecutionsOK' /\ ExecutionsSound'
<1>1. ASSUME NEW pc \in Pcs \ {"endSave", "endJournal"}
      PROVE  SoundExecution([Idle EXCEPT !.pc = pc])
    BY IdleSound DEF SoundExecution, Executions, CallHasStep, EndStands, Idle
<1>2. ASSUME NEW out \in Outputs
      PROVE  SoundExecution([Idle EXCEPT !.pc = "passDone", !.out = out])
    BY IdleSound DEF SoundExecution, Executions, CallHasStep, EndStands, Idle, Pcs
<1> QED
    BY <1>1, <1>2, IdleSound, SetSound

(* Starting and dequeueing a run keep the invariant. *)
LEMMA StartTypes ==
    ASSUME TypeInv, NEW r \in Runs
    PROVE  /\ (\E kind \in Kinds : Start(r, kind)) => TypeInv'
           /\ Dequeue(r) => TypeInv'
<1>1. ASSUME NEW kind \in Kinds, Start(r, kind) PROVE TypeInv'
    <2>1. turn # NoTurn => turn.msg \in Runs
        BY DEF TypeInv, TypeOK, TurnOK, Turns
    <2>2. (IF kind = "retry" THEN turn.msg ELSE r) \in Runs
        BY <1>1, <2>1 DEF Start
    <2>3. WorkflowsOK' /\ GrantsOK'
        BY <1>1, <2>2 DEF Start, TypeInv, TypeOK, WorkflowsOK, GrantsOK, Active
    <2> QED
        BY <1>1, <2>3, FrameTypes DEF Start, TypeInv, TypeOK, history
<1>2. ASSUME Dequeue(r) PROVE TypeInv'
    <2>1. WorkflowsOK'
        BY <1>2 DEF Dequeue, TypeInv, TypeOK, WorkflowsOK, Active
    <2>2. ExecutionsOK' /\ ExecutionsSound'
        BY <1>2, IdleTypes DEF Dequeue, Pcs
    <2> QED
        BY <1>2, <2>1, <2>2, FrameTypes DEF Dequeue, TypeInv, TypeOK, history
<1> QED
    BY <1>1, <1>2

(* The lineage of calls keeps its type where a begin takes the turn. *)
LEMMA LineageTypes ==
    ASSUME TypeInv, NEW r \in Runs, Lineage(r)
    PROVE  LineagesOK'
<1>1. Begin(r).msg \in Runs
    BY StartTurnType DEF Begin, TypeInv, TypeOK, TurnOK, WorkflowsOK, ExecutionsOK, Executions, Turns
<1>2. PointAnswered \in Runs \cup {NoRun}
    BY DEF PointAnswered, PreviousSuccess, TypeInv, TypeOK, WorkflowsOK, LineagesOK
<1> DEFINE L == [by : Runs \cup {NoRun}, msg : Runs \cup {NoRun}, stale : BOOLEAN, late : BOOLEAN]
<1>3. lineage' \in L
    <2>1. ASSUME NEW m \in Runs \cup {NoRun}, NEW b \in BOOLEAN, NEW c \in BOOLEAN
          PROVE  [lineage EXCEPT !.msg = m, !.stale = b, !.late = c] \in L
        BY DEF TypeInv, TypeOK, LineagesOK
    <2>2. (lineage.stale \/ Outdated(r)) \in BOOLEAN /\ (lineage.late \/ ReadLate(r)) \in BOOLEAN
        OBVIOUS
    <2>3. [lineage EXCEPT !.msg = PointAnswered, !.stale = @ \/ Outdated(r),
                          !.late = @ \/ ReadLate(r)] \in L
        BY <1>2, <2>1, <2>2
    <2>4. CASE ex[r].from \in {NoPoint, 0}
        <3>1. lineage' = [by |-> r, msg |-> Begin(r).msg, stale |-> FALSE, late |-> FALSE]
            BY <2>4 DEF Lineage
        <3> QED
            BY <1>1, <3>1
    <2>5. CASE ex[r].from \notin {NoPoint, 0}
        BY <2>3, <2>5 DEF Lineage
    <2> QED
        BY <2>4, <2>5
<1>4. joined' \in [Runs -> Runs \cup {NoRun}]
    BY DEF Lineage, TypeInv, TypeOK, LineagesOK
<1>5. timesRan' \in [1..StepLimit -> 0..2]
    BY DEF Lineage, TypeInv, TypeOK, LineagesOK
<1> QED
    BY <1>3, <1>4, <1>5 DEF LineagesOK

(* The step `begin` keeps the invariant, at each of its points. *)
LEMMA BeginTypes ==
    ASSUME TypeInv, NEW r \in Runs, BeginRead(r) \/ BeginSave(r) \/ BeginRecord(r) \/ BeginThrows(r)
    PROVE  TypeInv'
<1>1. Begin(r) \in Turns
    BY StartTurnType DEF Begin, TypeInv, TypeOK, TurnOK, WorkflowsOK, ExecutionsOK, Executions
<1>2. CASE BeginRead(r)
    <2>1. (IF input[r].kind = "retry" THEN RetryPoint ELSE NoPoint) \in Points
        BY RetryPointType DEF TypeInv, Points
    <2>2. ex[r] \in Executions /\ CallHasStep(ex[r])
        BY DEF TypeInv, TypeOK, ExecutionsOK, ExecutionsSound
    <2>3. ASSUME NEW stopped \in BOOLEAN, NEW from \in Points
          PROVE  SoundExecution([ex[r] EXCEPT !.pc = "startTurn", !.stopped = stopped, !.from = from])
        BY <2>2 DEF SoundExecution, Executions, CallHasStep, EndStands, Pcs
    <2>4. BoundsOK'
        BY <1>2, FaultTypes DEF BeginRead
    <2>5. StoppedBeforeStart(r) \in BOOLEAN
        BY DEF StoppedBeforeStart
    <2>6. SoundExecution([ex[r] EXCEPT !.pc = "startTurn", !.stopped = StoppedBeforeStart(r),
                            !.from = IF input[r].kind = "retry" THEN RetryPoint ELSE NoPoint])
        BY <2>1, <2>3, <2>5
    <2> QED
        BY <1>2, <2>4, <2>6, ExecutionTypes DEF BeginRead
<1>3. CASE BeginSave(r)
    <2>1. LineagesOK' /\ BoundsOK' /\ TurnOK'
        BY <1>1, <1>3, LineageTypes, FaultTypes DEF BeginSave, TurnOK
    <2>2. ExecutionsOK' /\ ExecutionsSound'
        BY <1>3, MoveSound, SetSound DEF BeginSave, Pcs
    <2> QED
        BY <1>3, <2>1, <2>2, FrameTypes DEF BeginSave, TypeInv, TypeOK
<1>4. CASE BeginRecord(r)
    <2>1. WorkflowsOK'
        BY <1>4 DEF BeginRecord, TypeInv, TypeOK, WorkflowsOK, Begun
    <2>2. ExecutionsOK' /\ ExecutionsSound'
        BY <1>4, IdleTypes DEF BeginRecord, Pcs
    <2> QED
        BY <1>4, <2>1, <2>2, FrameTypes DEF BeginRecord, TypeInv, TypeOK, history
<1>5. CASE BeginThrows(r)
    <2>1. WorkflowsOK' /\ BoundsOK'
        BY <1>5, FaultTypes DEF BeginThrows, TypeInv, TypeOK, WorkflowsOK, Begun
    <2>2. ExecutionsOK' /\ ExecutionsSound'
        BY <1>5, IdleTypes DEF BeginThrows, Pcs
    <2>3. TurnOK' /\ LineagesOK'
        BY <1>1, <1>5, LineageTypes, FrameTypes
           DEF BeginThrows, MayHaveApplied, TypeInv, TypeOK, TurnOK
    <2> QED
        BY <1>5, <2>1, <2>2, <2>3, FrameTypes DEF BeginThrows, TypeInv, TypeOK
<1> QED
    BY <1>2, <1>3, <1>4, <1>5

(* A journal that grows by an event stays a journal. *)
LEMMA AppendTypes ==
    ASSUME TypeInv, NEW r \in Runs, NEW event \in Events, Append1(r, event)
    PROVE  JournalOK'
BY DEF TypeInv, TypeOK, JournalOK, Append1

(* A journal that has ended ends with a `run-ended`, with its status. *)
LEMMA JournalEndType ==
    ASSUME TypeInv, NEW r \in Runs, JournalEnded(r)
    PROVE  jrnl[r][Len(jrnl[r])].status \in EventStatuses
<1>1. jrnl[r] \in Seq(Events) /\ jrnl[r] # <<>> /\ IsEnd(jrnl[r][Len(jrnl[r])])
    BY DEF TypeInv, TypeOK, JournalOK, JournalEnded
<1>2. jrnl[r][Len(jrnl[r])] \in Events
    BY <1>1
<1> QED
    BY <1>1, <1>2 DEF Events, IsEnd

(* The pass keeps the invariant where it reads the journal and the head. *)
LEMMA PassTypes ==
    ASSUME TypeInv, NEW r \in Runs,
           \/ PassAlreadyEnded(r) \/ PassEndsFromHead(r) \/ PassBegins(r) \/ EmitStart(r)
           \/ PassThrows(r)
    PROVE  TypeInv'
<1>0. turn \in Turns \cup {NoTurn} /\ turn.reply.steps \in Counts /\ 0 \in Counts
    BY TurnReplyType, ConstantsAssumption DEF TypeInv, TypeOK, TurnOK, Counts
<1>1. CASE PassAlreadyEnded(r)
    <2>1. BoundsOK'
        BY <1>1, FaultTypes DEF PassAlreadyEnded, PassRead
    <2>2. [status |-> jrnl[r][Len(jrnl[r])].status,
           resume |-> IF turn = NoTurn THEN NoPoint ELSE ResumeOf(turn)] \in Outputs
        BY <1>0, <1>1, JournalEndType, ResumePointType DEF PassAlreadyEnded, Outputs, Points
    <2>3. ExecutionsOK' /\ ExecutionsSound'
        BY <1>1, <2>2, IdleTypes DEF PassAlreadyEnded
    <2> QED
        BY <1>1, <2>1, <2>3, FrameTypes DEF PassAlreadyEnded, TypeInv, TypeOK, shared, history
<1>2. CASE PassEndsFromHead(r)
    <2>1. BoundsOK'
        BY <1>2, FaultTypes DEF PassEndsFromHead, PassRead
    <2>2. turn.reply \in Replies
        BY <1>0, <1>2, TurnReplyType DEF PassEndsFromHead, EndInHead
    <2>3. JournalOK'
        BY <1>2, <2>2, EndedEventType, AppendTypes, FrameTypes DEF PassEndsFromHead
    <2>4. [status |-> StatusOf(turn.reply), resume |-> NoPoint] \in Outputs
        BY <2>2, StatusType DEF Outputs, Points
    <2>5. ExecutionsOK' /\ ExecutionsSound'
        BY <1>2, <2>4, IdleTypes DEF PassEndsFromHead
    <2> QED
        BY <1>2, <2>1, <2>3, <2>5, FrameTypes DEF PassEndsFromHead, TypeInv, TypeOK, history
<1>3. CASE PassBegins(r)
    <2> DEFINE owned   == OwnedBy(turn, r)
               from    == IF owned THEN ResumeOf(turn) ELSE NoPoint
               carried == IF from = NoPoint THEN 0 ELSE from
               emits   == IF jrnl[r] = <<>> THEN "start" ELSE "open"
               e       == [Idle EXCEPT !.mem = carried, !.emits = emits]
    <2>1. BoundsOK'
        BY <1>3, FaultTypes DEF PassBegins, PassRead
    <2>2. HeardOK'
        BY <1>3 DEF PassBegins, TypeInv, TypeOK, HeardOK
    <2>3. carried \in Counts
        BY <1>0, ResumePointType DEF Points
    <2>4. ASSUME NEW b \in {"open", "start"}, NEW n \in Counts
          PROVE  /\ [Idle EXCEPT !.mem = n, !.emits = b] \in Executions
                 /\ SoundExecution([[Idle EXCEPT !.mem = n, !.emits = b] EXCEPT !.pc = "running"])
        BY IdleSound DEF SoundExecution, Executions, CallHasStep, EndStands, Idle, Pcs
    <2>5. emits \in {"open", "start"}
        OBVIOUS
    <2>6. e \in Executions /\ SoundExecution([e EXCEPT !.pc = "running"])
        BY <2>3, <2>4, <2>5
    <2>7. ASSUME NEW reply \in Replies, Set(r, EndWith(e, StatusOf(reply), reply, NoPoint))
          PROVE  ExecutionsOK' /\ ExecutionsSound'
        BY <2>6, <2>7, EndWithSound, SetSound DEF Points
    <2>8. /\ Reply("aborted", carried, "plain") \in Replies
          /\ Reply("done", carried, "ranOut") \in Replies
          /\ Reply("done", turn.reply.steps, "ranOut") \in Replies
        BY <1>0, <2>3, ReplyType DEF EndStatuses, Notes
    <2>9. \/ \E reply \in Replies : Set(r, EndWith(e, StatusOf(reply), reply, NoPoint))
          \/ Set(r, [e EXCEPT !.pc = "running"])
        BY <1>3, <2>8, StatusOfReply DEF PassBegins
    <2>10. ExecutionsOK' /\ ExecutionsSound'
        BY <2>6, <2>7, <2>9, SetSound
    <2> QED
        BY <1>3, <2>1, <2>2, <2>10, FrameTypes DEF PassBegins, TypeInv, TypeOK
<1>5. CASE EmitStart(r)
    <2>1. BoundsOK'
        BY <1>5, FaultTypes DEF EmitStart
    <2>2. JournalOK'
        BY <1>5, RunStartedType, AppendTypes, FrameTypes DEF EmitStart
    <2>3. \A b \in {"open", "broken"} : SoundExecution([ex[r] EXCEPT !.emits = b])
        BY DEF TypeInv, TypeOK, ExecutionsOK, ExecutionsSound, SoundExecution, Executions,
               CallHasStep, EndStands
    <2>4. ExecutionsOK' /\ ExecutionsSound'
        BY <1>5, <2>3, SetSound DEF EmitStart
    <2> QED
        BY <1>5, <2>1, <2>2, <2>4, FrameTypes DEF EmitStart, TypeInv, TypeOK, history
<1>4. CASE PassThrows(r)
    <2>1. BoundsOK'
        BY <1>4, FaultTypes DEF PassThrows
    <2>2. WorkflowsOK'
        <3>1. Threw \in Outputs
            BY DEF Threw, Outputs, Points
        <3> QED
            BY <1>4, <3>1 DEF PassThrows, TypeInv, TypeOK, WorkflowsOK
    <2>3. ExecutionsOK' /\ ExecutionsSound'
        BY <1>4, IdleTypes DEF PassThrows, Pcs
    <2> QED
        BY <1>4, <2>1, <2>2, <2>3, FrameTypes DEF PassThrows, TypeInv, TypeOK, history
<1> QED
    BY <1>1, <1>2, <1>3, <1>4, <1>5

(* So does what the pass does while the model and the tools answer. *)
LEMMA RunningTypes ==
    ASSUME TypeInv, NEW r \in Runs,
           \/ AskCall(r) \/ SaveProgress(r) \/ SaveAnswerLost(r) \/ RunCall(r) \/ FinishStep(r)
           \/ (\E why \in {"ran_out", "paused"} : Abort(r, why)) \/ HearStop(r) \/ CheckCancelled(r)
    PROVE  TypeInv'
<1>0. ex[r] \in Executions /\ SoundExecution(ex[r]) /\ ex[r].mem \in Counts
    BY DEF TypeInv, TypeOK, ExecutionsOK, ExecutionsSound, SoundExecution, Executions
<1>1. CASE AskCall(r)
    <2>1. ex[r].mem + 1 \in Counts /\ ex[r].mem + 1 > 0
        BY <1>0, <1>1, ConstantsAssumption DEF AskCall, Counts
    <2>2. ASSUME NEW n \in Counts, n > 0
          PROVE  SoundExecution([ex[r] EXCEPT !.mem = n, !.saved = FALSE, !.call = "asked"])
        BY <1>0, <1>1, <2>2 DEF AskCall, At, Going, SoundExecution, Executions, CallHasStep, EndStands
    <2>3. SoundExecution([ex[r] EXCEPT !.mem = @ + 1, !.saved = FALSE, !.call = "asked"])
        BY <2>1, <2>2
    <2> QED
        BY <1>1, <2>3, ExecutionTypes, FrameTypes DEF AskCall
<1>2. SaveProgress(r) \/ SaveAnswerLost(r) => TurnOK'
    BY <1>0, WithProgressType
       DEF SaveProgress, SaveAnswerLost, WritableBy, OwnedBy, TypeInv, TypeOK, TurnOK
<1>3. CASE SaveProgress(r)
    <2>1. SoundExecution([ex[r] EXCEPT !.saved = TRUE])
        BY <1>0 DEF SoundExecution, Executions, CallHasStep, EndStands
    <2>2. BoundsOK' /\ ExecutionsOK' /\ ExecutionsSound'
        BY <1>3, <2>1, FaultTypes, SetSound DEF SaveProgress
    <2> QED
        BY <1>2, <1>3, <2>2, FrameTypes DEF SaveProgress, TypeInv, TypeOK, history
<1>4. CASE SaveAnswerLost(r)
    <2>1. BoundsOK'
        BY <1>4, FaultTypes DEF SaveAnswerLost
    <2> QED
        BY <1>2, <1>4, <2>1, FrameTypes DEF SaveAnswerLost, TypeInv, TypeOK, history
<1>5. CASE RunCall(r)
    <2>1. SoundExecution([ex[r] EXCEPT !.call = "running"])
        BY <1>0, <1>5 DEF RunCall, SoundExecution, Executions, CallHasStep, EndStands
    <2>2. ExecutionsOK' /\ ExecutionsSound'
        BY <1>5, <2>1, SetSound DEF RunCall
    <2>3. ex[r].mem \in 1..StepLimit
        BY <1>0, <1>5, ConstantsAssumption DEF RunCall, SoundExecution, CallHasStep, Counts
    <2>4. timesRan[ex[r].mem] \in 0..2 /\ timesRan \in [1..StepLimit -> 0..2]
        BY <2>3 DEF TypeInv, TypeOK, LineagesOK
    <2>5. \E n \in 0..2 : timesRan' = [timesRan EXCEPT ![ex[r].mem] = n]
        <3> DEFINE m == ex[r].mem
                   n == IF joined[r] = lineage.by /\ timesRan[m] < 2
                        THEN timesRan[m] + 1 ELSE timesRan[m]
        <3>1. n \in 0..2
            BY <2>4
        <3>2. timesRan' = [timesRan EXCEPT ![m] = n]
            BY <1>5 DEF RunCall
        <3> QED
            BY <3>1, <3>2
    <2>6. timesRan' \in [1..StepLimit -> 0..2]
        BY <2>4, <2>5
    <2>7. LineagesOK'
        BY <1>5, <2>6 DEF RunCall, TypeInv, TypeOK, LineagesOK
    <2> QED
        BY <1>5, <2>2, <2>7, FrameTypes DEF RunCall, TypeInv, TypeOK
<1>6. CASE FinishStep(r)
    <2>1. SoundExecution([ex[r] EXCEPT !.call = "none"])
        BY <1>0 DEF SoundExecution, Executions, CallHasStep, EndStands
    <2> QED
        BY <1>6, <2>1, ExecutionTypes, FrameTypes DEF FinishStep
<1>7. CASE \E why \in {"ran_out", "paused"} : Abort(r, why)
    BY <1>7, WhySound, ExecutionTypes, FrameTypes DEF Abort, Whys
<1>8. CASE HearStop(r) \/ CheckCancelled(r)
    BY <1>8, WhySound, ExecutionTypes, FrameTypes DEF HearStop, CheckCancelled, Whys
<1> QED
    BY <1>1, <1>3, <1>4, <1>5, <1>6, <1>7, <1>8

(* So do the ways a reply can come out of AgentCore. *)
LEMMA OutcomeTypes ==
    ASSUME TypeInv, NEW r \in Runs, ReplyDone(r) \/ ReplyFails(r) \/ ReplyAborted(r)
    PROVE  TypeInv'
<1>0. ex[r] \in Executions /\ CallHasStep(ex[r]) /\ ex[r].mem \in Counts
    BY DEF TypeInv, TypeOK, ExecutionsOK, ExecutionsSound, Executions
<1>1. Finished(r) \in Counts
    BY <1>0, ConstantsAssumption DEF Finished, Counts, CallHasStep
<1>2. LeavesPoint(r) \in Points /\ NoPoint \in Points
    BY <1>0 DEF LeavesPoint, Points
<1>3. turn.reply.steps \in Counts
    BY TurnReplyType DEF TypeInv, TypeOK, TurnOK
<1>4. \E reply \in Replies, resume \in Points :
          Set(r, EndWith(ex[r], StatusOf(reply), reply, resume)) /\ UNCHANGED <<shared, bounds>>
    <2>1. CASE ReplyDone(r)
        <3> DEFINE note == IF ex[r].mem + 1 >= StepLimit THEN "ranOut" ELSE "plain"
        <3>1. Reply("done", ex[r].mem, note) \in Replies
            BY <1>0, ReplyType DEF EndStatuses, Notes
        <3> QED
            BY <1>2, <2>1, <3>1, StatusOfReply DEF ReplyDone
    <2>2. CASE ReplyFails(r)
        <3>1. Reply("error", Finished(r), "plain") \in Replies
            BY <1>1, ReplyType DEF EndStatuses, Notes
        <3> QED
            BY <1>2, <2>2, <3>1, StatusOfReply DEF ReplyFails
    <2>3. CASE ReplyAborted(r)
        <3> DEFINE kept == IF StoreReachable /\ turn # NoTurn /\ ~HasEnded(turn)
                           THEN turn.reply.steps ELSE Finished(r)
        <3>1. /\ Reply("aborted", Finished(r), "plain") \in Replies
              /\ Reply("done", Finished(r), "ranOut") \in Replies
              /\ Reply("error", kept, "interrupted") \in Replies
            BY <1>1, <1>3, ReplyType DEF EndStatuses, Notes
        <3> QED
            BY <1>2, <2>3, <3>1, StatusOfReply DEF ReplyAborted
    <2> QED
        BY <2>1, <2>2, <2>3
<1> QED
    BY <1>0, <1>4, EndWithSound, ExecutionTypes, FrameTypes

(* So do the saves and the journal write that end the reply. *)
LEMMA EndTypes ==
    ASSUME TypeInv, NEW r \in Runs,
           EndSave(r) \/ EndSaveFails(r) \/ EndJournal(r) \/ PassRecord(r)
    PROVE  TypeInv'
<1>0. ex[r] \in Executions /\ EndStands(ex[r]) /\ ex[r].out \in Outputs
    BY DEF TypeInv, TypeOK, ExecutionsOK, ExecutionsSound, Executions
<1>1. EndSave(r) \/ EndSaveFails(r) => EndSaved(r) \in Turns \cup {NoTurn}
    BY <1>0, WithEndType
       DEF EndSave, EndSaveFails, EndSaved, At, EndStands, WritableBy, OwnedBy, TypeInv, TypeOK, TurnOK
<1>2. EndSave(r) \/ EndSaveFails(r) => ExecutionsOK' /\ ExecutionsSound'
    BY <1>0, MoveSound, SetSound DEF EndSave, EndSaveFails, At, EndStands, Pcs
<1>3. CASE EndSave(r)
    <2>1. BoundsOK' /\ TurnOK'
        BY <1>1, <1>3, FaultTypes DEF EndSave, TurnOK
    <2> QED
        BY <1>2, <1>3, <2>1, FrameTypes DEF EndSave, TypeInv, TypeOK, history
<1>4. CASE EndSaveFails(r)
    <2>1. BoundsOK'
        BY <1>4, FaultTypes DEF EndSaveFails
    <2>2. TurnOK'
        BY <1>1, <1>4 DEF EndSaveFails, MayHaveApplied, TypeInv, TypeOK, TurnOK
    <2>3. GrantsOK' /\ HeardOK'
        BY <1>0, <1>4 DEF EndSaveFails, At, EndStands, TypeInv, TypeOK, GrantsOK, HeardOK
    <2> QED
        BY <1>2, <1>4, <2>1, <2>2, <2>3, FrameTypes DEF EndSaveFails, TypeInv, TypeOK
<1>5. CASE EndJournal(r)
    <2>1. BoundsOK'
        BY <1>5, FaultTypes DEF EndJournal
    <2>2. JournalOK'
        <3>1. RunEnded(ex[r].out.status, ex[r].reply.steps) \in Events
            BY <1>0, <1>5, StatusType, RunEndedType DEF EndJournal, At, EndStands, Replies
        <3> QED
            BY <1>5, <3>1, AppendTypes, FrameTypes DEF EndJournal
    <2>3. ExecutionsOK' /\ ExecutionsSound'
        BY <1>0, <1>5, IdleTypes DEF EndJournal
    <2> QED
        BY <1>5, <2>1, <2>2, <2>3, FrameTypes DEF EndJournal, TypeInv, TypeOK, history
<1>6. CASE PassRecord(r)
    <2>1. WorkflowsOK'
        BY <1>0, <1>6 DEF PassRecord, TypeInv, TypeOK, WorkflowsOK
    <2>2. ExecutionsOK' /\ ExecutionsSound'
        BY <1>6, IdleTypes DEF PassRecord, Pcs
    <2> QED
        BY <1>6, <2>1, <2>2, FrameTypes DEF PassRecord, TypeInv, TypeOK, history
<1> QED
    BY <1>3, <1>4, <1>5, <1>6

(* So does what the workflow does after its pass, or when it throws. *)
LEMMA FinishTypes ==
    ASSUME TypeInv, NEW r \in Runs,
           \/ SendDone(r) \/ Forget(r) \/ Return(r) \/ FailedSave(r) \/ Fail(r)
           \/ Crash(r) \/ Recover(r) \/ Upgrade(r)
    PROVE  TypeInv'
<1>1. CASE SendDone(r)
    <2>1. BoundsOK'
        BY <1>1, FaultTypes DEF SendDone
    <2>2. ExecutionsOK' /\ ExecutionsSound'
        BY <1>1, IdleTypes, MoveSound, SetSound DEF SendDone, Pcs
    <2> QED
        BY <1>1, <2>1, <2>2, FrameTypes DEF SendDone, TypeInv, TypeOK, shared, history
<1>2. CASE Forget(r)
    <2>1. GrantsOK' /\ BoundsOK'
        BY <1>2, FaultTypes DEF Forget, ForgetFails, ForgetUnlessEndPending, TypeInv, TypeOK, GrantsOK
    <2>2. ExecutionsOK' /\ ExecutionsSound'
        BY <1>2, MoveSound, SetSound DEF Forget, Pcs
    <2> QED
        BY <1>2, <2>1, <2>2, FrameTypes DEF Forget, TypeInv, TypeOK, history
<1>3. CASE Return(r)
    <2>1. WorkflowsOK'
        BY <1>3 DEF Return, TypeInv, TypeOK, WorkflowsOK, Terminal
    <2>2. ExecutionsOK' /\ ExecutionsSound'
        BY <1>3, IdleTypes DEF Return
    <2> QED
        BY <1>3, <2>1, <2>2, FrameTypes DEF Return, TypeInv, TypeOK, history
<1>4. CASE FailedSave(r)
    <2>1. BoundsOK'
        BY <1>4, FaultTypes DEF FailedSave
    <2>2. Failed \in Replies
        BY TurnReplyType DEF Failed, Replies, EndStatuses, Notes, TypeInv, TypeOK, TurnOK
    <2>3. TurnOK'
        BY <1>4, <2>2, WithEndType
           DEF FailedSave, WritableBy, OwnedBy, TypeInv, TypeOK, TurnOK
    <2>4. ExecutionsOK' /\ ExecutionsSound'
        BY <1>4, MoveSound, SetSound DEF FailedSave, Pcs
    <2> QED
        BY <1>4, <2>1, <2>3, <2>4, FrameTypes DEF FailedSave, TypeInv, TypeOK, history
<1>5. CASE Fail(r)
    <2>1. GrantsOK' /\ WorkflowsOK' /\ BoundsOK'
        BY <1>5, FaultTypes DEF Fail, ForgetFails, ForgetUnlessEndPending, TypeInv, TypeOK, GrantsOK, WorkflowsOK, Terminal
    <2>2. ExecutionsOK' /\ ExecutionsSound'
        BY <1>5, IdleTypes DEF Fail
    <2> QED
        BY <1>5, <2>1, <2>2, FrameTypes DEF Fail, TypeInv, TypeOK, history
<1>6. CASE Crash(r)
    <2>1. BoundsOK'
        BY <1>6, BoundsAssumption DEF Crash, TypeInv, TypeOK, BoundsOK
    <2> QED
        BY <1>6, <2>1, IdleSound, ExecutionTypes DEF Crash
<1>7. CASE Recover(r)
    <2>1. WorkflowsOK'
        BY <1>7, BoundsAssumption
           DEF Recover, MayRecover, TypeInv, TypeOK, WorkflowsOK, Terminal
    <2>2. ExecutionsOK' /\ ExecutionsSound'
        BY <1>7, MoveSound, SetSound, FrameTypes DEF Recover, Pcs
    <2> QED
        BY <1>7, <2>1, <2>2, FrameTypes DEF Recover, TypeInv, TypeOK, history
<1>8. CASE Upgrade(r)
    <2>1. WorkflowsOK'
        BY <1>8 DEF Upgrade, TypeInv, TypeOK, WorkflowsOK
    <2> QED
        BY <1>8, <2>1, FrameTypes DEF Upgrade, TypeInv, TypeOK, history
<1> QED
    BY <1>1, <1>2, <1>3, <1>4, <1>5, <1>6, <1>7, <1>8

(* An end saved where it may be leaves a turn. *)
LEMMA EndOnceType ==
    ASSUME TypeInv, NEW r \in Runs, NEW reply \in Replies
    PROVE  /\ EndOnce(r, reply) \in Turns \cup {NoTurn}
           /\ ForgetGrant(r) => GrantsOK'
           /\ EndTurnOnce(r, reply) => TurnOK' /\ GrantsOK'
<1>1. EndOnce(r, reply) \in Turns \cup {NoTurn}
    BY WithEndType DEF EndOnce, WritableBy, OwnedBy, TypeInv, TypeOK, TurnOK
<1>2. ForgetGrant(r) => GrantsOK'
    BY DEF ForgetGrant, ForgetFails, TypeInv, TypeOK, GrantsOK
<1>3. EndTurnOnce(r, reply) => TurnOK' /\ GrantsOK'
    BY <1>1, <1>2 DEF EndTurnOnce, TurnOK, TypeInv, TypeOK, GrantsOK
<1> QED
    BY <1>1, <1>2, <1>3

(* The ends written from outside a run are EndedReplies. *)
LEMMA OutsideReplyTypes ==
    ASSUME TypeInv, NEW status \in EndStatuses, NEW note \in Notes
    PROVE  Reply(status, turn.reply.steps, note) \in Replies
BY TurnReplyType, ReplyType DEF TypeInv, TypeOK, TurnOK

(* The sweep and the repair keep the invariant. *)
LEMMA MaintainTypes ==
    ASSUME TypeInv, NEW r \in Runs,
           SweepCancel(r) \/ SweepEnd(r) \/ Repair(r) \/ TimedOut(r)
    PROVE  TypeInv'
<1>0. Cancel(r) /\ UNCHANGED <<input, begun, output, recoveries, stranded>> => WorkflowsOK'
    BY DEF Cancel, TypeInv, TypeOK, WorkflowsOK, Active, Terminal
<1>1. CASE SweepCancel(r)
    <2>1. SweepOK'
        BY <1>1 DEF SweepCancel, TypeInv, TypeOK, SweepOK
    <2> QED
        BY <1>0, <1>1, <2>1, FrameTypes DEF SweepCancel, TypeInv, TypeOK, history
<1>2. CASE SweepEnd(r)
    <2>1. BoundsOK' /\ SweepOK'
        BY <1>2, FaultTypes DEF SweepEnd, EndTurnOnce, ForgetGrant, ForgetFails, EndTurnOnceFails, TypeInv, TypeOK, SweepOK
    <2>2. Reply("error", turn.reply.steps, "interrupted") \in Replies
        BY OutsideReplyTypes DEF EndStatuses, Notes
    <2>3. TurnOK' /\ GrantsOK'
        BY <1>2, <2>2, EndOnceType, FrameTypes DEF SweepEnd, EndTurnOnceFails, grants
    <2> QED
        BY <1>2, <2>1, <2>3, FrameTypes DEF SweepEnd, TypeInv, TypeOK, history
<1>3. CASE Repair(r)
    <2>1. BoundsOK' /\ GrantsOK'
        BY <1>3, FaultTypes DEF Repair, ForgetGrant, ForgetFails, TypeInv, TypeOK, GrantsOK
    <2>2. pend[r] \in Replies
        BY <1>3 DEF Repair, TypeInv, TypeOK, GrantsOK
    <2>3. TurnOK'
        BY <1>3, <2>2, EndOnceType DEF Repair, TurnOK
    <2> QED
        BY <1>3, <2>1, <2>3, FrameTypes DEF Repair, TypeInv, TypeOK, history
<1>4. CASE TimedOut(r)
    BY <1>0, <1>4, FrameTypes DEF TimedOut, TypeInv, TypeOK, history
<1> QED
    BY <1>1, <1>2, <1>3, <1>4

(* So does Stop in all its forms. *)
LEMMA StopTypes ==
    ASSUME TypeInv, NEW r \in Runs,
           Stop(r) \/ StopByKeyMark(r) \/ StopByKeySignal(r) \/ ForceStop(r)
    PROVE  TypeInv'
<1>1. CASE Stop(r) \/ StopByKeyMark(r) \/ StopByKeySignal(r)
    <2>1. StopsOK'
        BY <1>1 DEF Stop, StopByKeyMark, StopByKeySignal, SignalStop, TypeInv, TypeOK, StopsOK
    <2> QED
        BY <1>1, <2>1, FrameTypes
           DEF Stop, StopByKeyMark, StopByKeySignal, TypeInv, TypeOK, history
<1>2. ForceStop(r) => StopsOK'
    BY DEF ForceStop, ForceCheck, ForceCancel, ForceEnd, TypeInv, TypeOK, StopsOK
<1>3. CASE ForceCheck(r)
    BY <1>2, <1>3, FrameTypes DEF ForceStop, ForceCheck, TypeInv, TypeOK, history
<1>4. CASE ForceCancel(r)
    <2>1. WorkflowsOK'
        BY <1>4 DEF ForceCancel, Cancel, TypeInv, TypeOK, WorkflowsOK, Active, Terminal
    <2> QED
        BY <1>2, <1>4, <2>1, FrameTypes DEF ForceStop, ForceCancel, TypeInv, TypeOK, history
<1>5. CASE ForceEnd(r)
    <2>1. BoundsOK'
        BY <1>5, FaultTypes DEF ForceEnd, EndTurnOnce, ForgetGrant, ForgetFails, EndTurnOnceFails
    <2>2. Reply("aborted", turn.reply.steps, "plain") \in Replies
        BY OutsideReplyTypes DEF EndStatuses, Notes
    <2>3. TurnOK' /\ GrantsOK'
        BY <1>5, <2>2, EndOnceType, FrameTypes DEF ForceEnd, EndTurnOnceFails, grants
    <2> QED
        BY <1>2, <1>5, <2>1, <2>3, FrameTypes DEF ForceStop, ForceEnd, TypeInv, TypeOK, history
<1> QED
    BY <1>1, <1>3, <1>4, <1>5 DEF ForceStop

(* So does a reader that takes the end from the head. *)
LEMMA ReaderTypes ==
    ASSUME TypeInv, NEW r \in Runs, EndFromHead(r)
    PROVE  TypeInv'
<1>1. BoundsOK'
    BY FaultTypes DEF EndFromHead, EndTurnOnce, ForgetGrant, ForgetFails, EndTurnOnceFails
<1>2. HeadEnds(r) \subseteq Replies
    BY OutsideReplyTypes DEF HeadEnds, Failed, Reply, EndStatuses, Notes
<1>3. TurnOK' /\ GrantsOK'
    BY <1>2, EndOnceType, FrameTypes DEF EndFromHead, EndTurnOnceFails, grants
<1>4. StatusEnd(r) \in Events
    BY ConstantsAssumption, RunEndedType DEF StatusEnd, EventStatuses, Counts
<1>5. HeardOK'
    <2>1. heard'[r] \in Events /\ heard' = [heard EXCEPT ![r] = heard'[r]]
        BY <1>3, <1>4, TurnReplyType, EndedEventType
           DEF EndFromHead, TypeInv, TypeOK, HeardOK, TurnOK
    <2> QED
        BY <2>1 DEF EndFromHead, ends, TypeInv, TypeOK, HeardOK
<1> QED
    BY <1>1, <1>3, <1>5, FrameTypes DEF EndFromHead, TypeInv, TypeOK

(* Every step of the specification keeps it. *)
LEMMA TypeStep ==
    ASSUME TypeInv, [Next]_vars
    PROVE  TypeInv'
<1>1. CASE UNCHANGED vars
    BY <1>1, FrameTypes DEF vars, shared, history, TypeInv, TypeOK
<1>2. CASE Next
    BY <1>2, StartTypes, BeginTypes, PassTypes, RunningTypes, OutcomeTypes, EndTypes,
       FinishTypes, MaintainTypes, StopTypes, ReaderTypes
       DEF Next, Execute, Environment, Maintain
<1> QED
    BY <1>1, <1>2

(* Every variable keeps its type. *)
THEOREM TypeCorrect == Spec => []TypeOK
<1>1. Init => TypeInv
    BY InitTypes
<1>2. TypeInv /\ [Next]_vars => TypeInv'
    BY TypeStep
<1>3. TypeInv => TypeOK
    BY DEF TypeInv
<1> QED
    BY <1>1, <1>2, <1>3, PTL DEF Spec
-----------------------------------------------------------------------------
(***************************************************************************)
(* The safety theorems of the runner about its journal, and about who may  *)
(* write the turn in the head: five writers of an end, of several runs of  *)
(* one turn, and an ended reply that stays.  They rest on TypeInv, and on  *)
(* the order in which runs start.                                          *)
(***************************************************************************)

(***************************************************************************)
(* The journal ends once.  What makes it so: a pass that has begun, and is *)
(* not over, has a journal without an end.  PassBegins asks for that, only *)
(* the pass itself writes its journal, and its one end is its last write.  *)
(***************************************************************************)
Passing == {"running", "endSave", "endJournal"}
PassingIsOpen == \A r \in Runs : ex[r].pc \in Passing => ~JournalEnded(r)
JournalInv == TypeInv /\ JournalEndsOnce /\ PassingIsOpen

(* A step that writes no journal and begins no pass. *)
Quiet ==
    /\ UNCHANGED jrnl
    /\ \A q \in Runs : ex'[q].pc \in Passing => ex[q].pc \in Passing

(* Such a step keeps what the theorem is about. *)
LEMMA QuietKeepsJournal ==
    ASSUME JournalInv, Quiet
    PROVE  JournalEndsOnce' /\ PassingIsOpen'
BY DEF JournalInv, Quiet, JournalEndsOnce, PassingIsOpen, JournalEnded

(* Setting one execution changes that one alone. *)
LEMMA SetsOne ==
    ASSUME TypeInv, NEW r \in Runs, NEW e, Set(r, e)
    PROVE  \A q \in Runs : ex'[q] = IF q = r THEN e ELSE ex[q]
BY DEF TypeInv, TypeOK, ExecutionsOK, Set

(* A write to a journal that has no end yet leaves at most one, the last. *)
LEMMA AppendOnce ==
    ASSUME JournalInv, NEW r \in Runs, ~JournalEnded(r), NEW event \in Events, Append1(r, event)
    PROVE  /\ JournalEndsOnce'
           /\ ~IsEnd(event) => ~JournalEnded(r)'
           /\ \A q \in Runs : q # r => (JournalEnded(q)' <=> JournalEnded(q))
<1>1. jrnl \in [Runs -> Seq(Events)]
    BY DEF JournalInv, TypeInv, TypeOK, JournalOK
<1>2. jrnl'[r] = Append(jrnl[r], event) /\ \A q \in Runs : q # r => jrnl'[q] = jrnl[q]
    BY <1>1 DEF Append1
<1>3. /\ Len(jrnl'[r]) = Len(jrnl[r]) + 1
      /\ jrnl'[r][Len(jrnl[r]) + 1] = event
      /\ \A i \in 1..Len(jrnl[r]) : jrnl'[r][i] = jrnl[r][i]
    BY <1>1, <1>2
<1>4. \A i \in 1..Len(jrnl[r]) : ~IsEnd(jrnl[r][i])
    <2>1. Len(jrnl[r]) \in Nat /\ (Len(jrnl[r]) > 0 => jrnl[r] # <<>>)
        BY <1>1
    <2> QED
        BY <2>1 DEF JournalInv, JournalEndsOnce, JournalEnded
<1>5. JournalEndsOnce'
    <2> SUFFICES ASSUME NEW q \in Runs, NEW i \in 1..Len(jrnl'[q]), IsEnd(jrnl'[q][i])
                 PROVE  i = Len(jrnl'[q])
        BY DEF JournalEndsOnce, IsEnd
    <2>1. CASE q = r
        <3>1. Len(jrnl[r]) \in Nat
            BY <1>1
        <3> QED
            BY <1>3, <1>4, <2>1, <3>1
    <2>2. CASE q # r
        BY <1>2, <2>2 DEF JournalInv, JournalEndsOnce
    <2> QED
        BY <2>1, <2>2
<1>6. ~IsEnd(event) => ~JournalEnded(r)'
    BY <1>3 DEF JournalEnded, IsEnd
<1>7. \A q \in Runs : q # r => (JournalEnded(q)' <=> JournalEnded(q))
    BY <1>2 DEF JournalEnded, IsEnd
<1> QED
    BY <1>5, <1>6, <1>7

(* A step that sets one execution, to one that begins no pass, is quiet. *)
LEMMA SetsQuietly ==
    ASSUME TypeInv, NEW r \in Runs, UNCHANGED jrnl, NEW e, Set(r, e),
           e.pc \in Passing => ex[r].pc \in Passing
    PROVE  Quiet
BY SetsOne DEF Quiet

(* Every action but those that write a journal is quiet. *)
LEMMA QuietSteps ==
    ASSUME TypeInv, NEW r \in Runs,
           \/ \E kind \in Kinds : Start(r, kind)
           \/ Dequeue(r) \/ Recover(r)
           \/ BeginRead(r) \/ BeginSave(r) \/ BeginRecord(r) \/ BeginThrows(r)
           \/ PassAlreadyEnded(r) \/ PassThrows(r)
           \/ AskCall(r) \/ SaveProgress(r) \/ SaveAnswerLost(r) \/ RunCall(r) \/ FinishStep(r)
           \/ ReplyDone(r) \/ ReplyFails(r) \/ ReplyAborted(r)
           \/ EndSave(r) \/ EndSaveFails(r) \/ PassRecord(r)
           \/ SendDone(r) \/ Forget(r) \/ Return(r) \/ FailedSave(r) \/ Fail(r)
           \/ HearStop(r) \/ CheckCancelled(r) \/ EndFromHead(r) \/ StopByKeySignal(r)
           \/ ForceStop(r) \/ Maintain(r)
           \/ (\E why \in {"ran_out", "paused"} : Abort(r, why))
           \/ Crash(r) \/ Upgrade(r) \/ TimedOut(r) \/ Stop(r) \/ StopByKeyMark(r)
    PROVE  Quiet
<1>0. \A e : Set(r, e) => \A q \in Runs : ex'[q] = IF q = r THEN e ELSE ex[q]
    BY SetsOne
<1>1. \A pc : Goto(r, pc) => \A q \in Runs : ex'[q].pc = IF q = r THEN pc ELSE ex[q].pc
    BY DEF TypeInv, TypeOK, ExecutionsOK, Executions, Goto
<1>2. ex[r] \in Executions
    BY DEF TypeInv, TypeOK, ExecutionsOK
<1>3. CASE \/ \E kind \in Kinds : Start(r, kind)
           \/ SaveAnswerLost(r) \/ EndFromHead(r) \/ StopByKeySignal(r) \/ ForceStop(r)
           \/ Maintain(r) \/ Upgrade(r) \/ TimedOut(r) \/ Stop(r) \/ StopByKeyMark(r)
    BY <1>3 DEF Quiet, Start, SaveAnswerLost, EndFromHead, StopByKeySignal, ForceStop, ForceCheck,
           ForceCancel, ForceEnd, Maintain, SweepCancel, SweepEnd, Repair, Upgrade, TimedOut,
           Stop, StopByKeyMark
<1>4. CASE BeginSave(r) \/ EndSave(r) \/ EndSaveFails(r) \/ Forget(r) \/ FailedSave(r)
    BY <1>1, <1>4 DEF Quiet, BeginSave, EndSave, EndSaveFails, Forget, FailedSave, Passing, At
<1>5. CASE Dequeue(r) \/ BeginRecord(r) \/ BeginThrows(r) \/ PassThrows(r) \/ PassRecord(r)
           \/ Return(r) \/ Fail(r) \/ Crash(r) \/ PassAlreadyEnded(r)
    <2>1. \/ Set(r, Idle)
          \/ \E pc \in {"begin", "pass", "failing", "send"} : Set(r, [Idle EXCEPT !.pc = pc])
          \/ \E out : Set(r, [Idle EXCEPT !.pc = "passDone", !.out = out])
        BY <1>5 DEF Dequeue, BeginRecord, BeginThrows, PassThrows, PassRecord, Return, Fail, Crash,
               PassAlreadyEnded
    <2>2. UNCHANGED jrnl
        BY <1>5 DEF Dequeue, BeginRecord, BeginThrows, PassThrows, PassRecord, Return, Fail, Crash,
               PassAlreadyEnded, shared
    <2>3. Idle.pc \notin Passing
        BY DEF Idle, Passing
    <2>4. \A pc \in {"begin", "pass", "failing", "send"} : [Idle EXCEPT !.pc = pc].pc \notin Passing
        BY DEF Idle, Passing
    <2>5. \A out : [Idle EXCEPT !.pc = "passDone", !.out = out].pc \notin Passing
        BY DEF Idle, Passing
    <2> QED
        BY <2>1, <2>2, <2>3, <2>4, <2>5, SetsQuietly
<1>6. CASE AskCall(r) \/ SaveProgress(r) \/ RunCall(r) \/ FinishStep(r)
           \/ (\E why \in {"ran_out", "paused"} : Abort(r, why)) \/ HearStop(r) \/ CheckCancelled(r)
           \/ BeginRead(r)
    <2>1. UNCHANGED jrnl
        BY <1>6 DEF AskCall, SaveProgress, RunCall, FinishStep, Abort, HearStop, CheckCancelled,
               BeginRead, shared
    <2>2. \A b, c : /\ [ex[r] EXCEPT !.saved = b].pc = ex[r].pc
                    /\ [ex[r] EXCEPT !.call = c].pc = ex[r].pc
                    /\ [ex[r] EXCEPT !.why = c].pc = ex[r].pc
        BY <1>2 DEF Executions
    <2>3. CASE AskCall(r)
        <3> DEFINE e == [ex[r] EXCEPT !.mem = @ + 1, !.saved = FALSE, !.call = "asked"]
        <3>1. e.pc = ex[r].pc
            BY <1>2 DEF Executions
        <3>2. Set(r, e)
            BY <2>3 DEF AskCall
        <3> HIDE DEF e
        <3> QED
            BY <2>1, <3>1, <3>2, SetsQuietly
    <2>4. CASE SaveProgress(r)
        BY <2>1, <2>2, <2>4, SetsQuietly DEF SaveProgress
    <2>5. CASE RunCall(r) \/ FinishStep(r)
        BY <2>1, <2>2, <2>5, SetsQuietly DEF RunCall, FinishStep
    <2>6. CASE (\E why \in {"ran_out", "paused"} : Abort(r, why)) \/ HearStop(r) \/ CheckCancelled(r)
        BY <2>1, <2>2, <2>6, SetsQuietly DEF Abort, HearStop, CheckCancelled
    <2>7. CASE BeginRead(r)
        <3> DEFINE from == IF input[r].kind = "retry" THEN RetryPoint ELSE NoPoint
                   e == [ex[r] EXCEPT !.pc = "startTurn", !.stopped = StoppedBeforeStart(r), !.from = from]
        <3>1. e.pc \notin Passing
            BY <1>2 DEF Executions, Passing
        <3>2. Set(r, e)
            BY <2>7 DEF BeginRead
        <3> HIDE DEF e
        <3> QED
            BY <2>1, <3>1, <3>2, SetsQuietly
    <2> QED
        BY <1>6, <2>3, <2>4, <2>5, <2>6, <2>7
<1>7. CASE ReplyDone(r) \/ ReplyFails(r) \/ ReplyAborted(r)
    BY <1>0, <1>7 DEF Quiet, ReplyDone, ReplyFails, ReplyAborted, Going, At, Passing, shared
<1>8. CASE SendDone(r) \/ Recover(r)
    BY <1>0, <1>1, <1>8 DEF Quiet, SendDone, Recover, Passing, Idle, shared
<1> QED
    BY <1>3, <1>4, <1>5, <1>6, <1>7, <1>8

(* Those that write one write to a journal without an end. *)
LEMMA WritingSteps ==
    ASSUME JournalInv, NEW r \in Runs,
           PassEndsFromHead(r) \/ PassBegins(r) \/ EmitStart(r) \/ EndJournal(r)
    PROVE  JournalEndsOnce' /\ PassingIsOpen'
<1>0. TypeInv /\ ex[r] \in Executions /\ JournalEndsOnce /\ PassingIsOpen
    BY DEF JournalInv, TypeInv, TypeOK, ExecutionsOK
<1>1. \A e : Set(r, e) => \A q \in Runs : ex'[q] = IF q = r THEN e ELSE ex[q]
    BY <1>0, SetsOne
<1>2. ASSUME ~JournalEnded(r),
             \/ \E event \in Events : Append1(r, event) /\ (IsEnd(event) => ex'[r].pc \notin Passing)
             \/ UNCHANGED jrnl,
             \A q \in Runs : q # r => ex'[q] = ex[q]
      PROVE  JournalEndsOnce' /\ PassingIsOpen'
    <2>1. CASE UNCHANGED jrnl
        BY <1>0, <1>2, <2>1 DEF JournalEndsOnce, PassingIsOpen, JournalEnded, IsEnd
    <2>2. CASE \E event \in Events : Append1(r, event) /\ (IsEnd(event) => ex'[r].pc \notin Passing)
        <3>1. PICK event \in Events : Append1(r, event) /\ (IsEnd(event) => ex'[r].pc \notin Passing)
            BY <2>2
        <3>2. JournalEndsOnce' /\ (~IsEnd(event) => ~JournalEnded(r)')
              /\ \A q \in Runs : q # r => (JournalEnded(q)' <=> JournalEnded(q))
            BY <1>2, <3>1, AppendOnce
        <3> QED
            BY <1>0, <1>2, <3>1, <3>2 DEF PassingIsOpen
    <2> QED
        BY <1>2, <2>1, <2>2
<1>3. CASE PassEndsFromHead(r)
    <2>1. EndedEvent(turn.reply) \in Events
        BY <1>0, <1>3, TurnReplyType, EndedEventType
           DEF PassEndsFromHead, EndInHead, TypeInv, TypeOK, TurnOK
    <2>2. \A out : [Idle EXCEPT !.pc = "passDone", !.out = out].pc \notin Passing
        BY DEF Idle, Passing
    <2>3. /\ \A q \in Runs : q # r => ex'[q] = ex[q]
          /\ Append1(r, EndedEvent(turn.reply)) => ex'[r].pc \notin Passing
          /\ Append1(r, EndedEvent(turn.reply)) \/ UNCHANGED jrnl
        <3>1. CASE wf[r] = "PENDING"
            BY <1>1, <1>3, <2>2, <3>1 DEF PassEndsFromHead
        <3>2. CASE wf[r] # "PENDING"
            BY <1>1, <1>3, <3>2 DEF PassEndsFromHead, Idle, Passing
        <3> QED
            BY <3>1, <3>2
    <2> QED
        BY <1>2, <1>3, <2>1, <2>3 DEF PassEndsFromHead
<1>4. CASE PassBegins(r)
    <2>1. UNCHANGED jrnl /\ \A q \in Runs : q # r => ex'[q] = ex[q]
        BY <1>1, <1>4 DEF PassBegins
    <2> QED
        BY <1>2, <1>4, <2>1 DEF PassBegins
<1>6. CASE EmitStart(r)
    <2>1. Append1(r, RunStarted) \/ UNCHANGED jrnl
        BY <1>6 DEF EmitStart
    <2>2. \A q \in Runs : q # r => ex'[q] = ex[q]
        BY <1>1, <1>6 DEF EmitStart
    <2>3. ~JournalEnded(r)
        BY <1>0, <1>6 DEF EmitStart, Emitting, PassingIsOpen, Passing
    <2> QED
        BY <1>2, <2>1, <2>2, <2>3, RunStartedType
<1>5. CASE EndJournal(r)
    <2>1. ~JournalEnded(r) /\ RunEnded(ex[r].out.status, ex[r].reply.steps) \in Events
        BY <1>0, <1>5, StatusType, RunEndedType
           DEF EndJournal, PassingIsOpen, At, Passing, TypeInv, ExecutionsSound, EndStands, Replies
    <2>2. [Idle EXCEPT !.pc = "passDone", !.out = ex[r].out].pc \notin Passing
        BY DEF Idle, Passing
    <2>3. (\A q \in Runs : q # r => ex'[q] = ex[q]) /\ ex'[r].pc \notin Passing
        BY <1>1, <1>5, <2>2 DEF EndJournal
    <2>4. Append1(r, RunEnded(ex[r].out.status, ex[r].reply.steps)) \/ UNCHANGED jrnl
        BY <1>5 DEF EndJournal
    <2> QED
        BY <1>2, <2>1, <2>3, <2>4
<1> QED
    BY <1>3, <1>4, <1>5, <1>6

(* A run's journal holds at most one `run-ended`, as its last event,       *)
(* however often its pass runs again.                                      *)
THEOREM JournalSafe == Spec => []JournalEndsOnce
<1>1. Init => JournalInv
    <2>1. Init => JournalEndsOnce /\ PassingIsOpen
        BY DEF Init, JournalEndsOnce, PassingIsOpen, Passing, Idle
    <2> QED
        BY <2>1, InitTypes DEF JournalInv
<1>2. JournalInv /\ [Next]_vars => JournalInv'
    <2> SUFFICES ASSUME JournalInv, [Next]_vars PROVE JournalInv'
        OBVIOUS
    <2>1. TypeInv /\ TypeInv'
        BY TypeStep DEF JournalInv
    <2>2. JournalEndsOnce' /\ PassingIsOpen'
        <3>1. CASE UNCHANGED vars
            BY <3>1, QuietKeepsJournal DEF Quiet, vars, shared
        <3>2. CASE Next
            BY <2>1, <3>2, QuietSteps, QuietKeepsJournal, WritingSteps DEF Next, Execute, Environment
        <3> QED
            BY <3>1, <3>2
    <2> QED
        BY <2>1, <2>2 DEF JournalInv
<1>3. JournalInv => JournalEndsOnce
    BY DEF JournalInv
<1> QED
    BY <1>1, <1>2, <1>3, PTL DEF Spec
-----------------------------------------------------------------------------
(* A saved turn has an owner, which is a run that was started.             *)
TurnHasOwner == turn = NoTurn \/ turn.owner \in Runs
OwnerStarted == turn.owner \in Runs => wf[turn.owner] # "none"

(* A run starts when those before it are over.                             *)
InOrder == \A p, q \in Runs : p < q /\ wf[q] # "none" => wf[p] \in Terminal

(* Only a run that was started is executed.                                *)
ExecutedIsStarted == \A r \in Runs : ex[r].pc # "idle" => wf[r] # "none"

OwnerInv == TypeInv /\ TurnHasOwner /\ OwnerStarted /\ InOrder /\ ExecutedIsStarted

(* How a step of run r may change the turn: its begin takes it, and else   *)
(* it writes a reply that is its own and has not ended.                    *)
Takes(r) == At(r, "startTurn") /\ turn' = Begin(r)
WritesOwn(r) == WritableBy(turn, r) /\ turn'.owner = turn.owner
Writes(r) == Takes(r) \/ WritesOwn(r)

(* A step is of one run.                                                   *)
OnlyActs(r) == \A q \in Runs \ {r} : ~ActsFor(q)

LEMMA NoTurnHasNoOwner == NoTurn.owner = NoRun /\ NoRun \notin Runs /\ ~HasEnded(NoTurn)
BY ConstantsAssumption DEF NoTurn, NoRun, Runs, HasEnded, NoReply, EndStatuses

LEMMA BeginOwner == ASSUME NEW r \in Runs PROVE Begin(r).owner = r
BY DEF Begin, StartTurn

(* A write of a reply leaves the turn's owner.                             *)
LEMMA ReplyLeavesOwner ==
    ASSUME TypeInv, NEW r \in Runs, WritableBy(turn, r)
    PROVE  /\ \A reply : WithEnd(turn, reply).owner = turn.owner
           /\ \A n : WithProgress(turn, n).owner = turn.owner
<1>1. turn \in Turns
    BY DEF TypeInv, TypeOK, TurnOK, WritableBy, OwnedBy
<1> QED
    BY <1>1 DEF Turns, WithEnd, WithProgress

LEMMA EndLeavesOwner ==
    ASSUME TypeInv, NEW r \in Runs, NEW reply, turn' = EndOnce(r, reply)
    PROVE  turn' = turn \/ WritesOwn(r)
BY ReplyLeavesOwner DEF EndOnce, WritesOwn

(* Every action but those that write the turn leaves it.                   *)
LEMMA TurnStays ==
    ASSUME NEW r \in Runs,
           \/ \E kind \in Kinds : Start(r, kind)
           \/ Dequeue(r) \/ Recover(r)
           \/ BeginRead(r) \/ BeginRecord(r)
           \/ PassAlreadyEnded(r) \/ PassEndsFromHead(r) \/ PassBegins(r) \/ EmitStart(r) \/ PassThrows(r)
           \/ AskCall(r) \/ RunCall(r) \/ FinishStep(r)
           \/ ReplyDone(r) \/ ReplyFails(r) \/ ReplyAborted(r)
           \/ EndJournal(r) \/ PassRecord(r)
           \/ SendDone(r) \/ Forget(r) \/ Return(r) \/ Fail(r)
           \/ HearStop(r) \/ CheckCancelled(r) \/ StopByKeySignal(r)
           \/ ForceCheck(r) \/ ForceCancel(r) \/ SweepCancel(r)
           \/ (\E why \in {"ran_out", "paused"} : Abort(r, why))
           \/ Crash(r) \/ Upgrade(r) \/ TimedOut(r) \/ Stop(r) \/ StopByKeyMark(r)
    PROVE  UNCHANGED turn
<1>1. CASE \/ \E kind \in Kinds : Start(r, kind)
           \/ Dequeue(r) \/ Recover(r) \/ StopByKeySignal(r)
           \/ ForceCheck(r) \/ ForceCancel(r) \/ SweepCancel(r)
           \/ Upgrade(r) \/ TimedOut(r) \/ Stop(r) \/ StopByKeyMark(r)
    BY <1>1 DEF Start, Dequeue, Recover, StopByKeySignal, ForceCheck, ForceCancel, SweepCancel, Upgrade,
           TimedOut, Stop, StopByKeyMark
<1>2. CASE \/ BeginRecord(r) \/ PassEndsFromHead(r) \/ PassBegins(r) \/ EmitStart(r) \/ PassThrows(r)
           \/ RunCall(r) \/ EndJournal(r) \/ PassRecord(r) \/ Forget(r) \/ Return(r) \/ Fail(r)
    BY <1>2 DEF BeginRecord, PassEndsFromHead, PassBegins, EmitStart, PassThrows, RunCall, EndJournal, PassRecord,
           Forget, Return, Fail
<1>3. CASE \/ BeginRead(r) \/ PassAlreadyEnded(r) \/ AskCall(r) \/ FinishStep(r)
           \/ ReplyDone(r) \/ ReplyFails(r) \/ ReplyAborted(r) \/ SendDone(r)
           \/ HearStop(r) \/ CheckCancelled(r) \/ Crash(r)
           \/ (\E why \in {"ran_out", "paused"} : Abort(r, why))
    BY <1>3 DEF BeginRead, PassAlreadyEnded, AskCall, FinishStep, ReplyDone, ReplyFails, ReplyAborted,
           SendDone, HearStop, CheckCancelled, Crash, Abort, shared
<1> QED
    BY <1>1, <1>2, <1>3

(* Those that write it write as the run they are of, and are of no other.  *)
LEMMA TurnWrites ==
    ASSUME TypeInv, NEW r \in Runs,
           \/ BeginSave(r) \/ BeginThrows(r) \/ SaveProgress(r) \/ SaveAnswerLost(r)
           \/ EndSave(r) \/ EndSaveFails(r) \/ FailedSave(r)
           \/ SweepEnd(r) \/ Repair(r) \/ ForceEnd(r) \/ EndFromHead(r)
    PROVE  (turn' = turn \/ Writes(r)) /\ OnlyActs(r)
<1>1. /\ \A e : Set(r, e) => \A q \in Runs : q # r => ex'[q] = ex[q]
      /\ \A pc : Goto(r, pc) => \A q \in Runs : q # r => ex'[q] = ex[q]
    BY DEF Set, Goto, TypeInv, TypeOK, ExecutionsOK
<1>2. /\ \A reply : pend' = [pend EXCEPT ![r] = reply] => \A q \in Runs : q # r => pend'[q] = pend[q]
      /\ \A event : heard' = [heard EXCEPT ![r] = event] => \A q \in Runs : q # r => heard'[q] = heard[q]
      /\ \A f : force' = [force EXCEPT ![r] = f] => \A q \in Runs : q # r => force'[q] = force[q]
    BY DEF TypeInv, TypeOK, GrantsOK, HeardOK, StopsOK
<1>3. \A reply : EndTurnOnce(r, reply) \/ EndTurnOnceFails =>
          turn' = turn \/ WritesOwn(r)
    BY EndLeavesOwner DEF EndTurnOnce, EndTurnOnceFails
<1>4. \A reply : EndTurnOnce(r, reply) \/ EndTurnOnceFails => \A q \in Runs : q # r => pend'[q] = pend[q]
    BY <1>2 DEF EndTurnOnce, ForgetGrant, EndTurnOnceFails
<1>5. CASE BeginSave(r) \/ BeginThrows(r)
    <2>1. OnlyActs(r)
        BY <1>1, <1>5 DEF BeginSave, BeginThrows, OnlyActs, ActsFor, stops, grants
    <2>2. turn' = turn \/ Takes(r)
        BY <1>5 DEF BeginSave, BeginThrows, MayHaveApplied, Takes
    <2> QED
        BY <2>1, <2>2 DEF Writes
<1>6. CASE SaveProgress(r) \/ SaveAnswerLost(r)
    <2>1. OnlyActs(r)
        BY <1>1, <1>6 DEF SaveProgress, SaveAnswerLost, OnlyActs, ActsFor, stops, grants, history
    <2>2. WritesOwn(r)
        BY <1>6, ReplyLeavesOwner DEF SaveProgress, SaveAnswerLost, WritesOwn
    <2> QED
        BY <2>1, <2>2 DEF Writes
<1>7. CASE EndSave(r) \/ EndSaveFails(r) \/ FailedSave(r)
    <2>1. OnlyActs(r)
        BY <1>1, <1>2, <1>7 DEF EndSave, EndSaveFails, FailedSave, OnlyActs, ActsFor, stops, grants, history
    <2>2. turn' = turn \/ WritesOwn(r)
        BY <1>7, ReplyLeavesOwner
           DEF EndSave, EndSaveFails, FailedSave, MayHaveApplied, EndSaved, WritesOwn
    <2> QED
        BY <2>1, <2>2 DEF Writes
<1>8. CASE SweepEnd(r) \/ ForceEnd(r)
    <2>1. OnlyActs(r)
        BY <1>2, <1>4, <1>8 DEF SweepEnd, ForceEnd, OnlyActs, ActsFor, stops, history
    <2>2. turn' = turn \/ WritesOwn(r)
        BY <1>3, <1>8 DEF SweepEnd, ForceEnd
    <2> QED
        BY <2>1, <2>2 DEF Writes
<1>9. CASE Repair(r)
    <2>1. OnlyActs(r)
        BY <1>2, <1>9 DEF Repair, ForgetGrant, OnlyActs, ActsFor, stops, history
    <2>2. turn' = turn \/ WritesOwn(r)
        BY <1>9, EndLeavesOwner DEF Repair
    <2> QED
        BY <2>1, <2>2 DEF Writes
<1>10. CASE EndFromHead(r)
    <2>1. /\ \A q \in Runs : q # r => pend'[q] = pend[q] /\ heard'[q] = heard[q]
          /\ UNCHANGED <<ex, force, sweep>>
        BY <1>2, <1>4, <1>10 DEF EndFromHead, stops
    <2>2. turn' = turn \/ WritesOwn(r)
        BY <1>3, <1>10 DEF EndFromHead
    <2> QED
        BY <2>1, <2>2 DEF OnlyActs, ActsFor, Writes
<1> QED
    BY <1>5, <1>6, <1>7, <1>8, <1>9, <1>10

(* So of any step.                                                         *)
LEMMA TurnStep ==
    ASSUME TypeInv, [Next]_vars
    PROVE  turn' = turn \/ \E r \in Runs : Writes(r) /\ OnlyActs(r)
<1>1. CASE UNCHANGED vars
    BY <1>1 DEF vars, shared
<1>2. CASE Next
    BY <1>2, TurnStays, TurnWrites DEF Next, Execute, Environment, ForceStop, Maintain
<1> QED
    BY <1>1, <1>2
-----------------------------------------------------------------------------
(* How a step moves the runs.                                              *)

(* A run that was started stays so, one that is over stays over, and one   *)
(* that starts has every run before it over.                               *)
Forward ==
    \A q \in Runs :
        /\ wf[q] # "none" => wf'[q] # "none"
        /\ wf[q] \in Terminal => wf'[q] \in Terminal
        /\ wf[q] = "none" /\ wf'[q] # "none" => \A p \in Runs : p < q => wf[p] \in Terminal

(* A status that is set, of one run, where that leaves it forward.         *)
LEMMA MovesForward ==
    ASSUME TypeInv, NEW r \in Runs, NEW status, wf' = [wf EXCEPT ![r] = status], status # "none",
           wf[r] \in Terminal => status \in Terminal,
           wf[r] = "none" => \A p \in Runs : p < r => wf[p] \in Terminal
    PROVE  Forward
<1>1. \A q \in Runs : wf'[q] = IF q = r THEN status ELSE wf[q]
    BY DEF TypeInv, TypeOK, WorkflowsOK
<1> QED
    BY <1>1 DEF Forward

LEMMA StepsForward ==
    ASSUME TypeInv, [Next]_vars
    PROVE  Forward
<1>0. /\ "none" \notin Active /\ "none" \notin Terminal /\ Active \cap Terminal = {}
      /\ "PENDING" \in Active /\ "ENQUEUED" \in Active
      /\ {"SUCCESS", "ERROR", "CANCELLED", "EXCEEDED"} \subseteq Terminal
      /\ \A q \in Runs : wf[q] = "none" \/ wf[q] \in Active \/ wf[q] \in Terminal
    BY DEF Active, Terminal, TypeInv, TypeOK, WorkflowsOK
<1>1. CASE UNCHANGED wf
    BY <1>1 DEF Forward
<1>2. ASSUME NEW r \in Runs, NEW kind \in Kinds, Start(r, kind) PROVE Forward
    BY <1>0, <1>2, MovesForward DEF Start
<1>3. ASSUME NEW r \in Runs, Dequeue(r) PROVE Forward
    BY <1>0, <1>3, MovesForward DEF Dequeue
<1>4. ASSUME NEW r \in Runs, Recover(r) PROVE Forward
    BY <1>0, <1>1, <1>4, MovesForward DEF Recover
<1>5. ASSUME NEW r \in Runs, wf[r] # "none", NEW status \in Terminal,
             wf' = [wf EXCEPT ![r] = status] \/ UNCHANGED wf
      PROVE  Forward
    BY <1>0, <1>1, <1>5, MovesForward
<1>6. ASSUME NEW r \in Runs, Cancel(r) PROVE Forward
    <2>1. CASE wf[r] \in Active
        BY <1>0, <1>5, <1>6, <2>1 DEF Cancel
    <2>2. CASE wf[r] \notin Active
        BY <1>1, <1>6, <2>2 DEF Cancel, TypeInv, TypeOK, WorkflowsOK
    <2> QED
        BY <2>1, <2>2
<1>7. ASSUME NEW r \in Runs, Return(r) \/ Fail(r) PROVE Forward
    <2>1. CASE wf[r] = "PENDING"
        BY <1>0, <1>5, <1>7, <2>1 DEF Return, Fail
    <2>2. CASE wf[r] # "PENDING"
        BY <1>1, <1>7, <2>2 DEF Return, Fail, TypeInv, TypeOK, WorkflowsOK
    <2> QED
        BY <2>1, <2>2
<1>8. ASSUME NEW r \in Runs,
             \/ BeginRecord(r) \/ BeginSave(r) \/ BeginThrows(r)
             \/ PassEndsFromHead(r) \/ PassBegins(r) \/ EmitStart(r) \/ PassThrows(r)
             \/ SaveProgress(r) \/ SaveAnswerLost(r) \/ RunCall(r)
             \/ EndSave(r) \/ EndSaveFails(r) \/ EndJournal(r) \/ PassRecord(r)
             \/ Forget(r) \/ FailedSave(r) \/ EndFromHead(r) \/ StopByKeySignal(r)
             \/ ForceCheck(r) \/ ForceEnd(r) \/ SweepEnd(r) \/ Repair(r)
             \/ Upgrade(r) \/ Stop(r) \/ StopByKeyMark(r)
      PROVE  UNCHANGED wf
    BY <1>8 DEF BeginRecord, BeginSave, BeginThrows, PassEndsFromHead, PassBegins, EmitStart, PassThrows,
           SaveProgress, SaveAnswerLost, RunCall, EndSave, EndSaveFails, EndJournal, PassRecord,
           Forget, FailedSave, EndFromHead, StopByKeySignal, ForceCheck, ForceEnd, SweepEnd, Repair,
           Upgrade, Stop, StopByKeyMark, workflows
<1>9. ASSUME NEW r \in Runs,
             \/ BeginRead(r) \/ PassAlreadyEnded(r) \/ AskCall(r) \/ FinishStep(r)
             \/ ReplyDone(r) \/ ReplyFails(r) \/ ReplyAborted(r) \/ SendDone(r)
             \/ HearStop(r) \/ CheckCancelled(r) \/ Crash(r)
             \/ (\E why \in {"ran_out", "paused"} : Abort(r, why))
      PROVE  UNCHANGED wf
    BY <1>9 DEF BeginRead, PassAlreadyEnded, AskCall, FinishStep, ReplyDone, ReplyFails, ReplyAborted,
           SendDone, HearStop, CheckCancelled, Crash, Abort, shared, workflows
<1>10. ASSUME NEW r \in Runs, TimedOut(r) \/ SweepCancel(r) \/ ForceCancel(r) PROVE Forward
    BY <1>6, <1>10 DEF TimedOut, SweepCancel, ForceCancel
<1>11. CASE UNCHANGED vars
    BY <1>1, <1>11 DEF vars, shared, workflows
<1>12. CASE Next
    BY <1>1, <1>2, <1>3, <1>4, <1>7, <1>8, <1>9, <1>10, <1>12
       DEF Next, Execute, Environment, ForceStop, Maintain
<1> QED
    BY <1>11, <1>12

(* What is executed was executed before, or its run was started.           *)
LEMMA StepsExecute ==
    ASSUME TypeInv, [Next]_vars
    PROVE  \A q \in Runs : ex'[q] = ex[q] \/ ex[q].pc # "idle" \/ wf[q] # "none"
<1>1. ASSUME NEW r \in Runs,
             (\E e : Set(r, e)) \/ (\E pc : Goto(r, pc)) \/ UNCHANGED ex,
             ex[r].pc # "idle" \/ wf[r] # "none" \/ UNCHANGED ex
      PROVE  \A q \in Runs : ex'[q] = ex[q] \/ ex[q].pc # "idle" \/ wf[q] # "none"
    BY <1>1 DEF Set, Goto, TypeInv, TypeOK, ExecutionsOK
<1>2. ASSUME NEW r \in Runs,
             \/ Dequeue(r) \/ Recover(r) \/ BeginRead(r) \/ BeginSave(r) \/ BeginRecord(r) \/ BeginThrows(r)
             \/ PassAlreadyEnded(r) \/ PassEndsFromHead(r) \/ PassThrows(r)
             \/ AskCall(r) \/ SaveProgress(r) \/ RunCall(r) \/ FinishStep(r)
             \/ ReplyDone(r) \/ ReplyFails(r) \/ ReplyAborted(r)
      PROVE  /\ (\E e : Set(r, e)) \/ (\E pc : Goto(r, pc)) \/ UNCHANGED ex
             /\ ex[r].pc # "idle" \/ wf[r] # "none"
    BY <1>2 DEF Dequeue, Recover, BeginRead, BeginSave, BeginRecord, BeginThrows, PassAlreadyEnded,
           PassEndsFromHead, PassThrows, AskCall, SaveProgress, RunCall, FinishStep,
           ReplyDone, ReplyFails, ReplyAborted, Going, PassRead, At
<1>3. ASSUME NEW r \in Runs, PassBegins(r) \/ EmitStart(r)
      PROVE  (\E e : Set(r, e)) /\ ex[r].pc # "idle"
    BY <1>3 DEF PassBegins, EmitStart, Emitting, PassRead, At
<1>4. ASSUME NEW r \in Runs,
             \/ EndSave(r) \/ EndSaveFails(r) \/ EndJournal(r) \/ PassRecord(r)
             \/ SendDone(r) \/ Forget(r) \/ Return(r) \/ FailedSave(r) \/ Fail(r)
             \/ HearStop(r) \/ CheckCancelled(r) \/ Crash(r)
             \/ (\E why \in {"ran_out", "paused"} : Abort(r, why))
      PROVE  /\ (\E e : Set(r, e)) \/ (\E pc : Goto(r, pc)) \/ UNCHANGED ex
             /\ ex[r].pc # "idle"
    BY <1>4 DEF EndSave, EndSaveFails, EndJournal, PassRecord, SendDone, Forget, Return, FailedSave, Fail,
           HearStop, CheckCancelled, Crash, Abort, Going, At
<1>5. ASSUME NEW r \in Runs,
             \/ \E kind \in Kinds : Start(r, kind)
             \/ SaveAnswerLost(r) \/ EndFromHead(r) \/ StopByKeySignal(r)
             \/ ForceStop(r) \/ Maintain(r)
             \/ Upgrade(r) \/ TimedOut(r) \/ Stop(r) \/ StopByKeyMark(r)
      PROVE  UNCHANGED ex
    BY <1>5 DEF Start, SaveAnswerLost, EndFromHead, StopByKeySignal, ForceStop, ForceCheck, ForceCancel,
           ForceEnd, Maintain, SweepCancel, SweepEnd, Repair, Upgrade, TimedOut, Stop, StopByKeyMark
<1>6. CASE UNCHANGED vars
    BY <1>6 DEF vars
<1>7. CASE Next
    <2>1. PICK r \in Runs :
              /\ (\E e : Set(r, e)) \/ (\E pc : Goto(r, pc)) \/ UNCHANGED ex
              /\ ex[r].pc # "idle" \/ wf[r] # "none" \/ UNCHANGED ex
        BY <1>2, <1>3, <1>4, <1>5, <1>7 DEF Next, Execute, Environment
    <2> QED
        BY <1>1, <2>1
<1> QED
    BY <1>6, <1>7
-----------------------------------------------------------------------------
(* The invariant, and the theorems.                                        *)

LEMMA InitOwner == Init => OwnerInv
<1>1. Init => TurnHasOwner /\ InOrder /\ ExecutedIsStarted
    BY DEF Init, TurnHasOwner, InOrder, ExecutedIsStarted, Idle
<1>2. Init => OwnerStarted
    BY NoTurnHasNoOwner DEF Init, OwnerStarted
<1> QED
    BY <1>1, <1>2, InitTypes DEF OwnerInv

LEMMA OwnerStep == OwnerInv /\ [Next]_vars => OwnerInv'
<1> SUFFICES ASSUME OwnerInv, [Next]_vars PROVE OwnerInv'
    OBVIOUS
<1>1. TypeInv /\ TypeInv' /\ Forward
    BY TypeStep, StepsForward DEF OwnerInv
<1>2. turn' = turn \/ \E r \in Runs : Writes(r)
    BY <1>1, TurnStep
<1>3. TurnHasOwner' /\ OwnerStarted'
    <2>1. CASE turn' = turn
        BY <1>1, <2>1 DEF OwnerInv, TurnHasOwner, OwnerStarted, Forward
    <2>2. ASSUME NEW r \in Runs, Takes(r) PROVE TurnHasOwner' /\ OwnerStarted'
        <3>1. turn'.owner = r
            BY <2>2, BeginOwner DEF Takes
        <3>2. wf'[r] # "none"
            BY <1>1, <2>2 DEF Takes, At, OwnerInv, ExecutedIsStarted, Forward
        <3> QED
            BY <3>1, <3>2 DEF TurnHasOwner, OwnerStarted
    <2>3. ASSUME NEW r \in Runs, WritesOwn(r) PROVE TurnHasOwner' /\ OwnerStarted'
        <3>1. turn.owner \in Runs /\ turn'.owner = turn.owner
            BY <2>3 DEF WritesOwn, WritableBy, OwnedBy, OwnerInv, TurnHasOwner
        <3> QED
            BY <1>1, <3>1 DEF OwnerInv, TurnHasOwner, OwnerStarted, Forward
    <2> QED
        BY <1>2, <2>1, <2>2, <2>3 DEF Writes
<1>4. InOrder'
    BY <1>1 DEF OwnerInv, InOrder, Forward
<1>5. ExecutedIsStarted'
    BY <1>1, StepsExecute DEF OwnerInv, ExecutedIsStarted, Forward
<1> QED
    BY <1>1, <1>3, <1>4, <1>5 DEF OwnerInv

LEMMA OwnerInvariant == Spec => []OwnerInv
BY InitOwner, OwnerStep, PTL DEF Spec

(* A run that another took the turn over from writes nothing to it: not by *)
(* its pass, its forced stop, its sweep, its reader or its kept end        *)
(* (writableBy of head.ts, wherever runner.ts and progress.ts apply it).   *)
THEOREM OwnerWrites == Spec => OnlyTheOwnerWrites
<1>1. ASSUME OwnerInv, [Next]_vars
      PROVE  \A r \in Runs : ActsFor(r) /\ turn' # turn => turn.owner = r \/ Begins(r)
    <2> SUFFICES ASSUME NEW r \in Runs, ActsFor(r), turn' # turn PROVE turn.owner = r \/ Begins(r)
        OBVIOUS
    <2>1. PICK q \in Runs : Writes(q) /\ OnlyActs(q)
        BY <1>1, TurnStep DEF OwnerInv
    <2>2. q = r
        BY <2>1 DEF OnlyActs
    <2>3. Takes(r) => Begins(r)
        BY BeginOwner DEF Takes, Begins, At
    <2>4. WritesOwn(r) => turn.owner = r
        BY <1>1, NoTurnHasNoOwner DEF WritesOwn, WritableBy, OwnedBy, OwnerInv, TurnHasOwner
    <2> QED
        BY <2>1, <2>2, <2>3, <2>4 DEF Writes
<1>2. OwnerInv /\ [Next]_vars => [\A r \in Runs : ActsFor(r) /\ turn' # turn => turn.owner = r \/ Begins(r)]_vars
    BY <1>1
<1> QED
    BY <1>2, OwnerInvariant, PTL DEF Spec, OnlyTheOwnerWrites

(* A reply that ended stays as it ended, whichever of its writers comes    *)
(* late, until a later run of the turn begins, or a begin that was under   *)
(* way when its run was cancelled (withEnd, startTurn of head.ts).         *)
THEOREM EndedStays == Spec => EndedReplyStays
<1>1. ASSUME OwnerInv, [Next]_vars, HasEnded(turn), turn' # turn
      PROVE  \E r \in Runs : Begins(r) /\ Later(r)
    <2>1. PICK r \in Runs : Writes(r)
        BY <1>1, TurnStep DEF OwnerInv
    <2>2. Takes(r)
        BY <1>1, <2>1 DEF Writes, WritesOwn, WritableBy
    <2>3. Begins(r)
        BY <2>2, BeginOwner DEF Takes, Begins, At
    <2>4. turn.owner \in Runs /\ wf[turn.owner] # "none"
        BY <1>1, NoTurnHasNoOwner DEF OwnerInv, TurnHasOwner, OwnerStarted
    <2>5. r >= turn.owner \/ r < turn.owner
        BY <2>4, ConstantsAssumption DEF Runs
    <2>6. Later(r)
        BY <1>1, <2>4, <2>5 DEF OwnerInv, InOrder, Later
    <2> QED
        BY <2>3, <2>6
<1>2. OwnerInv /\ [Next]_vars =>
          [HasEnded(turn) /\ turn' # turn => \E r \in Runs : Begins(r) /\ Later(r)]_vars
    BY <1>1
<1> QED
    BY <1>2, OwnerInvariant, PTL DEF Spec, EndedReplyStays
=============================================================================
