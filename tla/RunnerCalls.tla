----------------------------- MODULE RunnerCalls -----------------------------
(***************************************************************************)
(* No call of a reply runs twice.  A call runs once a save that names it   *)
(* has landed, and whoever carries the reply on reads its steps from what  *)
(* was saved: from the head, or from the outcome of the run that failed.   *)
(* So everything a reply may be carried on from covers every call that     *)
(* ran, and every call that may still run, of a process that is cancelled  *)
(* and does not know it yet too.                                           *)
(***************************************************************************)
EXTENDS RunnerGrants

(* The lineage of the turn's steps is the one its owner joined, and its    *)
(* steps answered the message the turn holds; an end that was lost could   *)
(* not be saved; only a retry carries steps.                               *)
OwnerJoined == turn # NoTurn => joined[turn.owner] = lineage.by
NoneIsEmpty == turn.reply.status = "none" => turn.reply.steps = 0
AnswersTurn == turn # NoTurn /\ ~lineage.late => lineage.msg = turn.msg
LostIsUnsaved == lostEnd \subseteq unsaved
RetriesCarry == \A r \in Runs : At(r, "startTurn") /\ ex[r].from # NoPoint => input[r].kind = "retry"
Basics == OwnerJoined /\ NoneIsEmpty /\ AnswersTurn /\ LostIsUnsaved /\ RetriesCarry

(* Run q may run the call it holds: it is asked for, and saved.            *)
MayRun(q) == joined[q] = lineage.by /\ ex[q].pc = "running" /\ ex[q].call = "asked" /\ ex[q].saved

(* No call after the first n ran, nor may run but by run q.                *)
AllBut(q, n) ==
    /\ \A i \in 1..StepLimit : i > n => timesRan[i] = 0
    /\ \A p \in Runs \ {q} : MayRun(p) => ex[p].mem <= n
Covers(n) == AllBut(NoRun, n)

CallsApart == \A p, q \in Runs : MayRun(p) /\ MayRun(q) /\ p # q => ex[p].mem # ex[q].mem
CallsNew == \A q \in Runs : MayRun(q) => timesRan[ex[q].mem] = 0
OnceEach == NothingRunsTwice /\ CallsApart /\ CallsNew

(* The head's steps, where a reply can be carried on from them; those of a *)
(* pass that can still save; the end it is to save; the point it leaves.   *)
CarriesOn(t) == t.reply.status \in {"none", "running"} \/ t.reply.note = "interrupted"
HeadCovers == CarriesOn(turn) => Covers(turn.reply.steps)
Asked(r) == IF ex[r].call = "asked" THEN ex[r].mem - 1 ELSE ex[r].mem
PassCovers(r) == At(r, "running") /\ Open(r) => AllBut(r, Asked(r))
PauseCovers(r) ==
    At(r, "endSave") /\ Open(r) /\ ex[r].reply.note = "interrupted" => Covers(ex[r].reply.steps)
Leaving == {"endSave", "endJournal", "passDone"}
LeftCovers(r) ==
    Owns(r) =>
        /\ Live(r) /\ ex[r].pc \in Leaving /\ ex[r].out.resume # NoPoint => Covers(ex[r].out.resume)
        /\ output[r].resume # NoPoint => Covers(output[r].resume)
RunCovers(r) == PassCovers(r) /\ PauseCovers(r) /\ LeftCovers(r)

CallsSound == OnceEach /\ HeadCovers /\ \A r \in Runs : RunCovers(r)

(* What the property excepts.                                              *)
Clean == ~lineage.stale /\ unsaved = {} /\ rerun = {}

CallsInv == HeadInv /\ Basics /\ (Clean => CallsSound)

LEMMA InitCalls == Init => CallsInv
<1> SUFFICES ASSUME Init PROVE CallsInv
    OBVIOUS
<1>1. /\ turn = NoTurn /\ lostEnd = {} /\ \A r \in Runs : ex[r].pc = "idle" /\ output[r] = NoOutput
      /\ \A i \in 1..StepLimit : timesRan[i] = 0
    BY DEF Init, Idle
<1>2. NoTurn.reply.status = "none" /\ NoTurn.reply.steps = 0 /\ NoOutput.resume = NoPoint
    BY DEF NoTurn, NoReply, NoOutput
<1>3. Basics
    BY <1>1, <1>2 DEF Basics, OwnerJoined, NoneIsEmpty, AnswersTurn, LostIsUnsaved, RetriesCarry, At
<1>4. \A r \in Runs : ~MayRun(r)
    BY <1>1 DEF MayRun
<1>5. OnceEach /\ HeadCovers
    BY <1>1, <1>4 DEF OnceEach, NothingRunsTwice, CallsApart, CallsNew, HeadCovers, Covers, AllBut
<1>6. \A r \in Runs : RunCovers(r)
    BY <1>1, <1>2 DEF RunCovers, PassCovers, PauseCovers, LeftCovers, Leaving, At
<1> QED
    BY <1>3, <1>5, <1>6, InitHead DEF CallsInv, CallsSound
-----------------------------------------------------------------------------
(* Lemmas of any step.                                                     *)

(* A step of run r, and what it leaves alone.                              *)
Step(r) ==
    \/ Dequeue(r) \/ Execute(r) \/ Recover(r) \/ HearStop(r) \/ CheckCancelled(r)
    \/ EndFromHead(r) \/ StopByKeySignal(r) \/ ForceStop(r) \/ Maintain(r) \/ Environment(r)

LEMMA StepIsApart ==
    ASSUME GrantInv, NEW r \in Runs, Step(r)
    PROVE  Apart(r) /\ [Next]_vars
<1>1. [Next]_vars
    BY DEF Next, Step
<1> QED
    BY <1>1, QuietGrants, SignalGrants, CancelGrants, StartGrants, RecoverGrants, BeginGrants, PassGrants,
       EmitGrants, EndGrants, FinishGrants, OutsideGrants
       DEF Step, Execute, Environment, ForceStop, Maintain

(* The ranges that the steps are counted in.                               *)
LEMMA CallTypes ==
    ASSUME TypeInv, NEW q \in Runs
    PROVE  /\ ex[q] \in Executions /\ ex[q].mem \in Counts /\ ex[q].mem \in Int
           /\ Asked(q) \in Int /\ Asked(q) <= ex[q].mem
           /\ ex[q].call = "asked" => ex[q].mem \in 1..StepLimit
           /\ ex[q].out.resume \in Int /\ output[q].resume \in Int
           /\ turn.reply.steps \in Counts /\ turn.reply.steps \in Int
<1>1. ex[q] \in Executions /\ ex[q].mem \in Counts /\ CallHasStep(ex[q])
    BY DEF TypeInv, TypeOK, ExecutionsOK, ExecutionsSound, Executions
<1>2. turn.reply.steps \in Counts
    BY TurnReplyType DEF TypeInv, TypeOK, TurnOK
<1>3. output[q] \in Outputs /\ ex[q].out \in Outputs
    BY <1>1 DEF TypeInv, TypeOK, WorkflowsOK, Executions
<1>4. StepLimit \in Int /\ Counts \subseteq Int
    BY ConstantsAssumption DEF Counts
<1>5. Points \subseteq Int
    BY <1>4 DEF Points, NoPoint
<1>6. output[q].resume \in Int /\ ex[q].out.resume \in Int
    BY <1>3, <1>5 DEF Outputs
<1>7. ex[q].mem \in Int /\ Asked(q) \in Int /\ Asked(q) <= ex[q].mem
    <2>1. ex[q].mem \in Int
        BY <1>1, <1>4
    <2> QED
        BY <2>1 DEF Asked
<1>8. ex[q].call = "asked" => ex[q].mem \in 1..StepLimit
    BY <1>1, <1>4 DEF CallHasStep, Counts
<1> QED
    BY <1>1, <1>2, <1>4, <1>6, <1>7, <1>8

(* What AllBut says after a step.                                          *)
AllButNext(q, n) ==
    /\ \A i \in 1..StepLimit : i > n => timesRan'[i] = 0
    /\ \A p \in Runs \ {q} : MayRun(p)' => ex'[p].mem <= n
Carried(r) == \A q \in Runs \cup {NoRun}, n \in Int : q # r /\ AllBut(q, n) => AllButNext(q, n)

(* A step that runs no call and lets none run.                             *)
Calm == timesRan' = timesRan /\ \A q \in Runs : MayRun(q)' => MayRun(q) /\ ex'[q].mem = ex[q].mem

LEMMA CalmCarries ==
    ASSUME Calm, NEW r \in Runs
    PROVE  /\ Carried(r)
           /\ \A q, n : AllBut(q, n) => AllButNext(q, n)
           /\ OnceEach => OnceEach'
<1>1. \A q, n : AllBut(q, n) => AllButNext(q, n)
    BY DEF Calm, AllBut, AllButNext
<1>2. OnceEach => OnceEach'
    BY DEF Calm, OnceEach, NothingRunsTwice, CallsApart, CallsNew
<1> QED
    BY <1>1, <1>2 DEF Carried

(* A turn that another run takes, or writes, is none a run owned.          *)
LEMMA OwnsByTaking ==
    ASSUME HeadInv, NEW r \in Runs, turn' = turn \/ Writes(r), NEW q \in Runs, q # r
    PROVE  (Owns(q)' => Owns(q) /\ turn' = turn) /\ (Open(q)' => Open(q))
<1>1. Takes(r) => turn'.owner = r
    BY BeginOwner DEF Takes
<1>2. WritesOwn(r) => turn'.owner = r
    BY NoTurnHasNoOwner DEF WritesOwn, WritableBy, OwnedBy, HeadInv, GrantInv, OwnerInv, TurnHasOwner
<1>3. Owns(q)' => Owns(q) /\ turn' = turn
    BY <1>1, <1>2 DEF Writes, Owns
<1> QED
    BY <1>3 DEF Open, Owns, HasEnded

(* What the other runs cover stays covered.                                *)
LEMMA OthersCover ==
    ASSUME HeadInv, CallsSound, NEW r \in Runs, Apart(r), Carried(r), turn' = turn \/ Writes(r)
    PROVE  \A q \in Runs : q # r => RunCovers(q)'
<1> SUFFICES ASSUME NEW q \in Runs, q # r PROVE RunCovers(q)'
    OBVIOUS
<1>0. TypeInv /\ RunCovers(q) /\ Same(q) /\ ex'[q] = ex[q]
    BY DEF HeadInv, GrantInv, OwnerInv, CallsSound, Apart
<1>1. (Owns(q)' => Owns(q)) /\ (Open(q)' => Open(q)) /\ (Live(q)' => Live(q)) /\ output'[q] = output[q]
    BY <1>0, OwnsByTaking DEF Same, Live
<1>2. /\ Asked(q) \in Int /\ ex[q].out.resume \in Int /\ output[q].resume \in Int
      /\ NoRun \notin Runs
    BY <1>0, CallTypes, NoTurnHasNoOwner
<1>3. AllBut(q, Asked(q)) => AllButNext(q, Asked(q))
    BY <1>2 DEF Carried
<1>4. \A n \in Int : Covers(n) => AllButNext(NoRun, n)
    BY <1>2 DEF Carried, Covers
<1>5. PassCovers(q)'
    BY <1>0, <1>1, <1>3 DEF RunCovers, PassCovers, At, Asked, AllBut, AllButNext
<1>6. PauseCovers(q)'
    <2>1. SUFFICES ASSUME At(q, "endSave")', Open(q)', ex'[q].reply.note = "interrupted"
                   PROVE  AllButNext(NoRun, ex'[q].reply.steps)
        BY DEF PauseCovers, Covers, AllBut, AllButNext
    <2>2. Covers(ex[q].reply.steps)
        BY <1>0, <1>1, <2>1 DEF RunCovers, PauseCovers, At
    <2>3. ex[q].reply.steps \in Int
        <3>1. ex[q].reply \in Replies
            BY <1>0, <2>1 DEF TypeInv, ExecutionsSound, EndStands, At
        <3> QED
            BY <3>1, ConstantsAssumption DEF Replies, Counts
    <2> QED
        BY <1>0, <1>4, <2>2, <2>3
<1>7. LeftCovers(q)'
    BY <1>0, <1>1, <1>2, <1>4 DEF RunCovers, LeftCovers, Covers, AllBut, AllButNext
<1> QED
    BY <1>5, <1>6, <1>7 DEF RunCovers

(* So a step of run r that writes no turn is sound when r covers still.    *)
LEMMA CalmStays ==
    ASSUME HeadInv, CallsSound, NEW r \in Runs, Apart(r), Calm, turn' = turn, RunCovers(r)'
    PROVE  CallsSound'
<1>1. \A q \in Runs : RunCovers(q)'
    BY CalmCarries, OthersCover
<1>2. OnceEach'
    BY CalmCarries DEF CallsSound
<1>3. HeadCovers'
    <2>1. SUFFICES ASSUME CarriesOn(turn) PROVE AllButNext(NoRun, turn.reply.steps)
        BY DEF HeadCovers, CarriesOn, Covers, AllBut, AllButNext
    <2> QED
        BY <2>1, CalmCarries DEF CallsSound, HeadCovers, Covers
<1> QED
    BY <1>1, <1>2, <1>3 DEF CallsSound

(* A run comes to run by being taken from the queue only.                  *)
LEMMA LiveComes ==
    ASSUME TypeInv, NEW r \in Runs, Step(r), ~Dequeue(r)
    PROVE  Live(r)' => Live(r)
<1>1. CASE (\E kind \in Kinds : Start(r, kind)) \/ Return(r) \/ Fail(r) \/ Recover(r)
    <2>1. \/ wf' = [wf EXCEPT ![r] = "ENQUEUED"]
          \/ \E status \in {"SUCCESS", "ERROR"} :
                 wf' = [wf EXCEPT ![r] = IF wf[r] = "PENDING" THEN status ELSE wf[r]]
          \/ wf' = wf \/ wf' = [wf EXCEPT ![r] = "EXCEEDED"]
        BY <1>1 DEF Start, Return, Fail, Recover
    <2> QED
        BY <2>1 DEF TypeInv, TypeOK, WorkflowsOK, Live
<1>2. CASE TimedOut(r) \/ SweepCancel(r) \/ ForceCancel(r)
    <2>1. wf' = [wf EXCEPT ![r] = IF wf[r] \in Active THEN "CANCELLED" ELSE wf[r]]
        BY <1>2 DEF TimedOut, SweepCancel, ForceCancel, Cancel
    <2> QED
        BY <2>1 DEF TypeInv, TypeOK, WorkflowsOK, Live
<1>3. CASE \/ BeginRead(r) \/ AskCall(r) \/ FinishStep(r) \/ PassAlreadyEnded(r)
           \/ ReplyDone(r) \/ ReplyFails(r) \/ ReplyAborted(r)
           \/ (\E why \in {"ran_out", "paused"} : Abort(r, why))
           \/ HearStop(r) \/ CheckCancelled(r) \/ Crash(r) \/ SendDone(r)
    <2>1. UNCHANGED shared
        BY <1>3 DEF BeginRead, AskCall, FinishStep, PassAlreadyEnded, ReplyDone, ReplyFails, ReplyAborted, Abort,
               HearStop, CheckCancelled, Crash, SendDone
    <2> QED
        BY <2>1 DEF shared, workflows, Live
<1>4. CASE \/ BeginSave(r) \/ BeginRecord(r) \/ BeginThrows(r)
           \/ PassEndsFromHead(r) \/ PassBegins(r) \/ EmitStart(r) \/ PassThrows(r)
           \/ SaveProgress(r) \/ SaveAnswerLost(r) \/ RunCall(r)
           \/ EndSave(r) \/ EndSaveFails(r) \/ EndJournal(r) \/ PassRecord(r) \/ Forget(r) \/ FailedSave(r)
    BY <1>4 DEF BeginSave, BeginRecord, BeginThrows, PassEndsFromHead, PassBegins, EmitStart, PassThrows,
           SaveProgress, SaveAnswerLost, RunCall, EndSave, EndSaveFails, EndJournal, PassRecord, Forget, FailedSave,
           workflows, Live
<1>5. CASE \/ EndFromHead(r) \/ StopByKeySignal(r) \/ ForceCheck(r) \/ ForceEnd(r) \/ SweepEnd(r) \/ Repair(r)
           \/ Upgrade(r) \/ Stop(r) \/ StopByKeyMark(r)
    BY <1>5 DEF EndFromHead, StopByKeySignal, ForceCheck, ForceEnd, SweepEnd, Repair, Upgrade, Stop,
           StopByKeyMark, workflows, Live
<1> QED
    BY <1>1, <1>2, <1>3, <1>4, <1>5 DEF Step, Execute, Environment, ForceStop, Maintain

(* Who writes the lineage of the calls, and the runs whose end went wrong. *)
LEMMA HistoryStays ==
    ASSUME NEW r \in Runs, Step(r)
    PROVE  /\ (lineage' = lineage /\ joined' = joined) \/ BeginSave(r) \/ BeginThrows(r)
           /\ timesRan' = timesRan \/ BeginSave(r) \/ BeginThrows(r) \/ RunCall(r)
           /\ (unsaved' = {} => unsaved = {}) /\ (rerun' = {} => rerun = {})
           /\ LostIsUnsaved => LostIsUnsaved'
<1>1. CASE \/ BeginRead(r) \/ AskCall(r) \/ FinishStep(r) \/ PassAlreadyEnded(r)
           \/ ReplyDone(r) \/ ReplyFails(r) \/ ReplyAborted(r)
           \/ (\E why \in {"ran_out", "paused"} : Abort(r, why))
           \/ HearStop(r) \/ CheckCancelled(r) \/ Crash(r) \/ SendDone(r)
    <2>1. UNCHANGED shared
        BY <1>1 DEF BeginRead, AskCall, FinishStep, PassAlreadyEnded, ReplyDone, ReplyFails, ReplyAborted, Abort,
               HearStop, CheckCancelled, Crash, SendDone
    <2> QED
        BY <2>1 DEF shared, history, lineages, ends, LostIsUnsaved
<1>2. CASE \/ (\E kind \in Kinds : Start(r, kind)) \/ Dequeue(r) \/ Return(r) \/ Fail(r) \/ Recover(r)
           \/ BeginSave(r) \/ BeginRecord(r) \/ BeginThrows(r)
           \/ PassEndsFromHead(r) \/ PassBegins(r) \/ EmitStart(r) \/ PassThrows(r)
           \/ SaveProgress(r) \/ SaveAnswerLost(r) \/ RunCall(r)
    BY <1>2 DEF Start, Dequeue, Return, Fail, Recover, BeginSave, BeginRecord, BeginThrows, PassEndsFromHead,
           PassBegins, EmitStart, PassThrows, SaveProgress, SaveAnswerLost, RunCall, history, lineages, ends,
           LostIsUnsaved
<1>3. CASE \/ EndSave(r) \/ EndSaveFails(r) \/ EndJournal(r) \/ PassRecord(r) \/ Forget(r) \/ FailedSave(r)
           \/ TimedOut(r) \/ SweepCancel(r) \/ ForceCancel(r)
           \/ EndFromHead(r) \/ StopByKeySignal(r) \/ ForceCheck(r) \/ ForceEnd(r) \/ SweepEnd(r) \/ Repair(r)
           \/ Upgrade(r) \/ Stop(r) \/ StopByKeyMark(r)
    BY <1>3 DEF EndSave, EndSaveFails, EndJournal, PassRecord, Forget, FailedSave, TimedOut, SweepCancel,
           ForceCancel, EndFromHead, StopByKeySignal, ForceCheck, ForceEnd, SweepEnd, Repair, Upgrade, Stop,
           StopByKeyMark, history, lineages, ends, LostIsUnsaved
<1> QED
    BY <1>1, <1>2, <1>3 DEF Step, Execute, Environment, ForceStop, Maintain

(* A step that runs no call, where it lets run r run none, is calm.        *)
LEMMA ApartIsCalm ==
    ASSUME NEW r \in Runs, Apart(r), lineage' = lineage, joined' = joined, timesRan' = timesRan,
           MayRun(r)' => MayRun(r) /\ ex'[r].mem = ex[r].mem
    PROVE  Calm
BY DEF Calm, Apart, MayRun

(* Where the execution of r is, or goes, no pass of it is followed.        *)
LEMMA AsideCovers ==
    ASSUME HeadInv, CallsSound, NEW r \in Runs, Apart(r), lineage' = lineage, joined' = joined,
           timesRan' = timesRan, turn' = turn,
           output'[r] = output[r] \/ output'[r].resume = NoPoint,
           \/ ex'[r].pc \notin Leaving \cup {"running"}
           \/ ex'[r] = ex[r] /\ (Live(r)' => Live(r))
    PROVE  CallsSound'
<1>0. RunCovers(r) /\ TypeInv
    BY DEF CallsSound, HeadInv, GrantInv, OwnerInv
<1>1. Calm
    <2>1. MayRun(r)' => MayRun(r) /\ ex'[r].mem = ex[r].mem
        BY DEF MayRun
    <2> QED
        BY <2>1, ApartIsCalm
<1>2. \A q, n : AllBut(q, n) => AllButNext(q, n)
    BY <1>1, CalmCarries
<1>3. (Owns(r)' <=> Owns(r)) /\ (Open(r)' <=> Open(r))
    BY DEF Owns, Open, HasEnded
<1>4. PassCovers(r)'
    BY <1>0, <1>2, <1>3 DEF RunCovers, PassCovers, At, Asked, AllBut, AllButNext
<1>5. PauseCovers(r)'
    BY <1>0, <1>2, <1>3 DEF RunCovers, PauseCovers, At, Leaving, Covers, AllBut, AllButNext
<1>6. LeftCovers(r)'
    BY <1>0, <1>2, <1>3 DEF RunCovers, LeftCovers, Covers, AllBut, AllButNext
<1> QED
    BY <1>1, <1>4, <1>5, <1>6, CalmStays DEF RunCovers
-----------------------------------------------------------------------------
(* The steps that write no turn.                                           *)

(* Those that follow no pass: they start, take, stop, cut off or end a run *)
(* from its queue to its grant.                                            *)
LEMMA AsideCalls ==
    ASSUME HeadInv, CallsSound, NEW r \in Runs,
           \/ (\E kind \in Kinds : Start(r, kind)) \/ Dequeue(r) \/ Recover(r) \/ Crash(r) \/ Upgrade(r)
           \/ BeginRead(r) \/ BeginRecord(r) \/ PassThrows(r)
           \/ SendDone(r) \/ Forget(r) \/ Return(r) \/ Fail(r)
           \/ TimedOut(r) \/ Stop(r) \/ StopByKeyMark(r) \/ StopByKeySignal(r)
           \/ ForceCheck(r) \/ ForceCancel(r) \/ SweepCancel(r)
    PROVE  CallsSound'
<1>0. GrantInv /\ TypeInv /\ Step(r)
    BY DEF HeadInv, GrantInv, OwnerInv, Step, Execute, Environment, ForceStop, Maintain
<1>1. Apart(r)
    BY <1>0, StepIsApart
<1>2. turn' = turn
    BY TurnStays
<1>3. lineage' = lineage /\ joined' = joined /\ timesRan' = timesRan
    <2>1. CASE BeginRead(r) \/ Crash(r) \/ SendDone(r)
        <3>1. UNCHANGED shared
            BY <2>1 DEF BeginRead, Crash, SendDone
        <3> QED
            BY <3>1 DEF shared, history, lineages
    <2>2. CASE ~(BeginRead(r) \/ Crash(r) \/ SendDone(r))
        BY <2>2 DEF Start, Dequeue, Recover, Upgrade, BeginRecord, PassThrows, Forget, Return, Fail, TimedOut,
               Stop, StopByKeyMark, StopByKeySignal, ForceCheck, ForceCancel, SweepCancel, history, lineages
    <2> QED
        BY <2>1, <2>2
<1>4. output'[r] = output[r] \/ output'[r].resume = NoPoint
    <2>1. CASE PassThrows(r)
        BY <1>0, <2>1 DEF PassThrows, Threw, TypeInv, TypeOK, WorkflowsOK
    <2>2. CASE BeginRead(r) \/ Crash(r) \/ SendDone(r)
        <3>1. UNCHANGED shared
            BY <2>2 DEF BeginRead, Crash, SendDone
        <3> QED
            BY <3>1 DEF shared, workflows
    <2>3. CASE ~(PassThrows(r) \/ BeginRead(r) \/ Crash(r) \/ SendDone(r))
        BY <2>3 DEF Start, Dequeue, Recover, Upgrade, BeginRecord, Forget, Return, Fail, TimedOut,
               Stop, StopByKeyMark, StopByKeySignal, ForceCheck, ForceCancel, SweepCancel, workflows
    <2> QED
        BY <2>1, <2>2, <2>3
<1>5. \/ ex'[r].pc \notin Leaving \cup {"running"}
      \/ ex'[r] = ex[r] /\ (Live(r)' => Live(r))
    <2>1. CASE Dequeue(r) \/ BeginRecord(r) \/ PassThrows(r) \/ SendDone(r) \/ Return(r) \/ Fail(r) \/ Crash(r)
        <3>1. \/ Set(r, Idle) \/ Goto(r, "forget")
              \/ \E pc \in {"begin", "failing", "pass"} : Set(r, [Idle EXCEPT !.pc = pc])
            BY <2>1 DEF Dequeue, BeginRecord, PassThrows, SendDone, Return, Fail, Crash
        <3>2. CASE Set(r, Idle)
            BY <1>0, <3>2, SetsOne, Places DEF Leaving
        <3>3. CASE Goto(r, "forget")
            BY <1>0, <3>3, GrantTypes DEF Leaving
        <3>4. CASE \E pc \in {"begin", "failing", "pass"} : Set(r, [Idle EXCEPT !.pc = pc])
            BY <1>0, <3>4, SetsPlace DEF Leaving
        <3> QED
            BY <3>1, <3>2, <3>3, <3>4
    <2>2. CASE (Recover(r) \/ Forget(r)) /\ ~Dequeue(r)
        <3>1. \/ \E pc \in {"return", "begin", "failing", "pass", "send"} : Goto(r, pc)
              \/ UNCHANGED ex
            BY <2>2 DEF Recover, Forget
        <3> QED
            BY <1>0, <2>2, <3>1, GrantTypes, LiveComes DEF Leaving
    <2>3. CASE BeginRead(r)
        BY <1>0, <2>3, StepIsApart, QuietGrants DEF Lingers, BeginRead, At, Leaving
    <2>4. CASE /\ \/ (\E kind \in Kinds : Start(r, kind)) \/ Upgrade(r)
                  \/ TimedOut(r) \/ Stop(r) \/ StopByKeyMark(r) \/ StopByKeySignal(r)
                  \/ ForceCheck(r) \/ ForceCancel(r) \/ SweepCancel(r)
               /\ ~Dequeue(r)
        <3>1. UNCHANGED ex
            BY <2>4 DEF Start, Upgrade, TimedOut, Stop, StopByKeyMark, StopByKeySignal, ForceCheck, ForceCancel,
                   SweepCancel
        <3> QED
            BY <1>0, <2>4, <3>1, LiveComes
    <2> QED
        BY <2>1, <2>2, <2>3, <2>4
<1> QED
    BY <1>1, <1>2, <1>3, <1>4, <1>5, AsideCovers

(* More steps cover what fewer do, and the run's own call may be among     *)
(* them.                                                                   *)
LEMMA Wider ==
    ASSUME TypeInv, NEW q \in Runs \cup {NoRun}, NEW n \in Int, NEW m \in Int, n <= m, AllBut(q, n)
    PROVE  /\ AllBut(q, m)
           /\ (q \in Runs /\ MayRun(q) => ex[q].mem <= m) => Covers(m)
<1>1. AllBut(q, m)
    BY CallTypes DEF AllBut
<1> QED
    BY <1>1 DEF Covers, AllBut

(* The other way: what covers every run covers all but one.                *)
LEMMA CoversAllBut ==
    ASSUME NEW r \in Runs, NEW n, Covers(n)
    PROVE  AllBut(r, n)
BY NoTurnHasNoOwner DEF Covers, AllBut

(* The model answers, a step finishes, or the pass is told to stop.        *)
LEMMA AskCalls ==
    ASSUME HeadInv, CallsSound, NEW r \in Runs,
           \/ AskCall(r) \/ FinishStep(r) \/ HearStop(r) \/ CheckCancelled(r)
           \/ (\E why \in {"ran_out", "paused"} : Abort(r, why))
    PROVE  CallsSound'
<1>0. GrantInv /\ TypeInv /\ Step(r) /\ RunCovers(r)
    BY DEF HeadInv, GrantInv, OwnerInv, Step, Execute, Environment, CallsSound
<1>1. UNCHANGED shared
    BY DEF AskCall, FinishStep, HearStop, CheckCancelled, Abort
<1>2. UNCHANGED <<turn, lineage, joined, timesRan, output, wf>>
    BY <1>1 DEF shared, history, lineages, workflows
<1>3. Apart(r)
    BY <1>0, StepIsApart
<1>4. ex[r] \in Executions /\ ex[r].mem \in Int /\ Asked(r) \in Int /\ Asked(r) <= ex[r].mem
    BY <1>0, CallTypes
<1>5. /\ ex'[r].pc = ex[r].pc /\ ex[r].pc \in {"pass", "running"}
      /\ MayRun(r)' => MayRun(r) /\ ex'[r].mem = ex[r].mem
      /\ Asked(r)' \in Int /\ Asked(r) <= Asked(r)'
    <2>1. CASE AskCall(r)
        <3> DEFINE e == [ex[r] EXCEPT !.mem = @ + 1, !.saved = FALSE, !.call = "asked"]
        <3>1. e.pc = ex[r].pc /\ ~e.saved /\ e.mem = ex[r].mem + 1 /\ e.call = "asked"
            BY <1>4 DEF Executions
        <3>2. Set(r, e) /\ ex[r].pc = "running" /\ ex[r].call = "none"
            BY <2>1 DEF AskCall, Going, At
        <3> HIDE DEF e
        <3>3. ex'[r] = e
            BY <1>0, <3>2, GrantTypes
        <3> QED
            BY <1>4, <3>1, <3>2, <3>3 DEF MayRun, Asked
    <2>2. CASE FinishStep(r)
        <3> DEFINE e == [ex[r] EXCEPT !.call = "none"]
        <3>1. e.pc = ex[r].pc /\ e.mem = ex[r].mem /\ e.call = "none"
            BY <1>4 DEF Executions
        <3>2. Set(r, e) /\ ex[r].pc = "running"
            BY <2>2 DEF FinishStep, Going, At
        <3> HIDE DEF e
        <3>3. ex'[r] = e
            BY <1>0, <3>2, GrantTypes
        <3> QED
            BY <1>4, <3>1, <3>2, <3>3 DEF MayRun, Asked
    <2>3. CASE HearStop(r) \/ CheckCancelled(r) \/ (\E why \in {"ran_out", "paused"} : Abort(r, why))
        <3>1. PICK why : Set(r, [ex[r] EXCEPT !.why = why])
            BY <2>3 DEF HearStop, CheckCancelled, Abort
        <3> DEFINE e == [ex[r] EXCEPT !.why = why]
        <3>2. e.pc = ex[r].pc /\ e.mem = ex[r].mem /\ e.call = ex[r].call /\ e.saved = ex[r].saved
            BY <1>4 DEF Executions
        <3>3. Set(r, e)
            BY <3>1
        <3> HIDE DEF e
        <3>4. ex'[r] = e
            BY <1>0, <3>3, GrantTypes
        <3>5. ex[r].pc \in {"pass", "running"}
            BY <2>3 DEF HearStop, CheckCancelled, Abort, Going, At
        <3> QED
            BY <1>2, <1>4, <3>2, <3>4, <3>5 DEF MayRun, Asked
    <2> QED
        BY <2>1, <2>2, <2>3
<1>6. Calm
    BY <1>2, <1>3, <1>5, ApartIsCalm
<1>7. PassCovers(r)'
    <2>1. SUFFICES ASSUME At(r, "running")', Open(r)' PROVE AllButNext(r, Asked(r)')
        BY DEF PassCovers, AllBut, AllButNext
    <2>2. AllBut(r, Asked(r))
        BY <1>0, <1>2, <1>5, <2>1 DEF RunCovers, PassCovers, At, Open, HasEnded
    <2>3. AllBut(r, Asked(r)')
        <3>1. \A m \in Int : Asked(r) <= m => AllBut(r, m)
            BY <1>0, <1>4, <2>2, Wider
        <3> QED
            BY <1>5, <3>1
    <2> QED
        BY <1>6, <2>3, CalmCarries
<1>8. PauseCovers(r)'
    BY <1>5 DEF PauseCovers, At
<1>9. LeftCovers(r)'
    BY <1>0, <1>2, <1>5, <1>6, CalmCarries
       DEF RunCovers, LeftCovers, Leaving, Owns, Covers, AllBut, AllButNext
<1> QED
    BY <1>2, <1>3, <1>6, <1>7, <1>8, <1>9, CalmStays DEF RunCovers

(* What EndWith keeps of the reply it ends.                                *)
LEMMA EndingExecution ==
    ASSUME TypeInv, NEW r \in Runs, NEW e, NEW status, NEW reply, NEW resume,
           Set(r, EndWith(e, status, reply, resume))
    PROVE  ex'[r].pc = "endSave" /\ ex'[r].reply = reply /\ ex'[r].out.resume = resume
<1> DEFINE out == [status |-> status, resume |-> resume]
           f == [Idle EXCEPT !.pc = "endSave", !.emits = e.emits, !.reply = reply, !.out = out]
<1>1. Set(r, f)
    BY DEF EndWith
<1>2. f.pc = "endSave" /\ f.reply = reply /\ f.out.resume = resume
    BY DEF Idle
<1> HIDE DEF f
<1>3. ex'[r] = f
    BY <1>1, GrantTypes
<1> QED
    BY <1>2, <1>3

(* A reply that fails, where its last step made no call, leaves the steps  *)
(* it has, and they cover what ran; one that pauses ends with those the    *)
(* head holds.                                                             *)
LEMMA OutcomeCalls ==
    ASSUME HeadInv, Basics, Clean, CallsSound, NEW r \in Runs, ReplyDone(r) \/ ReplyFails(r) \/ ReplyAborted(r)
    PROVE  CallsSound'
<1>0. GrantInv /\ TypeInv /\ Step(r) /\ RunCovers(r) /\ GrantSound(r) /\ HeadSound(r)
    BY DEF HeadInv, GrantInv, OwnerInv, Step, Execute, CallsSound
<1>1. UNCHANGED shared
    BY DEF ReplyDone, ReplyFails, ReplyAborted
<1>2. UNCHANGED <<turn, lineage, joined, timesRan, output, wf>>
    BY <1>1 DEF shared, history, lineages, workflows
<1>3. Apart(r)
    BY <1>0, StepIsApart
<1>4. ex[r].pc = "running"
    BY DEF ReplyDone, ReplyFails, ReplyAborted, Going, At
<1>5. PICK status, reply, resume :
          /\ Set(r, EndWith(ex[r], status, reply, resume))
          /\ resume # NoPoint => ex[r].call = "none" /\ resume = ex[r].mem
          /\ reply.note = "interrupted" =>
                 reply.steps = IF StoreReachable /\ turn # NoTurn /\ ~HasEnded(turn)
                               THEN turn.reply.steps ELSE Finished(r)
    <2>1. \A s, n, note : Reply(s, n, note).steps = n /\ Reply(s, n, note).note = note
        BY DEF Reply
    <2>2. CASE ReplyDone(r)
        <3> DEFINE ranOut == ex[r].mem + 1 >= StepLimit
                   over == IF ranOut THEN "ran_out" ELSE "done"
                   last == Reply("done", ex[r].mem, IF ranOut THEN "ranOut" ELSE "plain")
        <3>1. Set(r, EndWith(ex[r], over, last, NoPoint))
            BY <2>2 DEF ReplyDone
        <3>2. last.note # "interrupted"
            BY <2>1
        <3> HIDE DEF over, last
        <3> QED
            BY <3>1, <3>2
    <2>3. CASE ReplyFails(r)
        BY <2>1, <2>3 DEF ReplyFails, LeavesPoint
    <2>4. CASE ReplyAborted(r)
        BY <2>1, <2>4 DEF ReplyAborted
    <2> QED
        BY <2>2, <2>3, <2>4
<1>6. ex'[r].pc = "endSave" /\ ex'[r].reply = reply /\ ex'[r].out.resume = resume
    BY <1>0, <1>5, EndingExecution
<1>7. Calm
    <2>1. ~MayRun(r)'
        BY <1>6 DEF MayRun
    <2> QED
        BY <1>2, <1>3, <2>1, ApartIsCalm
<1>8. \A n : Covers(n) => AllButNext(NoRun, n)
    BY <1>7, CalmCarries DEF Covers
<1>9. PassCovers(r)'
    BY <1>6 DEF PassCovers, At
<1>10. PauseCovers(r)'
    <2>1. SUFFICES ASSUME Open(r)', reply.note = "interrupted" PROVE AllButNext(NoRun, reply.steps)
        BY <1>6 DEF PauseCovers, Covers, AllBut, AllButNext
    <2>2. Open(r)
        BY <1>2, <2>1 DEF Open, HasEnded
    <2>3. ~Excused(r)
        BY <1>0, <1>4
           DEF GrantSound, InStepOrder, Excused, ThrewAStep, BeganLate, PassPcs, Beginning, NoOutput, Threw,
               Basics, LostIsUnsaved, Clean
    <2>4. StoreReachable
        BY <1>0, <2>2, <2>3 DEF GrantSound, GrantToEnd, StoreReachable
    <2>5. turn # NoTurn /\ ~HasEnded(turn)
        BY <2>2, NoTurnHasNoOwner DEF Open
    <2>6. CarriesOn(turn)
        BY <1>0, <2>5 DEF TypeInv, TypeOK, TurnOK, Turns, HasEnded, CarriesOn, Replies
    <2>7. reply.steps = turn.reply.steps
        BY <1>5, <2>1, <2>4, <2>5
    <2> QED
        BY <1>8, <2>6, <2>7 DEF CallsSound, HeadCovers
<1>11. LeftCovers(r)'
    <2>1. output'[r].resume = NoPoint
        BY <1>0, <1>2, <1>4 DEF GrantSound, InStepOrder, PassPcs, NoOutput
    <2>2. ASSUME Owns(r)', Live(r)', resume # NoPoint PROVE AllButNext(NoRun, resume)
        <3>1. Owns(r) /\ Live(r)
            BY <1>2, <2>2 DEF Owns, Live
        <3>2. ~Odd(r)
            BY DEF Clean, Odd
        <3>3. Open(r)
            BY <1>0, <1>4, <3>1, <3>2 DEF HeadSound, Alike, PassIsOpen, Open, Owns
        <3>4. ex[r].call = "none" /\ resume = ex[r].mem
            BY <1>5, <2>2
        <3>5. AllBut(r, ex[r].mem)
            BY <1>0, <1>4, <3>3, <3>4 DEF RunCovers, PassCovers, At, Asked
        <3>6. ex[r].mem \in Int
            BY <1>0, CallTypes
        <3>7. Covers(ex[r].mem)
            BY <1>0, <3>4, <3>5, <3>6, Wider DEF MayRun
        <3> QED
            BY <1>8, <3>4, <3>7
    <2> QED
        BY <1>6, <2>1, <2>2 DEF LeftCovers, Covers, AllBut, AllButNext
<1> QED
    BY <1>2, <1>3, <1>7, <1>9, <1>10, <1>11, CalmStays DEF RunCovers

(* The pass's outcome keeps the point it leaves until it is recorded.      *)
LEMMA RecordCalls ==
    ASSUME HeadInv, CallsSound, NEW r \in Runs, EndJournal(r) \/ PassRecord(r)
    PROVE  CallsSound'
<1>0. GrantInv /\ TypeInv /\ Step(r) /\ RunCovers(r)
    BY DEF HeadInv, GrantInv, OwnerInv, Step, Execute, CallsSound
<1>1. UNCHANGED <<turn, lineage, joined, timesRan, wf>>
    BY DEF EndJournal, PassRecord, workflows, history, lineages
<1>2. Apart(r)
    BY <1>0, StepIsApart
<1>3. /\ ex[r].pc \in Leaving
      /\ ex'[r].pc \in {"passDone", "send", "idle"}
      /\ ex'[r].pc = "passDone" => ex'[r].out = ex[r].out
      /\ \/ output'[r] = output[r]
         \/ Live(r) /\ output'[r] = ex[r].out
    <2>1. CASE EndJournal(r)
        <3> DEFINE e == [Idle EXCEPT !.pc = "passDone", !.out = ex[r].out]
        <3>1. Set(r, e) /\ ex[r].pc = "endJournal" /\ output' = output
            BY <2>1 DEF EndJournal, At, workflows
        <3>2. e.pc = "passDone" /\ e.out = ex[r].out
            BY DEF Idle
        <3> HIDE DEF e
        <3>3. ex'[r] = e
            BY <1>0, <3>1, GrantTypes
        <3> QED
            BY <3>1, <3>2, <3>3 DEF Leaving
    <2>2. CASE PassRecord(r)
        <3>1. ex[r].pc = "passDone"
            BY <2>2 DEF PassRecord, At
        <3>2. CASE wf[r] = "PENDING"
            <4>1. Set(r, [Idle EXCEPT !.pc = "send"]) /\ output' = [output EXCEPT ![r] = ex[r].out]
                BY <2>2, <3>2 DEF PassRecord
            <4>2. ex'[r].pc = "send"
                BY <1>0, <4>1, SetsPlace
            <4>3. output'[r] = ex[r].out
                BY <1>0, <4>1 DEF TypeInv, TypeOK, WorkflowsOK
            <4> QED
                BY <3>1, <3>2, <4>2, <4>3 DEF Live, Leaving
        <3>3. CASE wf[r] # "PENDING"
            <4>1. Set(r, Idle) /\ output' = output
                BY <2>2, <3>3 DEF PassRecord
            <4>2. ex'[r].pc = "idle"
                BY <1>0, <4>1, SetsOne, Places
            <4> QED
                BY <3>1, <4>1, <4>2 DEF Leaving
        <3> QED
            BY <3>2, <3>3
    <2> QED
        BY <2>1, <2>2
<1>4. Calm
    <2>1. ~MayRun(r)'
        BY <1>3 DEF MayRun
    <2> QED
        BY <1>1, <1>2, <2>1, ApartIsCalm
<1>5. \A n : Covers(n) => AllButNext(NoRun, n)
    BY <1>4, CalmCarries DEF Covers
<1>6. PassCovers(r)' /\ PauseCovers(r)'
    BY <1>3 DEF PassCovers, PauseCovers, At
<1>7. LeftCovers(r)'
    <2>1. (Owns(r)' <=> Owns(r)) /\ (Live(r)' <=> Live(r)) /\ LeftCovers(r)
        BY <1>0, <1>1 DEF Owns, Live, RunCovers
    <2>2. SUFFICES ASSUME Owns(r)
                   PROVE  /\ Live(r) /\ ex'[r].pc \in Leaving /\ ex'[r].out.resume # NoPoint
                                 => AllButNext(NoRun, ex'[r].out.resume)
                          /\ output'[r].resume # NoPoint => AllButNext(NoRun, output'[r].resume)
        BY <2>1 DEF LeftCovers, Covers, AllBut, AllButNext
    <2> QED
        BY <1>3, <1>5, <2>1, <2>2 DEF LeftCovers, Leaving
<1> QED
    BY <1>1, <1>2, <1>4, <1>6, <1>7, CalmStays DEF RunCovers

(* A pass that found the reply ended leaves no point: the head holds the   *)
(* end the journal has.                                                    *)
LEMMA FoundEndCalls ==
    ASSUME HeadInv, Clean, CallsSound, NEW r \in Runs, PassAlreadyEnded(r) \/ PassEndsFromHead(r)
    PROVE  CallsSound'
<1>0. GrantInv /\ TypeInv /\ Step(r) /\ RunCovers(r) /\ GrantSound(r) /\ HeadSound(r)
    BY DEF HeadInv, GrantInv, OwnerInv, Step, Execute, CallsSound
<1>1. UNCHANGED <<turn, lineage, joined, timesRan, wf, output>>
    BY DEF PassAlreadyEnded, PassEndsFromHead, shared, workflows, history, lineages
<1>2. Apart(r)
    BY <1>0, StepIsApart
<1>3. ex[r].pc = "pass" /\ output[r].resume = NoPoint
    BY <1>0 DEF PassAlreadyEnded, PassEndsFromHead, PassRead, At, GrantSound, InStepOrder, PassPcs, NoOutput
<1>4. /\ ex'[r].pc \in {"passDone", "idle"}
      /\ ex'[r].pc = "passDone" /\ Owns(r) => ex'[r].out.resume = NoPoint
    <2>1. ASSUME NEW out, Set(r, [Idle EXCEPT !.pc = "passDone", !.out = out])
          PROVE  ex'[r].pc = "passDone" /\ ex'[r].out = out
        <3> DEFINE e == [Idle EXCEPT !.pc = "passDone", !.out = out]
        <3>1. Set(r, e)
            BY <2>1
        <3>2. e.pc = "passDone" /\ e.out = out
            BY DEF Idle
        <3> HIDE DEF e
        <3>3. ex'[r] = e
            BY <1>0, <3>1, GrantTypes
        <3> QED
            BY <3>2, <3>3
    <2>2. CASE PassAlreadyEnded(r)
        <3> DEFINE resume == IF turn = NoTurn THEN NoPoint ELSE ResumeOf(turn)
                   out == [status |-> jrnl[r][Len(jrnl[r])].status, resume |-> resume]
        <3>1. JournalEnded(r) /\ Set(r, [Idle EXCEPT !.pc = "passDone", !.out = out])
            BY <2>2 DEF PassAlreadyEnded
        <3>2. ex'[r].pc = "passDone" /\ ex'[r].out.resume = resume
            <4>1. out.resume = resume
                OBVIOUS
            <4> HIDE DEF out
            <4> QED
                BY <2>1, <3>1, <4>1
        <3>3. Owns(r) => HasEnded(turn)
            BY <1>0, <3>1 DEF Clean, Odd, HeadSound, Alike, EndedAlike
        <3>4. HasEnded(turn) => ResumeOf(turn) = NoPoint
            BY DEF HasEnded, EndStatuses, ResumeOf
        <3> QED
            BY <3>2, <3>3, <3>4
    <2>3. CASE PassEndsFromHead(r)
        <3>1. CASE wf[r] = "PENDING"
            <4> DEFINE out == [status |-> StatusOf(turn.reply), resume |-> NoPoint]
            <4>1. Set(r, [Idle EXCEPT !.pc = "passDone", !.out = out])
                BY <2>3, <3>1 DEF PassEndsFromHead
            <4>2. out.resume = NoPoint
                OBVIOUS
            <4> HIDE DEF out
            <4> QED
                BY <2>1, <4>1, <4>2
        <3>2. CASE wf[r] # "PENDING"
            <4>1. Set(r, Idle)
                BY <2>3, <3>2 DEF PassEndsFromHead
            <4>2. ex'[r].pc = "idle"
                BY <1>0, <4>1, SetsOne, Places
            <4> QED
                BY <4>2
        <3> QED
            BY <3>1, <3>2
    <2> QED
        BY <2>2, <2>3
<1>5. Calm
    <2>1. ~MayRun(r)'
        BY <1>4 DEF MayRun
    <2> QED
        BY <1>1, <1>2, <2>1, ApartIsCalm
<1>6. RunCovers(r)'
    BY <1>1, <1>3, <1>4 DEF RunCovers, PassCovers, PauseCovers, LeftCovers, At, Owns, Leaving
<1> QED
    BY <1>1, <1>2, <1>5, <1>6, CalmStays

(* A pass that goes on holds the steps the head holds, of its own turn.    *)
LEMMA PassBeginsCalls ==
    ASSUME HeadInv, Basics, CallsSound, NEW r \in Runs, PassBegins(r)
    PROVE  CallsSound'
<1>0. GrantInv /\ TypeInv /\ Step(r) /\ RunCovers(r) /\ GrantSound(r)
    BY DEF HeadInv, GrantInv, OwnerInv, Step, Execute, CallsSound
<1>1. UNCHANGED <<turn, lineage, joined, timesRan, wf, output>>
    BY DEF PassBegins, workflows, history, lineages
<1>2. Apart(r)
    BY <1>0, StepIsApart
<1>3. output[r].resume = NoPoint
    BY <1>0 DEF PassBegins, PassRead, At, GrantSound, InStepOrder, PassPcs, NoOutput
<1> DEFINE owned   == OwnedBy(turn, r)
           from    == IF owned THEN ResumeOf(turn) ELSE NoPoint
           carried == IF from = NoPoint THEN 0 ELSE from
           emits   == IF jrnl[r] = <<>> THEN "start" ELSE "open"
           e       == [Idle EXCEPT !.mem = carried, !.emits = emits]
           full    == turn.reply.status = "running" /\ from = NoPoint /\ turn.reply.steps > 0
<1>4. \/ \E status, reply : reply.note # "interrupted" /\ Set(r, EndWith(e, status, reply, NoPoint))
      \/ (turn = NoTurn \/ owned) /\ ~full /\ Set(r, [e EXCEPT !.pc = "running"])
    <2>1. \A s, n, note : Reply(s, n, note).note = note
        BY DEF Reply
    <2> QED
        BY <2>1 DEF PassBegins
<1>5. CASE \E status, reply : reply.note # "interrupted" /\ Set(r, EndWith(e, status, reply, NoPoint))
    <2>1. PICK status, reply : reply.note # "interrupted" /\ Set(r, EndWith(e, status, reply, NoPoint))
        BY <1>5
    <2>2. ex'[r].pc = "endSave" /\ ex'[r].reply = reply /\ ex'[r].out.resume = NoPoint
        BY <1>0, <2>1, EndingExecution
    <2>3. Calm
        <3>1. ~MayRun(r)'
            BY <2>2 DEF MayRun
        <3> QED
            BY <1>1, <1>2, <3>1, ApartIsCalm
    <2>4. RunCovers(r)'
        BY <1>1, <1>3, <2>1, <2>2 DEF RunCovers, PassCovers, PauseCovers, LeftCovers, At
    <2> QED
        BY <1>1, <1>2, <2>3, <2>4, CalmStays
<1>6. CASE (turn = NoTurn \/ owned) /\ ~full /\ Set(r, [e EXCEPT !.pc = "running"])
    <2>1. ex'[r].pc = "running" /\ ex'[r].mem = carried /\ ex'[r].call = "none"
        <3> DEFINE f == [e EXCEPT !.pc = "running"]
        <3>1. f.pc = "running" /\ f.mem = carried /\ f.call = "none"
            BY DEF Idle
        <3>2. Set(r, f)
            BY <1>6
        <3> HIDE DEF f
        <3>3. ex'[r] = f
            BY <1>0, <3>2, GrantTypes
        <3> QED
            BY <3>1, <3>3
    <2>2. Calm
        <3>1. ~MayRun(r)'
            BY <2>1 DEF MayRun
        <3> QED
            BY <1>1, <1>2, <3>1, ApartIsCalm
    <2>3. PassCovers(r)'
        <3>1. SUFFICES ASSUME Open(r) PROVE AllButNext(r, carried)
            BY <1>1, <2>1 DEF PassCovers, Open, HasEnded, Asked, AllBut, AllButNext
        <3>2. turn # NoTurn /\ ~HasEnded(turn)
            BY <3>1, NoTurnHasNoOwner DEF Open
        <3>3. turn.reply.status \in {"none", "running"} /\ turn.reply.steps \in Counts
            BY <1>0, <3>2, CallTypes DEF TypeInv, TypeOK, TurnOK, Turns, HasEnded, Replies
        <3>4. carried = turn.reply.steps
            <4>1. CASE from # NoPoint
                BY <4>1 DEF ResumeOf
            <4>2. CASE from = NoPoint
                <5>1. turn.reply.steps = 0
                    BY <1>6, <3>3, <4>2, ConstantsAssumption DEF Basics, NoneIsEmpty, Counts
                <5> QED
                    BY <4>2, <5>1
            <4> QED
                BY <4>1, <4>2
        <3>5. AllBut(r, carried)
            BY <3>3, <3>4, CoversAllBut DEF CallsSound, HeadCovers, CarriesOn
        <3> QED
            BY <2>2, <3>5, CalmCarries
    <2>4. PauseCovers(r)' /\ LeftCovers(r)'
        BY <1>1, <1>3, <2>1 DEF PauseCovers, LeftCovers, Leaving, At
    <2> QED
        BY <1>1, <1>2, <2>2, <2>3, <2>4, CalmStays DEF RunCovers
<1> QED
    BY <1>4, <1>5, <1>6

(* run-started is written, or not, whatever the pass is at.                *)
LEMMA EmitCalls ==
    ASSUME HeadInv, CallsSound, NEW r \in Runs, EmitStart(r)
    PROVE  CallsSound'
<1>0. GrantInv /\ TypeInv /\ Step(r) /\ RunCovers(r) /\ ex[r] \in Executions
    BY DEF HeadInv, GrantInv, OwnerInv, TypeInv, TypeOK, ExecutionsOK, Step, Execute, CallsSound
<1>1. UNCHANGED <<turn, lineage, joined, timesRan, wf, output>>
    BY DEF EmitStart, workflows, history, lineages
<1>2. Apart(r)
    BY <1>0, StepIsApart
<1>3. /\ ex'[r].pc = ex[r].pc /\ ex'[r].mem = ex[r].mem /\ ex'[r].call = ex[r].call
      /\ ex'[r].saved = ex[r].saved /\ ex'[r].reply = ex[r].reply /\ ex'[r].out = ex[r].out
    <2>1. PICK v : Set(r, [ex[r] EXCEPT !.emits = v])
        BY DEF EmitStart
    <2> DEFINE e == [ex[r] EXCEPT !.emits = v]
    <2>2. /\ e.pc = ex[r].pc /\ e.mem = ex[r].mem /\ e.call = ex[r].call
          /\ e.saved = ex[r].saved /\ e.reply = ex[r].reply /\ e.out = ex[r].out
        BY <1>0 DEF Executions
    <2>3. Set(r, e)
        BY <2>1
    <2> HIDE DEF e
    <2>4. ex'[r] = e
        BY <1>0, <2>3, GrantTypes
    <2> QED
        BY <2>2, <2>4
<1>4. Calm
    <2>1. MayRun(r)' => MayRun(r) /\ ex'[r].mem = ex[r].mem
        BY <1>1, <1>3 DEF MayRun
    <2> QED
        BY <1>1, <1>2, <2>1, ApartIsCalm
<1>5. \A q, n : AllBut(q, n) => AllButNext(q, n)
    BY <1>4, CalmCarries
<1>6. (Open(r)' <=> Open(r)) /\ (Owns(r)' <=> Owns(r)) /\ (Live(r)' <=> Live(r)) /\ Asked(r)' = Asked(r)
    BY <1>1, <1>3 DEF Open, HasEnded, Owns, Live, Asked
<1>7. PassCovers(r)'
    BY <1>0, <1>3, <1>5, <1>6 DEF RunCovers, PassCovers, At, AllBut, AllButNext
<1>8. PauseCovers(r)'
    BY <1>0, <1>3, <1>5, <1>6 DEF RunCovers, PauseCovers, At, Covers, AllBut, AllButNext
<1>9. LeftCovers(r)'
    BY <1>0, <1>1, <1>3, <1>5, <1>6 DEF RunCovers, LeftCovers, Covers, AllBut, AllButNext
<1> QED
    BY <1>1, <1>2, <1>4, <1>7, <1>8, <1>9, CalmStays DEF RunCovers
-----------------------------------------------------------------------------
(* The steps that write the turn.                                          *)

(* An end that says it may be carried on covers what ran.                  *)
EndsWell(r) ==
    \E reply \in Replies :
        /\ WritableBy(turn, r) /\ turn' = WithEnd(turn, reply)
        /\ reply.note = "interrupted" => Covers(reply.steps)

LEMMA EndingCovers ==
    ASSUME HeadInv, CallsSound, NEW r \in Runs, Apart(r),
           lineage' = lineage, joined' = joined, timesRan' = timesRan, output'[r] = output[r],
           turn' = turn \/ Writes(r), turn' = turn \/ EndsWell(r), Live(r)' => Live(r),
           \/ ex'[r] = ex[r]
           \/ ex'[r].pc \notin Leaving \cup {"running"}
           \/ ex[r].pc = "endSave" /\ ex'[r].pc = "endJournal" /\ ex'[r].out = ex[r].out
    PROVE  CallsSound'
<1>0. TypeInv /\ RunCovers(r)
    BY DEF HeadInv, GrantInv, OwnerInv, CallsSound
<1>1. Calm
    <2>1. MayRun(r)' => MayRun(r) /\ ex'[r].mem = ex[r].mem
        BY DEF MayRun
    <2> QED
        BY <2>1, ApartIsCalm
<1>2. \A n : Covers(n) => AllButNext(NoRun, n)
    BY <1>1, CalmCarries DEF Covers
<1>3. ASSUME EndsWell(r)
      PROVE  /\ Owns(r) /\ HasEnded(turn')
             /\ CarriesOn(turn') => Covers(turn'.reply.steps)
    <2>1. PICK reply \in Replies :
              /\ WritableBy(turn, r) /\ turn' = WithEnd(turn, reply)
              /\ reply.note = "interrupted" => Covers(reply.steps)
        BY <1>3 DEF EndsWell
    <2>2. Owns(r)
        BY <2>1, WritesTheOpen
    <2>3. turn \in Turns
        BY <1>0, <2>1 DEF TypeInv, TypeOK, TurnOK, WritableBy, OwnedBy
    <2>4. turn'.reply = reply
        BY <2>1, <2>3 DEF WithEnd, Turns
    <2>5. reply.status \in EndStatuses
        BY DEF Replies
    <2> QED
        BY <2>1, <2>2, <2>4, <2>5 DEF HasEnded, CarriesOn, EndStatuses
<1>4. HeadCovers'
    <2>1. SUFFICES ASSUME CarriesOn(turn') PROVE AllButNext(NoRun, turn'.reply.steps)
        BY DEF HeadCovers, CarriesOn, Covers, AllBut, AllButNext
    <2>2. CASE turn' = turn
        BY <1>2, <2>1, <2>2 DEF CallsSound, HeadCovers
    <2>3. CASE EndsWell(r)
        BY <1>2, <1>3, <2>1, <2>3
    <2> QED
        BY <2>2, <2>3
<1>5. (Owns(r)' => Owns(r)) /\ (Open(r)' => Open(r) /\ turn' = turn)
    BY <1>3 DEF Owns, Open, HasEnded
<1>6. PassCovers(r)'
    <2>1. SUFFICES ASSUME At(r, "running")', Open(r)' PROVE AllButNext(r, Asked(r)')
        BY DEF PassCovers, AllBut, AllButNext
    <2>2. ex'[r] = ex[r]
        BY <2>1 DEF At
    <2> QED
        BY <1>0, <1>1, <1>5, <2>1, <2>2, CalmCarries DEF RunCovers, PassCovers, At, Asked
<1>7. PauseCovers(r)'
    <2>1. SUFFICES ASSUME At(r, "endSave")', Open(r)', ex'[r].reply.note = "interrupted"
                   PROVE  AllButNext(NoRun, ex'[r].reply.steps)
        BY DEF PauseCovers, Covers, AllBut, AllButNext
    <2>2. ex'[r] = ex[r]
        BY <2>1 DEF At, Leaving
    <2> QED
        BY <1>0, <1>2, <1>5, <2>1, <2>2 DEF RunCovers, PauseCovers, At
<1>8. LeftCovers(r)'
    <2>1. SUFFICES ASSUME Owns(r)
                   PROVE  /\ Live(r)' /\ ex'[r].pc \in Leaving /\ ex'[r].out.resume # NoPoint
                                 => AllButNext(NoRun, ex'[r].out.resume)
                          /\ output'[r].resume # NoPoint => AllButNext(NoRun, output'[r].resume)
        BY <1>5 DEF LeftCovers, Covers, AllBut, AllButNext
    <2> QED
        BY <1>0, <1>2, <2>1 DEF RunCovers, LeftCovers, Leaving
<1>9. \A q \in Runs : RunCovers(q)'
    BY <1>1, <1>6, <1>7, <1>8, CalmCarries, OthersCover DEF RunCovers
<1> QED
    BY <1>1, <1>4, <1>9, CalmCarries DEF CallsSound

(* The end of the pass in the head, and of a workflow that threw.          *)
LEMMA EndSaveCalls ==
    ASSUME HeadInv, CallsSound, NEW r \in Runs, EndSave(r) \/ EndSaveFails(r) \/ FailedSave(r)
    PROVE  CallsSound'
<1>0. GrantInv /\ TypeInv /\ Step(r) /\ RunCovers(r) /\ ex[r] \in Executions
    BY DEF HeadInv, GrantInv, OwnerInv, TypeInv, TypeOK, ExecutionsOK, Step, Execute, CallsSound
<1>1. UNCHANGED <<lineage, joined, timesRan, wf, output>>
    BY DEF EndSave, EndSaveFails, FailedSave, workflows, history, lineages
<1>2. Apart(r) /\ (turn' = turn \/ Writes(r))
    BY <1>0, StepIsApart, TurnWrites
<1>3. \/ ex'[r].pc \notin Leaving \cup {"running"}
      \/ ex[r].pc = "endSave" /\ ex'[r].pc = "endJournal" /\ ex'[r].out = ex[r].out
    <2>1. CASE FailedSave(r)
        BY <1>0, <2>1, GrantTypes DEF FailedSave, Leaving
    <2>2. CASE EndSave(r) \/ EndSaveFails(r)
        <3>1. Goto(r, "endJournal") /\ ex[r].pc = "endSave"
            BY <2>2 DEF EndSave, EndSaveFails, At
        <3>2. ex'[r].pc = "endJournal" /\ ex'[r].out = ex[r].out
            BY <1>0, <3>1 DEF Goto, TypeInv, TypeOK, ExecutionsOK, Executions
        <3> QED
            BY <3>1, <3>2
    <2> QED
        BY <2>1, <2>2
<1>4. turn' = turn \/ EndsWell(r)
    <2>1. SUFFICES ASSUME turn' # turn PROVE EndsWell(r)
        OBVIOUS
    <2>2. CASE FailedSave(r)
        <3>1. WritableBy(turn, r) /\ turn' = WithEnd(turn, Failed)
            BY <2>1, <2>2 DEF FailedSave
        <3>2. Failed \in Replies /\ Failed.note # "interrupted"
            BY <1>0, CallTypes DEF Failed, Replies, EndStatuses, Notes
        <3> QED
            BY <3>1, <3>2 DEF EndsWell
    <2>3. CASE EndSave(r) \/ EndSaveFails(r)
        <3>1. WritableBy(turn, r) /\ turn' = WithEnd(turn, ex[r].reply) /\ At(r, "endSave")
            BY <2>1, <2>3 DEF EndSave, EndSaveFails, EndSaved, MayHaveApplied
        <3>2. ex[r].reply \in Replies
            BY <1>0, <3>1 DEF TypeInv, ExecutionsSound, EndStands, At
        <3>3. Open(r)
            BY <3>1, WritesTheOpen DEF Open, Owns
        <3> QED
            BY <1>0, <3>1, <3>2, <3>3 DEF EndsWell, RunCovers, PauseCovers
    <2> QED
        BY <2>2, <2>3
<1> QED
    BY <1>1, <1>2, <1>3, <1>4, EndingCovers DEF Live

(* An end from outside keeps the steps the head holds; a kept end that is  *)
(* repaired is excepted.                                                   *)
LEMMA OutsideCalls ==
    ASSUME HeadInv, Clean, CallsSound, NEW r \in Runs,
           SweepEnd(r) \/ ForceEnd(r) \/ EndFromHead(r) \/ Repair(r)
    PROVE  CallsSound'
<1>0. GrantInv /\ TypeInv /\ Step(r) /\ HeadSound(r)
    BY DEF HeadInv, GrantInv, OwnerInv, Step, ForceStop, Maintain
<1>1. UNCHANGED <<lineage, joined, timesRan, wf, output, ex>>
    BY DEF SweepEnd, ForceEnd, EndFromHead, Repair, workflows, history, lineages
<1>2. Apart(r) /\ (turn' = turn \/ Writes(r))
    BY <1>0, StepIsApart, TurnWrites
<1>3. ~Repair(r)
    BY <1>0 DEF Repair, HeadSound, KeptIs, Clean
<1>4. turn' = turn \/ EndsWell(r)
    <2>1. SUFFICES ASSUME turn' # turn PROVE EndsWell(r)
        OBVIOUS
    <2>2. PICK status \in EndStatuses, note \in Notes :
              WritableBy(turn, r) /\ turn' = WithEnd(turn, Reply(status, turn.reply.steps, note))
        <3>1. ASSUME NEW reply, EndTurnOnce(r, reply)
              PROVE  WritableBy(turn, r) /\ turn' = WithEnd(turn, reply)
            BY <2>1, <3>1 DEF EndTurnOnce, EndOnce
        <3>2. \E reply \in {Reply("error", turn.reply.steps, "interrupted"),
                            Reply("aborted", turn.reply.steps, "plain")} \cup HeadEnds(r) :
                  EndTurnOnce(r, reply)
            BY <1>3, <2>1 DEF SweepEnd, ForceEnd, EndFromHead, EndTurnOnceFails
        <3>3. \A reply \in HeadEnds(r) :
                  \E status \in EndStatuses, note \in Notes : reply = Reply(status, turn.reply.steps, note)
            BY DEF HeadEnds, Failed, Reply, EndStatuses, Notes
        <3>4. "error" \in EndStatuses /\ "aborted" \in EndStatuses /\ "interrupted" \in Notes /\ "plain" \in Notes
            BY DEF EndStatuses, Notes
        <3> QED
            BY <3>1, <3>2, <3>3, <3>4
    <2>3. /\ Reply(status, turn.reply.steps, note) \in Replies
          /\ Reply(status, turn.reply.steps, note).steps = turn.reply.steps
        BY <1>0, CallTypes, ReplyType DEF Reply
    <2>4. CarriesOn(turn)
        BY <1>0, <2>2 DEF TypeInv, TypeOK, TurnOK, Turns, WritableBy, OwnedBy, HasEnded, CarriesOn, Replies
    <2>5. Covers(turn.reply.steps)
        BY <2>4 DEF CallsSound, HeadCovers
    <2> QED
        BY <2>2, <2>3, <2>5 DEF EndsWell
<1> QED
    BY <1>1, <1>2, <1>4, EndingCovers DEF Live

(* A save of the steps so far: the call in them was not covered yet, and   *)
(* is once it may run.                                                     *)
LEMMA SaveCalls ==
    ASSUME HeadInv, CallsSound, NEW r \in Runs, SaveProgress(r) \/ SaveAnswerLost(r)
    PROVE  CallsSound'
<1>0. GrantInv /\ TypeInv /\ Step(r) /\ GrantSound(r) /\ ex[r] \in Executions /\ RunCovers(r)
    BY DEF HeadInv, GrantInv, OwnerInv, TypeInv, TypeOK, ExecutionsOK, Step, Execute, CallsSound
<1>1. UNCHANGED <<lineage, joined, timesRan, wf, output>>
    BY DEF SaveProgress, SaveAnswerLost, workflows, history, lineages
<1>2. Apart(r) /\ (turn' = turn \/ Writes(r))
    BY <1>0, StepIsApart, TurnWrites
<1>3. Open(r) /\ Owns(r) /\ turn' = WithProgress(turn, ex[r].mem) /\ turn # NoTurn /\ ex[r].pc = "running"
    BY WritesTheOpen DEF SaveProgress, SaveAnswerLost, Open, Owns, WritableBy, OwnedBy, At
<1>4. turn \in Turns /\ turn'.reply.steps = ex[r].mem /\ turn'.owner = r
    <2>1. turn \in Turns
        BY <1>0, <1>3 DEF TypeInv, TypeOK, TurnOK
    <2> QED
        BY <1>3, <2>1 DEF Turns, WithProgress, RunningReply, Owns
<1>5. /\ ex'[r].pc = "running" /\ ex'[r].mem = ex[r].mem /\ ex'[r].call = ex[r].call
      /\ ex'[r].saved => ex[r].saved \/ SaveProgress(r)
    <2>1. CASE SaveAnswerLost(r)
        BY <1>3, <2>1 DEF SaveAnswerLost
    <2>2. CASE SaveProgress(r)
        <3> DEFINE e == [ex[r] EXCEPT !.saved = TRUE]
        <3>1. e.pc = ex[r].pc /\ e.mem = ex[r].mem /\ e.call = ex[r].call
            BY <1>0 DEF Executions
        <3>2. Set(r, e)
            BY <2>2 DEF SaveProgress
        <3> HIDE DEF e
        <3>3. ex'[r] = e
            BY <1>0, <3>2, GrantTypes
        <3> QED
            BY <1>3, <2>2, <3>1, <3>3
    <2> QED
        BY <2>1, <2>2
<1>6. /\ ex[r].mem \in Int /\ Asked(r) \in Int /\ Asked(r) <= ex[r].mem /\ NoRun \notin Runs
      /\ ex[r].call = "asked" => ex[r].mem \in 1..StepLimit /\ Asked(r) = ex[r].mem - 1
    BY <1>0, CallTypes, NoTurnHasNoOwner DEF Asked
<1>7. \A q \in Runs : q # r => (MayRun(q)' <=> MayRun(q)) /\ ex'[q].mem = ex[q].mem
    BY <1>1, <1>2 DEF Apart, MayRun
<1>8. AllBut(r, Asked(r))
    BY <1>0, <1>3 DEF RunCovers, PassCovers, At
<1>9. AllButNext(r, Asked(r))
    BY <1>1, <1>7, <1>8 DEF AllBut, AllButNext
<1>10. AllButNext(NoRun, ex[r].mem)
    <2>1. AllBut(r, ex[r].mem)
        BY <1>0, <1>6, <1>8, Wider
    <2> QED
        BY <1>1, <1>5, <1>6, <1>7, <2>1 DEF AllBut, AllButNext
<1>11. HeadCovers'
    BY <1>4, <1>10 DEF HeadCovers, Covers, AllBut, AllButNext
<1>12. OnceEach'
    <2>1. OnceEach
        BY DEF CallsSound
    <2>2. \A q \in Runs : q # r /\ MayRun(q) => ex[q].mem <= Asked(r)
        BY <1>8 DEF AllBut
    <2>3. MayRun(r)' => ex[r].mem \in 1..StepLimit /\ Asked(r) = ex[r].mem - 1
        BY <1>5, <1>6 DEF MayRun
    <2>4. CallsApart'
        <3>1. ASSUME NEW q \in Runs, q # r, MayRun(q)', MayRun(r)' PROVE ex'[q].mem # ex'[r].mem
            <4>1. ex[q].mem \in Int /\ ex[q].mem <= Asked(r)
                BY <1>0, <1>7, <2>2, <3>1, CallTypes
            <4> QED
                BY <1>5, <1>6, <1>7, <2>3, <3>1, <4>1
        <3>2. ASSUME NEW p \in Runs, NEW q \in Runs, p # r, q # r, p # q, MayRun(p)', MayRun(q)'
              PROVE  ex'[p].mem # ex'[q].mem
            BY <1>7, <2>1, <3>2 DEF OnceEach, CallsApart
        <3> QED
            BY <3>1, <3>2 DEF CallsApart
    <2>5. CallsNew'
        <3>1. MayRun(r)' => timesRan'[ex'[r].mem] = 0
            BY <1>5, <1>6, <1>9, <2>3 DEF AllButNext
        <3>2. ASSUME NEW q \in Runs, q # r, MayRun(q)' PROVE timesRan'[ex'[q].mem] = 0
            BY <1>1, <1>7, <2>1, <3>2 DEF OnceEach, CallsNew
        <3> QED
            BY <3>1, <3>2 DEF CallsNew
    <2> QED
        BY <1>1, <2>1, <2>4, <2>5 DEF OnceEach, NothingRunsTwice
<1>13. RunCovers(r)'
    <2>1. PassCovers(r)'
        <3>1. Asked(r)' = Asked(r)
            BY <1>5 DEF Asked
        <3> QED
            BY <1>9, <3>1 DEF PassCovers, AllBut, AllButNext
    <2>2. output'[r].resume = NoPoint
        BY <1>0, <1>1, <1>3 DEF GrantSound, InStepOrder, PassPcs, NoOutput
    <2> QED
        BY <1>5, <2>1, <2>2 DEF RunCovers, PauseCovers, LeftCovers, At, Leaving
<1>14. \A q \in Runs : q # r => RunCovers(q)'
    <2>1. SUFFICES ASSUME NEW q \in Runs, q # r PROVE RunCovers(q)'
        OBVIOUS
    <2>2. ~Owns(q)' /\ ~Open(q)'
        BY <1>4, <2>1 DEF Owns, Open
    <2> QED
        BY <2>2 DEF RunCovers, PassCovers, PauseCovers, LeftCovers
<1> QED
    BY <1>11, <1>12, <1>13, <1>14 DEF CallsSound

(* The call runs: it was covered as one that may run, and is now as one    *)
(* that ran.                                                               *)
LEMMA RunTheCall ==
    ASSUME HeadInv, CallsSound, NEW r \in Runs, RunCall(r)
    PROVE  CallsSound'
<1> DEFINE m == ex[r].mem
<1>0. GrantInv /\ TypeInv /\ Step(r) /\ GrantSound(r) /\ ex[r] \in Executions /\ RunCovers(r)
    BY DEF HeadInv, GrantInv, OwnerInv, TypeInv, TypeOK, ExecutionsOK, Step, Execute, CallsSound
<1>1. UNCHANGED <<lineage, joined, wf, output, turn>>
    BY DEF RunCall, workflows, history, lineages
<1>2. Apart(r) /\ NoRun \notin Runs
    BY <1>0, StepIsApart, NoTurnHasNoOwner
<1>3. ex[r].pc = "running" /\ ex[r].call = "asked" /\ ex[r].saved
    BY DEF RunCall, Going, At, CallSaved
<1>4. /\ m \in 1..StepLimit /\ m \in Int /\ Asked(r) = m - 1 /\ timesRan \in [1..StepLimit -> 0..2]
    BY <1>0, <1>3, CallTypes DEF Asked, TypeInv, TypeOK, LineagesOK
<1>5. ex'[r].pc = "running" /\ ex'[r].call = "running" /\ ex'[r].mem = m
    <2> DEFINE e == [ex[r] EXCEPT !.call = "running"]
    <2>1. e.pc = "running" /\ e.mem = m /\ e.call = "running"
        BY <1>0, <1>3 DEF Executions
    <2>2. Set(r, e)
        BY DEF RunCall
    <2> HIDE DEF e
    <2>3. ex'[r] = e
        BY <1>0, <2>2, GrantTypes
    <2> QED
        BY <2>1, <2>3
<1>6. /\ ~MayRun(r)'
      /\ \A q \in Runs : q # r => (MayRun(q)' <=> MayRun(q)) /\ ex'[q].mem = ex[q].mem
    BY <1>1, <1>2, <1>5 DEF Apart, MayRun
<1>7. AllBut(r, m - 1) => AllBut(r, m)
    BY <1>0, <1>4, Wider
<1>8. CASE joined[r] # lineage.by
    <2>1. timesRan' = [timesRan EXCEPT ![m] = timesRan[m]]
        BY <1>8 DEF RunCall
    <2>2. timesRan' = timesRan
        BY <1>4, <2>1
    <2>3. Calm
        BY <1>1, <1>2, <1>6, <2>2, ApartIsCalm
    <2>4. RunCovers(r)'
        <3>1. PassCovers(r)'
            <4>1. SUFFICES ASSUME Open(r) PROVE AllButNext(r, m)
                BY <1>1, <1>5 DEF PassCovers, Open, HasEnded, Asked, AllBut, AllButNext
            <4>2. AllBut(r, m)
                BY <1>0, <1>3, <1>4, <1>7, <4>1 DEF RunCovers, PassCovers, At
            <4> QED
                BY <2>3, <4>2, CalmCarries
        <3>2. output'[r].resume = NoPoint
            BY <1>0, <1>1, <1>3 DEF GrantSound, InStepOrder, PassPcs, NoOutput
        <3> QED
            BY <1>5, <3>1, <3>2 DEF RunCovers, PauseCovers, LeftCovers, At, Leaving
    <2> QED
        BY <1>1, <1>2, <2>3, <2>4, CalmStays
<1>9. CASE joined[r] = lineage.by
    <2>1. MayRun(r) /\ timesRan[m] = 0
        BY <1>3, <1>9 DEF MayRun, CallsSound, OnceEach, CallsNew
    <2>2. timesRan' = [timesRan EXCEPT ![m] = 1]
        BY <1>9, <2>1 DEF RunCall
    <2>3. timesRan'[m] = 1 /\ \A i \in 1..StepLimit : i # m => timesRan'[i] = timesRan[i]
        BY <1>4, <2>2
    <2>4. OnceEach'
        <3>1. \A q \in Runs : q # r /\ MayRun(q) => ex[q].mem # m /\ ex[q].mem \in 1..StepLimit
            BY <1>0, <2>1, CallTypes DEF CallsSound, OnceEach, CallsApart, MayRun
        <3>2. CallsNew'
            BY <1>6, <2>3, <3>1 DEF CallsNew, CallsSound, OnceEach
        <3>3. CallsApart'
            BY <1>6 DEF CallsApart, CallsSound, OnceEach
        <3>4. NothingRunsTwice'
            <4>1. \A i \in 1..StepLimit : timesRan[i] < 2
                BY DEF CallsSound, OnceEach, NothingRunsTwice
            <4>2. \A i \in 1..StepLimit : timesRan'[i] < 2
                BY <2>3, <4>1
            <4> QED
                BY <4>2 DEF NothingRunsTwice
        <3> QED
            BY <3>2, <3>3, <3>4 DEF OnceEach
    <2>5. \A q \in Runs \cup {NoRun}, n \in Int : q # r /\ AllBut(q, n) => AllButNext(q, n)
        <3>1. SUFFICES ASSUME NEW q \in Runs \cup {NoRun}, NEW n \in Int, q # r, AllBut(q, n)
                       PROVE  AllButNext(q, n)
            OBVIOUS
        <3>2. m <= n
            BY <2>1, <3>1 DEF AllBut
        <3>3. \A i \in 1..StepLimit : i > n => timesRan'[i] = 0
            BY <1>4, <2>3, <3>1, <3>2 DEF AllBut
        <3> QED
            BY <1>6, <3>1, <3>3 DEF AllBut, AllButNext
    <2>6. HeadCovers'
        <3>1. SUFFICES ASSUME CarriesOn(turn) PROVE AllButNext(NoRun, turn.reply.steps)
            BY <1>1 DEF HeadCovers, CarriesOn, Covers, AllBut, AllButNext
        <3>2. turn.reply.steps \in Int
            BY <1>0, CallTypes
        <3> QED
            BY <1>2, <2>5, <3>1, <3>2 DEF CallsSound, HeadCovers, Covers
    <2>7. RunCovers(r)'
        <3>1. PassCovers(r)'
            <4>1. SUFFICES ASSUME Open(r) PROVE AllButNext(r, m)
                BY <1>1, <1>5 DEF PassCovers, Open, HasEnded, Asked, AllBut, AllButNext
            <4>2. AllBut(r, m)
                BY <1>0, <1>3, <1>4, <1>7, <4>1 DEF RunCovers, PassCovers, At
            <4>3. \A i \in 1..StepLimit : i > m => timesRan'[i] = 0
                BY <1>4, <2>3, <4>2 DEF AllBut
            <4> QED
                BY <1>6, <4>2, <4>3 DEF AllBut, AllButNext
        <3>2. output'[r].resume = NoPoint
            BY <1>0, <1>1, <1>3 DEF GrantSound, InStepOrder, PassPcs, NoOutput
        <3> QED
            BY <1>5, <3>1, <3>2 DEF RunCovers, PauseCovers, LeftCovers, At, Leaving
    <2>8. \A q \in Runs : RunCovers(q)'
        BY <1>1, <1>2, <2>5, <2>7, OthersCover DEF Carried
    <2> QED
        BY <2>4, <2>6, <2>8 DEF CallsSound
<1> QED
    BY <1>8, <1>9

(* There is one previous success at most, and a point it left is what a    *)
(* retry reads where the head holds none.                                  *)
LEMMA OnePrevious ==
    ASSUME NEW p \in PreviousSuccess, NEW q \in PreviousSuccess
    PROVE  p = q
<1>1. /\ p \in Int /\ q \in Int /\ p \in Runs /\ q \in Runs
      /\ wf[p] = "SUCCESS" /\ wf[q] = "SUCCESS"
      /\ ~(p > q) /\ ~(q > p)
    BY DEF PreviousSuccess, Runs
<1> QED
    BY <1>1

LEMMA RetryReads ==
    ASSUME RetryPoint # NoPoint
    PROVE  /\ turn # NoTurn
           /\ \/ ResumeOf(turn) # NoPoint /\ RetryPoint = turn.reply.steps /\ turn.reply.status = "running"
              \/ /\ InterruptedResume(turn) # NoPoint /\ RetryPoint = turn.reply.steps
                 /\ turn.reply.note = "interrupted"
              \/ /\ ~HeadHoldsPoint
                 /\ \E p \in PreviousSuccess : AnsweredNow(p) /\ RetryPoint = output[p].resume
<1>1. turn # NoTurn
    BY DEF RetryPoint
<1>2. CASE HeadHoldsPoint
    BY <1>1, <1>2 DEF RetryPoint, HeadHoldsPoint, ResumeOf, InterruptedResume
<1>3. CASE ~HeadHoldsPoint
    <2>1. LeftPoint # {} /\ RetryPoint = CHOOSE n \in LeftPoint : TRUE
        BY <1>1, <1>3 DEF RetryPoint, HeadHoldsPoint
    <2>2. RetryPoint \in LeftPoint
        BY <2>1
    <2> QED
        BY <1>1, <1>3, <2>2 DEF LeftPoint
<1> QED
    BY <1>2, <1>3

(* A begin that carries on nothing starts the lineage over; one that does  *)
(* carries on steps that cover what ran, unless they were outdated.        *)
LEMMA TakeCalls ==
    ASSUME HeadInv, Clean => CallsSound, NEW r \in Runs, Apart(r), Lineage(r), turn' = Begin(r),
           UNCHANGED ends, output' = output, ex[r].pc = "startTurn",
           ex'[r].pc \in {"beginDone", "failing", "idle"}
    PROVE  Clean' => CallsSound'
<1> SUFFICES ASSUME Clean' PROVE CallsSound'
    OBVIOUS
<1>0. TypeInv /\ NoRun \notin Runs /\ GrantSound(r)
    BY NoTurnHasNoOwner DEF HeadInv, GrantInv, OwnerInv
<1>1. ~MayRun(r)' /\ turn'.owner = r
    BY BeginOwner DEF MayRun
<1>2. output'[r].resume = NoPoint
    <2>1. output[r] = NoOutput
        BY <1>0 DEF GrantSound, InStepOrder, Beginning
    <2> QED
        BY <2>1 DEF NoOutput
<1>3. \A q \in Runs : RunCovers(q)'
    <2>1. RunCovers(r)'
        BY <1>2 DEF RunCovers, PassCovers, PauseCovers, LeftCovers, At, Leaving
    <2>2. ASSUME NEW q \in Runs, q # r PROVE RunCovers(q)'
        <3>1. ~Owns(q)' /\ ~Open(q)'
            BY <1>1, <2>2 DEF Owns, Open
        <3> QED
            BY <3>1 DEF RunCovers, PassCovers, PauseCovers, LeftCovers
    <2> QED
        BY <2>1, <2>2
<1>4. CASE ex[r].from \in {NoPoint, 0}
    <2>1. /\ timesRan' = [i \in 1..StepLimit |-> 0] /\ lineage'.by = r
          /\ joined' = [q \in Runs |-> IF q = r THEN r ELSE IF joined[q] = r THEN NoRun ELSE joined[q]]
        BY <1>4 DEF Lineage
    <2>2. \A q \in Runs : ~MayRun(q)'
        BY <1>0, <1>1, <2>1 DEF MayRun
    <2>3. \A n : AllButNext(NoRun, n)
        BY <2>1, <2>2 DEF AllButNext
    <2>4. HeadCovers'
        BY <2>3 DEF HeadCovers, Covers, AllBut, AllButNext
    <2>5. OnceEach'
        BY <2>1, <2>2 DEF OnceEach, NothingRunsTwice, CallsApart, CallsNew
    <2> QED
        BY <1>3, <2>4, <2>5 DEF CallsSound
<1>5. CASE ex[r].from \notin {NoPoint, 0}
    <2>1. /\ timesRan' = timesRan /\ joined' = [joined EXCEPT ![r] = lineage.by]
          /\ lineage' = [lineage EXCEPT !.msg = PointAnswered, !.stale = @ \/ Outdated(r),
                                        !.late = @ \/ ReadLate(r)]
        BY <1>5 DEF Lineage
    <2>2. lineage'.by = lineage.by /\ ~lineage.stale /\ ~Outdated(r)
        BY <1>0, <2>1 DEF TypeInv, TypeOK, LineagesOK, Clean, ends
    <2>3. CallsSound
        BY <2>2 DEF Clean, ends
    <2>4. Calm
        <3>1. \A q \in Runs : q # r => joined'[q] = joined[q]
            BY <1>0, <2>1 DEF TypeInv, TypeOK, LineagesOK
        <3> QED
            BY <1>1, <2>1, <2>2, <3>1 DEF Calm, Apart, MayRun
    <2>5. ex[r].from = RetryPoint /\ RetryPoint # NoPoint
        BY <1>5, <2>2 DEF Outdated, ReadLate
    <2>6. Covers(ex[r].from)
        <3>1. CASE CarriesOn(turn) /\ RetryPoint = turn.reply.steps
            BY <2>3, <2>5, <3>1 DEF CallsSound, HeadCovers
        <3>2. CASE ~HeadHoldsPoint /\ \E p \in PreviousSuccess : RetryPoint = output[p].resume
            <4>1. turn.owner \in PreviousSuccess
                BY <2>2, <3>2 DEF Outdated
            <4>2. RetryPoint = output[turn.owner].resume
                BY <3>2, <4>1, OnePrevious
            <4>3. turn.owner \in Runs /\ Owns(turn.owner)
                BY <4>1 DEF PreviousSuccess, Owns
            <4>4. LeftCovers(turn.owner)
                BY <2>3, <4>3 DEF CallsSound, RunCovers
            <4> QED
                BY <2>5, <4>2, <4>3, <4>4 DEF LeftCovers
        <3> QED
            BY <2>5, <3>1, <3>2, RetryReads DEF CarriesOn
    <2>7. turn'.reply.steps = ex[r].from
        BY <1>5 DEF Begin, StartTurn, RunningReply
    <2>8. HeadCovers'
        <3>1. AllButNext(NoRun, ex[r].from)
            BY <2>4, <2>6, CalmCarries DEF Covers
        <3> QED
            BY <2>7, <3>1 DEF HeadCovers, Covers, AllBut, AllButNext
    <2>9. OnceEach'
        BY <2>3, <2>4, CalmCarries DEF CallsSound
    <2> QED
        BY <1>3, <2>8, <2>9 DEF CallsSound
<1> QED
    BY <1>4, <1>5

(* The step `begin`, where it writes the turn or throws.                   *)
LEMMA BeginCalls ==
    ASSUME HeadInv, Clean => CallsSound, NEW r \in Runs, BeginSave(r) \/ BeginThrows(r)
    PROVE  Clean' => CallsSound'
<1>0. GrantInv /\ TypeInv /\ Step(r)
    BY DEF HeadInv, GrantInv, OwnerInv, Step, Execute
<1>1. Apart(r) /\ UNCHANGED ends /\ output' = output
    BY <1>0, StepIsApart DEF BeginSave, BeginThrows, workflows
<1>2. ex'[r].pc \in {"beginDone", "failing", "idle"}
    <2>1. Goto(r, "beginDone") \/ Set(r, [Idle EXCEPT !.pc = "failing"]) \/ Set(r, Idle)
        BY DEF BeginSave, BeginThrows
    <2>2. CASE Goto(r, "beginDone")
        BY <1>0, <2>2, GrantTypes
    <2>3. CASE Set(r, [Idle EXCEPT !.pc = "failing"])
        BY <1>0, <2>3, SetsPlace
    <2>4. CASE Set(r, Idle)
        BY <1>0, <2>4, SetsOne, Places
    <2> QED
        BY <2>1, <2>2, <2>3, <2>4
<1>3. \/ ex[r].pc = "startTurn" /\ turn' = Begin(r) /\ Lineage(r)
      \/ turn' = turn /\ UNCHANGED lineages
    BY DEF BeginSave, BeginThrows, MayHaveApplied, At
<1>4. CASE ex[r].pc = "startTurn" /\ turn' = Begin(r) /\ Lineage(r)
    BY <1>1, <1>2, <1>4, TakeCalls
<1>5. CASE turn' = turn /\ UNCHANGED lineages
    <2>1. Clean' => CallsSound
        BY <1>1, <1>5 DEF Clean, lineages, ends
    <2>2. ex'[r].pc \notin Leaving \cup {"running"}
        BY <1>2 DEF Leaving
    <2> QED
        BY <1>1, <1>5, <2>1, <2>2, AsideCovers DEF lineages
<1> QED
    BY <1>3, <1>4, <1>5
-----------------------------------------------------------------------------
(* The lineage, its owner and what its steps answered.                     *)

(* A write other than a begin's replaces the reply, by one that is saved.  *)
Rewrites ==
    \E reply : reply.status # "none" /\ turn # NoTurn /\ turn' = [turn EXCEPT !.reply = reply]

LEMMA WritesReplies ==
    ASSUME TypeInv, NEW r \in Runs, Step(r)
    PROVE  \/ UNCHANGED <<turn, lineage, joined>>
           \/ Rewrites /\ UNCHANGED <<lineage, joined>>
           \/ At(r, "startTurn") /\ turn' = Begin(r) /\ Lineage(r)
<1>1. CASE BeginSave(r) \/ BeginThrows(r)
    BY <1>1 DEF BeginSave, BeginThrows, MayHaveApplied, lineages
<1>2. CASE ~(BeginSave(r) \/ BeginThrows(r))
    <2>1. UNCHANGED <<lineage, joined>>
        BY <1>2, HistoryStays
    <2>2. ASSUME NEW reply \in Replies, turn' = EndOnce(r, reply), turn' # turn PROVE Rewrites
        BY <2>2 DEF EndOnce, WritableBy, OwnedBy, WithEnd, Replies, EndStatuses, Rewrites
    <2>3. turn' = turn \/ Rewrites
        <3>1. CASE SaveProgress(r) \/ SaveAnswerLost(r)
            <4>1. turn # NoTurn /\ turn' = [turn EXCEPT !.reply = RunningReply(ex[r].mem)]
                BY <3>1 DEF SaveProgress, SaveAnswerLost, WithProgress, WritableBy, OwnedBy
            <4>2. RunningReply(ex[r].mem).status # "none"
                BY DEF RunningReply
            <4> QED
                BY <4>1, <4>2 DEF Rewrites
        <3>2. CASE EndSave(r) \/ EndSaveFails(r)
            <4>1. ex[r].reply \in Replies
                BY <3>2 DEF EndSave, EndSaveFails, At, TypeInv, ExecutionsSound, EndStands
            <4>2. turn' = turn \/ turn' = EndOnce(r, ex[r].reply)
                BY <3>2 DEF EndSave, EndSaveFails, EndSaved, EndOnce, MayHaveApplied
            <4> QED
                BY <2>2, <4>1, <4>2
        <3>3. CASE FailedSave(r)
            <4>1. Failed \in Replies
                BY CallTypes DEF Failed, Replies, EndStatuses, Notes
            <4>2. turn' = turn \/ turn' = EndOnce(r, Failed)
                BY <3>3 DEF FailedSave, EndOnce
            <4> QED
                BY <2>2, <4>1, <4>2
        <3>4. CASE SweepEnd(r) \/ ForceEnd(r) \/ EndFromHead(r) \/ Repair(r)
            <4>1. /\ Reply("error", turn.reply.steps, "interrupted") \in Replies
                  /\ Reply("aborted", turn.reply.steps, "plain") \in Replies
                  /\ HeadEnds(r) \subseteq Replies
                BY OutsideReplyTypes DEF HeadEnds, Failed, Reply, EndStatuses, Notes
            <4>2. Repair(r) => pend[r] \in Replies
                BY DEF Repair, TypeInv, TypeOK, GrantsOK
            <4> QED
                BY <2>2, <3>4, <4>1, <4>2
                   DEF SweepEnd, ForceEnd, EndFromHead, Repair, EndTurnOnce, EndTurnOnceFails
        <3>5. CASE ~(\/ SaveProgress(r) \/ SaveAnswerLost(r) \/ EndSave(r) \/ EndSaveFails(r) \/ FailedSave(r)
                     \/ SweepEnd(r) \/ ForceEnd(r) \/ EndFromHead(r) \/ Repair(r))
            BY <1>2, <3>5, TurnStays DEF Step, Execute, ForceStop, Maintain, Environment
        <3> QED
            BY <3>1, <3>2, <3>3, <3>4, <3>5
    <2> QED
        BY <2>1, <2>3
<1> QED
    BY <1>1, <1>2

(* A begin takes the turn with the lineage it joins, and the message its   *)
(* steps answered.                                                         *)
LEMMA TakeBasics ==
    ASSUME TypeInv, Basics, NEW r \in Runs, At(r, "startTurn"), turn' = Begin(r), Lineage(r)
    PROVE  OwnerJoined' /\ NoneIsEmpty' /\ AnswersTurn'
<1>0. /\ DOMAIN joined = Runs
      /\ lineage \in [by : Runs \cup {NoRun}, msg : Runs \cup {NoRun}, stale : BOOLEAN, late : BOOLEAN]
    BY DEF TypeInv, TypeOK, LineagesOK
<1>1. OwnerJoined'
    <2>1. turn'.owner = r
        BY BeginOwner
    <2>2. joined'[r] = lineage'.by
        <3>1. CASE ex[r].from \in {NoPoint, 0}
            BY <3>1 DEF Lineage
        <3>2. CASE ex[r].from \notin {NoPoint, 0}
            <4>1. lineage' = [lineage EXCEPT !.msg = PointAnswered, !.stale = @ \/ Outdated(r),
                                             !.late = @ \/ ReadLate(r)]
                BY <3>2 DEF Lineage
            <4>2. lineage'.by = lineage.by
                BY <1>0, <4>1
            <4> QED
                BY <1>0, <3>2, <4>2 DEF Lineage
        <3> QED
            BY <3>1, <3>2
    <2> QED
        BY <2>1, <2>2 DEF OwnerJoined
<1>2. NoneIsEmpty'
    BY DEF NoneIsEmpty, Begin, StartTurn, NoReply, RunningReply
<1>3. AnswersTurn'
    <2>1. CASE ex[r].from \in {NoPoint, 0}
        BY <2>1 DEF Lineage, AnswersTurn
    <2>2. CASE ex[r].from \notin {NoPoint, 0}
        <3>1. SUFFICES ASSUME ~lineage'.late PROVE lineage'.msg = turn'.msg
            BY DEF AnswersTurn
        <3>2. lineage' = [lineage EXCEPT !.msg = PointAnswered, !.stale = @ \/ Outdated(r),
                                         !.late = @ \/ ReadLate(r)]
            BY <2>2 DEF Lineage
        <3>3. lineage'.msg = PointAnswered /\ ~lineage.late /\ ~ReadLate(r)
            BY <1>0, <3>1, <3>2
        <3>4. RetryPoint # NoPoint
            BY <2>2, <3>3 DEF ReadLate
        <3>5. turn # NoTurn /\ lineage.msg = turn.msg
            BY <3>3, <3>4, RetryReads DEF Basics, AnswersTurn
        <3>6. turn'.msg = turn.msg
            <4>1. input[r].kind = "retry"
                BY <2>2 DEF Basics, RetriesCarry
            <4> QED
                BY <3>5, <4>1 DEF Begin, StartTurn
        <3>7. PointAnswered = turn.msg
            <4>1. CASE HeadHoldsPoint \/ PreviousSuccess = {}
                BY <3>5, <4>1 DEF PointAnswered
            <4>2. CASE ~HeadHoldsPoint /\ PreviousSuccess # {}
                <5>1. PICK p \in PreviousSuccess : AnsweredNow(p)
                    BY <3>4, <4>2, RetryReads DEF HeadHoldsPoint
                <5>2. (CHOOSE q \in PreviousSuccess : TRUE) = p
                    BY OnePrevious
                <5> QED
                    BY <4>2, <5>1, <5>2 DEF PointAnswered, AnsweredNow
            <4> QED
                BY <4>1, <4>2
        <3> QED
            BY <3>3, <3>6, <3>7
    <2> QED
        BY <2>1, <2>2
<1> QED
    BY <1>1, <1>2, <1>3

(* Only a retry reads a point, and what a run is asked stays.              *)
LEMMA RetriesStay ==
    ASSUME HeadInv, Basics, NEW r \in Runs, Step(r)
    PROVE  RetriesCarry'
<1>0. GrantInv /\ TypeInv /\ ex[r] \in Executions
    BY DEF HeadInv, GrantInv, OwnerInv, TypeInv, TypeOK, ExecutionsOK
<1>1. Apart(r) /\ [Next]_vars
    BY <1>0, StepIsApart
<1>2. CASE \E kind \in Kinds : Start(r, kind)
    <2>1. wf[r] = "none" /\ ex' = ex /\ \A q \in Runs : q # r => input'[q] = input[q]
        BY <1>0, <1>2 DEF Start, TypeInv, TypeOK, WorkflowsOK
    <2>2. ex[r].pc = "idle"
        BY <1>0, <2>1 DEF GrantInv, OwnerInv, ExecutedIsStarted
    <2> QED
        BY <2>1, <2>2 DEF Basics, RetriesCarry, At
<1>3. CASE ~(\E kind \in Kinds : Start(r, kind))
    <2>1. input' = input
        <3>1. CASE \/ BeginRead(r) \/ AskCall(r) \/ FinishStep(r) \/ PassAlreadyEnded(r)
                   \/ ReplyDone(r) \/ ReplyFails(r) \/ ReplyAborted(r)
                   \/ (\E why \in {"ran_out", "paused"} : Abort(r, why))
                   \/ HearStop(r) \/ CheckCancelled(r) \/ Crash(r) \/ SendDone(r)
            <4>1. UNCHANGED shared
                BY <3>1 DEF BeginRead, AskCall, FinishStep, PassAlreadyEnded, ReplyDone, ReplyFails,
                       ReplyAborted, Abort, HearStop, CheckCancelled, Crash, SendDone
            <4> QED
                BY <4>1 DEF shared, workflows
        <3>2. CASE \/ Dequeue(r) \/ Return(r) \/ Fail(r) \/ Recover(r)
                   \/ BeginSave(r) \/ BeginRecord(r) \/ BeginThrows(r)
                   \/ PassEndsFromHead(r) \/ PassBegins(r) \/ EmitStart(r) \/ PassThrows(r)
                   \/ SaveProgress(r) \/ SaveAnswerLost(r) \/ RunCall(r)
            BY <3>2 DEF Dequeue, Return, Fail, Recover, BeginSave, BeginRecord, BeginThrows, PassEndsFromHead,
                   PassBegins, EmitStart, PassThrows, SaveProgress, SaveAnswerLost, RunCall, workflows
        <3>3. CASE \/ EndSave(r) \/ EndSaveFails(r) \/ EndJournal(r) \/ PassRecord(r) \/ Forget(r)
                   \/ FailedSave(r) \/ TimedOut(r) \/ SweepCancel(r) \/ ForceCancel(r)
                   \/ EndFromHead(r) \/ StopByKeySignal(r) \/ ForceCheck(r) \/ ForceEnd(r) \/ SweepEnd(r)
                   \/ Repair(r) \/ Upgrade(r) \/ Stop(r) \/ StopByKeyMark(r)
            BY <3>3 DEF EndSave, EndSaveFails, EndJournal, PassRecord, Forget, FailedSave, TimedOut,
                   SweepCancel, ForceCancel, EndFromHead, StopByKeySignal, ForceCheck, ForceEnd, SweepEnd,
                   Repair, Upgrade, Stop, StopByKeyMark, workflows
        <3> QED
            BY <1>3, <3>1, <3>2, <3>3 DEF Step, Execute, Environment, ForceStop, Maintain
    <2>2. CASE BeginRead(r)
        <3> DEFINE from == IF input[r].kind = "retry" THEN RetryPoint ELSE NoPoint
                   e == [ex[r] EXCEPT !.pc = "startTurn", !.stopped = StoppedBeforeStart(r), !.from = from]
        <3>1. e.from = from
            BY <1>0 DEF Executions
        <3>2. from # NoPoint => input[r].kind = "retry"
            OBVIOUS
        <3>3. Set(r, e)
            BY <2>2 DEF BeginRead
        <3> HIDE DEF e, from
        <3>4. ex'[r] = e
            BY <1>0, <3>3, GrantTypes
        <3> QED
            BY <1>1, <2>1, <3>1, <3>2, <3>4 DEF Basics, RetriesCarry, At, Apart
    <2>3. CASE ~BeginRead(r)
        <3>1. ex'[r].pc = "startTurn" => ex'[r] = ex[r]
            <4>1. CASE BeginSave(r)
                <5>1. ex'[r].pc = "beginDone"
                    BY <1>0, <4>1, GrantTypes DEF BeginSave
                <5> QED
                    BY <5>1
            <4>2. CASE \/ EndFromHead(r) \/ ForceStop(r) \/ Maintain(r) \/ Upgrade(r) \/ TimedOut(r)
                       \/ Stop(r) \/ StopByKeyMark(r) \/ StopByKeySignal(r) \/ SaveAnswerLost(r)
                BY <4>2 DEF EndFromHead, ForceStop, ForceCheck, ForceCancel, ForceEnd, Maintain, SweepCancel,
                       SweepEnd, Repair, Upgrade, TimedOut, Stop, StopByKeyMark, StopByKeySignal, SaveAnswerLost
            <4>3. CASE ~(\/ BeginSave(r) \/ EndFromHead(r) \/ ForceStop(r) \/ Maintain(r) \/ Upgrade(r)
                         \/ TimedOut(r) \/ Stop(r) \/ StopByKeyMark(r) \/ StopByKeySignal(r)
                         \/ SaveAnswerLost(r))
                BY <1>0, <1>1, <1>3, <2>3, <4>3, StartsNoTurn DEF Step, Execute, Environment, StartsTurn
            <4> QED
                BY <4>1, <4>2, <4>3
        <3> QED
            BY <1>1, <2>1, <3>1 DEF Basics, RetriesCarry, At, Apart
    <2> QED
        BY <2>2, <2>3
<1> QED
    BY <1>2, <1>3

LEMMA BasicsStep ==
    ASSUME HeadInv, Basics, NEW r \in Runs, Step(r)
    PROVE  Basics'
<1>0. TypeInv
    BY DEF HeadInv, GrantInv, OwnerInv
<1>1. OwnerJoined' /\ NoneIsEmpty' /\ AnswersTurn'
    <2>1. CASE UNCHANGED <<turn, lineage, joined>>
        BY <2>1 DEF Basics, OwnerJoined, NoneIsEmpty, AnswersTurn
    <2>2. CASE Rewrites /\ UNCHANGED <<lineage, joined>>
        <3>1. PICK reply : reply.status # "none" /\ turn # NoTurn /\ turn' = [turn EXCEPT !.reply = reply]
            BY <2>2 DEF Rewrites
        <3>2. turn'.owner = turn.owner /\ turn'.msg = turn.msg /\ turn'.reply = reply
            BY <1>0, <3>1 DEF TypeInv, TypeOK, TurnOK, Turns
        <3> QED
            BY <2>2, <3>1, <3>2 DEF Basics, OwnerJoined, NoneIsEmpty, AnswersTurn
    <2>3. CASE At(r, "startTurn") /\ turn' = Begin(r) /\ Lineage(r)
        BY <1>0, <2>3, TakeBasics
    <2> QED
        BY <1>0, <2>1, <2>2, <2>3, WritesReplies
<1>2. LostIsUnsaved'
    BY HistoryStays DEF Basics
<1> QED
    BY <1>1, <1>2, RetriesStay DEF Basics
-----------------------------------------------------------------------------
LEMMA CallsStep == CallsInv /\ [Next]_vars => CallsInv'
<1> SUFFICES ASSUME CallsInv, [Next]_vars PROVE CallsInv'
    OBVIOUS
<1>0. HeadInv /\ Basics /\ (Clean => CallsSound)
    BY DEF CallsInv
<1>1. HeadInv'
    BY <1>0, HeadStep
<1>2. CASE UNCHANGED vars
    <2>1. UNCHANGED <<turn, unsaved, lostEnd, rerun, output, wf, ex, lineage, joined, timesRan, input>>
        BY <1>2 DEF vars, shared, workflows, grants, history, lineages, ends
    <2>2. Basics'
        BY <1>0, <2>1 DEF Basics, OwnerJoined, NoneIsEmpty, AnswersTurn, LostIsUnsaved, RetriesCarry, At
    <2>3. \A q \in Runs : MayRun(q)' <=> MayRun(q)
        BY <2>1 DEF MayRun
    <2>4. Calm /\ (Clean' <=> Clean)
        BY <2>1, <2>3 DEF Calm, Clean
    <2>5. \A q, n : AllBut(q, n) => AllButNext(q, n)
        BY <2>4 DEF Calm, AllBut, AllButNext
    <2>6. ASSUME CallsSound PROVE CallsSound'
        <3>1. HeadCovers'
            BY <2>1, <2>5, <2>6 DEF CallsSound, HeadCovers, CarriesOn, Covers, AllBut, AllButNext
        <3>2. ASSUME NEW q \in Runs PROVE RunCovers(q)'
            <4>1. RunCovers(q)
                BY <2>6 DEF CallsSound
            <4>2. PassCovers(q)'
                BY <2>1, <2>5, <4>1 DEF RunCovers, PassCovers, At, Open, HasEnded, Asked, AllBut, AllButNext
            <4>3. PauseCovers(q)'
                BY <2>1, <2>5, <4>1 DEF RunCovers, PauseCovers, At, Open, HasEnded, Covers, AllBut, AllButNext
            <4>4. LeftCovers(q)'
                BY <2>1, <2>5, <4>1 DEF RunCovers, LeftCovers, Owns, Live, Covers, AllBut, AllButNext
            <4> QED
                BY <4>2, <4>3, <4>4 DEF RunCovers
        <3>3. OnceEach'
            BY <2>4, <2>6 DEF Calm, CallsSound, OnceEach, NothingRunsTwice, CallsApart, CallsNew
        <3> QED
            BY <3>1, <3>2, <3>3 DEF CallsSound
    <2> QED
        BY <1>0, <1>1, <2>2, <2>4, <2>6 DEF CallsInv
<1>3. CASE Next
    <2>1. PICK r \in Runs : Step(r)
        BY <1>3 DEF Next, Step
    <2>2. Basics'
        BY <1>0, <2>1, BasicsStep
    <2>3. Clean' => CallsSound'
        <3>1. CASE BeginSave(r) \/ BeginThrows(r)
            BY <1>0, <3>1, BeginCalls
        <3>2. CASE ~(BeginSave(r) \/ BeginThrows(r))
            <4>1. Clean' => Clean
                BY <2>1, <3>2, HistoryStays DEF Clean
            <4>2. ASSUME Clean, CallsSound PROVE CallsSound'
                BY <1>0, <2>1, <3>2, <4>2, AsideCalls, AskCalls, OutcomeCalls, RecordCalls, FoundEndCalls,
                   PassBeginsCalls, EmitCalls, EndSaveCalls, OutsideCalls, SaveCalls, RunTheCall
                   DEF Step, Execute, Environment, ForceStop, Maintain
            <4> QED
                BY <1>0, <4>1, <4>2
        <3> QED
            BY <3>1, <3>2
    <2> QED
        BY <1>1, <2>2, <2>3 DEF CallsInv
<1> QED
    BY <1>2, <1>3

(* No call of a reply runs twice, whatever crashes, is cancelled or is     *)
(* carried on (runAfterSaved, "so nothing runs twice", resumeOf), where    *)
(* every retry carried on from the last steps there were.                  *)
THEOREM CallsRunOnce == Spec => []NoCallRunsTwice
<1>1. CallsInv => NoCallRunsTwice
    BY DEF CallsInv, Clean, CallsSound, OnceEach, NoCallRunsTwice
<1> QED
    BY <1>1, InitCalls, CallsStep, PTL DEF Spec

(* The steps a reply carries on from answered the message its turn holds   *)
(* (#retryPoint), unless a begin carried on what the head moved on from.   *)
THEOREM StepsAnswer == Spec => []StepsAnswerTheMessage
<1>1. CallsInv => StepsAnswerTheMessage
    <2>1. NoTurn.reply.steps = 0
        BY DEF NoTurn, NoReply
    <2> QED
        BY <2>1 DEF CallsInv, Basics, AnswersTurn, StepsAnswerTheMessage, StepsAlwaysAnswer
<1> QED
    BY <1>1, InitCalls, CallsStep, PTL DEF Spec
=============================================================================
