---------------------------- MODULE RunnerGrants ----------------------------
(***************************************************************************)
(* The grant of a run outlives the reply that someone must end with it,    *)
(* through every crash, fault, stop and recovery.  What makes it so: a run *)
(* whose begin is to come has its grant, and a pass that is over, however  *)
(* it got there, left an ended reply or an end kept with the grant.  The   *)
(* same order of a run's steps makes that a stop by key is heard.          *)
(* The end a run journals is the one the head holds, as what the head may  *)
(* hold of a run's reply is known wherever its pass stands.                *)
(***************************************************************************)
EXTENDS RunnerProofs

(* Run r's reply is still to be ended; what the property excepts.          *)
Open(r) == turn.owner = r /\ ~HasEnded(turn)
Excused(r) == ThrewAStep(r) \/ BeganLate(r) \/ r \in lostEnd

Beginning == {"begin", "startTurn", "beginDone"}
PassPcs == {"pass", "running", "endSave", "endJournal", "passDone"}
Ending == {"endJournal", "passDone", "send", "forget", "return", "failing", "fail"}

(* `begin` is recorded before the pass, and the pass before the end.       *)
InStepOrder(r) ==
    /\ ex[r].pc \in Beginning => begun[r] = "none"
    /\ ex[r].pc \notin Beginning \cup {"idle"} => begun[r] # "none"
    /\ ex[r].pc \in PassPcs => output[r] = NoOutput /\ begun[r] # "threw"
    /\ output[r] # NoOutput \/ JournalEnded(r) \/ pend[r] # NoReply => begun[r] # "none"
    /\ wf[r] \in {"none", "ENQUEUED"} => begun[r] = "none"

(* What ends a reply from outside does so for a run that is over.          *)
CutIsOver(r) ==
    /\ r \in sweep \/ force[r] = "cancelled" => wf[r] \in Terminal
    /\ force[r] # "none" => wf[r] # "none"

GrantForBegin(r) == wf[r] \in Active /\ begun[r] = "none" => r \in grant
GrantToEnd(r) == Open(r) => r \in grant \/ Excused(r)

(* The pass has written, or kept, the end of its reply, or lost it.        *)
EndWritten(r) == ex[r].pc \in Ending \/ output[r] # NoOutput \/ JournalEnded(r)
Settled(r) == ~Open(r) \/ (pend[r] # NoReply /\ r \in grant) \/ Excused(r)

GrantSound(r) ==
    /\ InStepOrder(r) /\ CutIsOver(r) /\ GrantForBegin(r) /\ GrantToEnd(r)
    /\ EndWritten(r) => Settled(r)

GrantInv == OwnerInv /\ \A r \in Runs : GrantSound(r)

LEMMA InitGrants == Init => GrantInv
<1> SUFFICES ASSUME Init, NEW r \in Runs PROVE GrantSound(r)
    BY InitOwner DEF GrantInv
<1>1. /\ ex[r].pc = "idle" /\ begun[r] = "none" /\ output[r] = NoOutput /\ jrnl[r] = <<>>
      /\ pend[r] = NoReply /\ force[r] = "none" /\ sweep = {} /\ wf[r] = "none" /\ turn = NoTurn
    BY DEF Init, Idle
<1>2. ~Open(r) /\ ~JournalEnded(r)
    BY <1>1, NoTurnHasNoOwner DEF Open, JournalEnded
<1>3. InStepOrder(r)
    BY <1>1, <1>2 DEF InStepOrder, Beginning, PassPcs
<1>4. CutIsOver(r) /\ GrantForBegin(r) /\ GrantToEnd(r) /\ ~EndWritten(r)
    BY <1>1, <1>2 DEF CutIsOver, GrantForBegin, GrantToEnd, EndWritten, Ending, Active, Terminal
<1> QED
    BY <1>3, <1>4 DEF GrantSound
-----------------------------------------------------------------------------
(* Lemmas of any step.                                                     *)

(* What the other runs are is left alone.                                  *)
Same(q) ==
    /\ wf'[q] = wf[q] /\ begun'[q] = begun[q] /\ output'[q] = output[q] /\ jrnl'[q] = jrnl[q]
    /\ pend'[q] = pend[q] /\ force'[q] = force[q]
    /\ q \in sweep' <=> q \in sweep
    /\ q \in grant' <=> q \in grant
Apart(r) == \A q \in Runs : q # r => Same(q) /\ ex'[q] = ex[q]

(* An execution that goes no further than it was, or dies.                 *)
Lingers(q) ==
    \/ ex'[q] = ex[q] \/ ex'[q].pc = "idle"
    \/ ex[q].pc = "begin" /\ ex'[q].pc = "startTurn"
    \/ ex[q].pc = "pass" /\ ex'[q].pc = "pass"
    \/ ex[q].pc = "running" /\ ex'[q].pc \in {"running", "endSave"}

(* An end that was lost is not found again.                                *)
LEMMA LostGrows ==
    ASSUME [Next]_vars
    PROVE  lostEnd \subseteq lostEnd'
<1>1. CASE UNCHANGED vars
    BY <1>1 DEF vars, shared, history, ends
<1>2. ASSUME NEW r \in Runs, Execute(r) PROVE lostEnd \subseteq lostEnd'
    <2>1. CASE \/ BeginRead(r) \/ BeginSave(r) \/ BeginRecord(r) \/ BeginThrows(r)
               \/ PassAlreadyEnded(r) \/ PassEndsFromHead(r) \/ PassBegins(r) \/ EmitStart(r) \/ PassThrows(r)
        BY <2>1 DEF BeginRead, BeginSave, BeginRecord, BeginThrows, PassAlreadyEnded, PassEndsFromHead,
               PassBegins, EmitStart, PassThrows, shared, history, ends
    <2>2. CASE \/ AskCall(r) \/ SaveProgress(r) \/ SaveAnswerLost(r) \/ RunCall(r) \/ FinishStep(r)
               \/ ReplyDone(r) \/ ReplyFails(r) \/ ReplyAborted(r)
        BY <2>2 DEF AskCall, SaveProgress, SaveAnswerLost, RunCall, FinishStep, ReplyDone, ReplyFails,
               ReplyAborted, shared, history, ends
    <2>3. CASE \/ EndSave(r) \/ EndSaveFails(r) \/ EndJournal(r) \/ PassRecord(r)
               \/ SendDone(r) \/ Forget(r) \/ Return(r) \/ FailedSave(r) \/ Fail(r)
        BY <2>3 DEF EndSave, EndSaveFails, EndJournal, PassRecord, SendDone, Forget, Return, FailedSave, Fail,
               shared, history, ends
    <2> QED
        BY <1>2, <2>1, <2>2, <2>3 DEF Execute
<1>3. ASSUME NEW r \in Runs, Environment(r) \/ Maintain(r) \/ ForceStop(r) PROVE lostEnd \subseteq lostEnd'
    <2>1. CASE Environment(r)
        BY <2>1 DEF Environment, Start, Abort, Crash, Upgrade, TimedOut, Stop, StopByKeyMark, shared, history, ends
    <2>2. CASE Maintain(r) \/ ForceStop(r)
        BY <2>2 DEF Maintain, ForceStop, SweepCancel, SweepEnd, Repair, ForceCheck, ForceCancel, ForceEnd,
               history, ends
    <2> QED
        BY <1>3, <2>1, <2>2
<1>4. ASSUME NEW r \in Runs,
             Dequeue(r) \/ Recover(r) \/ HearStop(r) \/ CheckCancelled(r) \/ EndFromHead(r) \/ StopByKeySignal(r)
      PROVE  lostEnd \subseteq lostEnd'
    BY <1>4 DEF Dequeue, Recover, HearStop, CheckCancelled, EndFromHead, StopByKeySignal, shared, history, ends
<1> QED
    BY <1>1, <1>2, <1>3, <1>4 DEF Next

(* A run that is left alone stays sound, but for a turn it takes.          *)
LEMMA SameStaysSound ==
    ASSUME GrantInv, [Next]_vars, NEW q \in Runs, Same(q), Lingers(q), Open(q)' => Open(q)
    PROVE  GrantSound(q)'
<1>1. GrantSound(q) /\ (JournalEnded(q)' <=> JournalEnded(q))
    BY DEF GrantInv, JournalEnded, IsEnd, Same
<1>2. Excused(q) => Excused(q)'
    BY LostGrows DEF Same, Excused, ThrewAStep, BeganLate
<1>3. InStepOrder(q)' /\ CutIsOver(q)' /\ GrantForBegin(q)'
    BY <1>1 DEF GrantSound, InStepOrder, CutIsOver, GrantForBegin, Same, Lingers, Beginning, PassPcs
<1>4. GrantToEnd(q)' /\ (EndWritten(q)' => Settled(q)')
    BY <1>1, <1>2 DEF GrantSound, GrantToEnd, EndWritten, Settled, Same, Lingers, Ending
<1> QED
    BY <1>3, <1>4 DEF GrantSound

(* Only its own begin opens a run's reply.                                 *)
LEMMA OpensByTaking ==
    ASSUME OwnerInv, NEW r \in Runs, turn' = turn \/ Writes(r), NEW q \in Runs
    PROVE  Open(q)' => Open(q) \/ (q = r /\ Takes(r))
<1>1. CASE turn' = turn
    BY <1>1 DEF Open, HasEnded
<1>2. CASE Takes(r)
    BY <1>2, BeginOwner DEF Takes, Open
<1>3. CASE WritesOwn(r)
    BY <1>3 DEF WritesOwn, WritableBy, Open
<1> QED
    BY <1>1, <1>2, <1>3 DEF Writes

(* So a step of run r is sound when it leaves r so.                        *)
LEMMA StepIsSound ==
    ASSUME GrantInv, [Next]_vars, NEW r \in Runs, Apart(r), turn' = turn \/ Writes(r), GrantSound(r)'
    PROVE  \A q \in Runs : GrantSound(q)'
BY SameStaysSound, OpensByTaking DEF GrantInv, Apart, Lingers

(* The types that a step's own changes are read with.                      *)
LEMMA GrantTypes ==
    ASSUME TypeInv, NEW r \in Runs
    PROVE  /\ \A e : Set(r, e) => ex'[r] = e /\ \A q \in Runs : q # r => ex'[q] = ex[q]
           /\ \A pc : Goto(r, pc) => ex'[r].pc = pc /\ \A q \in Runs : q # r => ex'[q] = ex[q]
           /\ \A v : wf' = [wf EXCEPT ![r] = v] =>
                  wf'[r] = v /\ \A q \in Runs : q # r => wf'[q] = wf[q]
           /\ \A v : begun' = [begun EXCEPT ![r] = v] =>
                  begun'[r] = v /\ \A q \in Runs : q # r => begun'[q] = begun[q]
           /\ \A v : output' = [output EXCEPT ![r] = v] =>
                  output'[r] = v /\ \A q \in Runs : q # r => output'[q] = output[q]
           /\ \A v : pend' = [pend EXCEPT ![r] = v] =>
                  pend'[r] = v /\ \A q \in Runs : q # r => pend'[q] = pend[q]
           /\ \A v : force' = [force EXCEPT ![r] = v] =>
                  force'[r] = v /\ \A q \in Runs : q # r => force'[q] = force[q]
           /\ \A v : Append1(r, v) =>
                  jrnl'[r] = Append(jrnl[r], v) /\ \A q \in Runs : q # r => jrnl'[q] = jrnl[q]
<1>1. /\ ex \in [Runs -> Executions] /\ ex[r] \in Executions
      /\ DOMAIN wf = Runs /\ DOMAIN begun = Runs /\ DOMAIN output = Runs /\ DOMAIN pend = Runs
      /\ DOMAIN force = Runs /\ DOMAIN jrnl = Runs
      /\ wf \in [Runs -> {"none"} \cup Active \cup Terminal] /\ begun \in [Runs -> Begun]
      /\ output \in [Runs -> Outputs] /\ pend \in [Runs -> Replies \cup {NoReply}]
      /\ force \in [Runs -> {"none", "armed", "checked", "cancelled"}] /\ jrnl \in [Runs -> Seq(Events)]
    BY DEF TypeInv, TypeOK, ExecutionsOK, WorkflowsOK, GrantsOK, StopsOK, JournalOK
<1>2. /\ \A e : Set(r, e) => ex'[r] = e /\ \A q \in Runs : q # r => ex'[q] = ex[q]
      /\ \A pc : Goto(r, pc) => ex'[r].pc = pc /\ \A q \in Runs : q # r => ex'[q] = ex[q]
    BY <1>1 DEF Set, Goto, Executions
<1> QED
    BY <1>1, <1>2 DEF Append1

(* The places an execution is set to.                                      *)
LEMMA Places ==
    /\ Idle.pc = "idle"
    /\ \A pc : [Idle EXCEPT !.pc = pc].pc = pc
    /\ \A pc, out : [Idle EXCEPT !.pc = pc, !.out = out].pc = pc /\ [Idle EXCEPT !.pc = pc, !.out = out].out = out
    /\ \A e, status, reply, resume : EndWith(e, status, reply, resume).pc = "endSave"
BY DEF Idle, EndWith
-----------------------------------------------------------------------------
(* The steps.                                                              *)

(* Those that record, write and forget nothing.                            *)
LEMMA QuietGrants ==
    ASSUME GrantInv, [Next]_vars, NEW r \in Runs,
           \/ BeginRead(r) \/ AskCall(r) \/ SaveProgress(r) \/ SaveAnswerLost(r) \/ RunCall(r) \/ FinishStep(r)
           \/ ReplyDone(r) \/ ReplyFails(r) \/ ReplyAborted(r)
           \/ (\E why \in {"ran_out", "paused"} : Abort(r, why))
           \/ HearStop(r) \/ CheckCancelled(r) \/ Crash(r) \/ Upgrade(r) \/ StopByKeyMark(r)
    PROVE  Lingers(r) /\ Apart(r) /\ (\A q \in Runs : GrantSound(q)')
<1>0. TypeInv /\ ex[r] \in Executions
    BY DEF GrantInv, OwnerInv, TypeInv, TypeOK, ExecutionsOK
<1>1. /\ UNCHANGED <<wf, begun, output, jrnl, pend, force, sweep, grant>>
      /\ \A q \in Runs : Same(q)
    <2>1. CASE \/ BeginRead(r) \/ AskCall(r) \/ FinishStep(r)
               \/ ReplyDone(r) \/ ReplyFails(r) \/ ReplyAborted(r)
               \/ (\E why \in {"ran_out", "paused"} : Abort(r, why))
               \/ HearStop(r) \/ CheckCancelled(r) \/ Crash(r)
        <3>1. UNCHANGED shared
            BY <2>1 DEF BeginRead, AskCall, FinishStep, ReplyDone, ReplyFails, ReplyAborted, Abort, HearStop,
                   CheckCancelled, Crash
        <3> QED
            BY <3>1 DEF shared, workflows, stops, grants, Same
    <2>2. CASE SaveProgress(r) \/ SaveAnswerLost(r) \/ RunCall(r) \/ Upgrade(r) \/ StopByKeyMark(r)
        BY <2>2 DEF SaveProgress, SaveAnswerLost, RunCall, Upgrade, StopByKeyMark, workflows, stops, grants, Same
    <2> QED
        BY <2>1, <2>2
<1>2. /\ \A q \in Runs : q # r => ex'[q] = ex[q]
      /\ Lingers(r)
    <2>0. /\ \A b : [ex[r] EXCEPT !.saved = b].pc = ex[r].pc
          /\ \A c : [ex[r] EXCEPT !.call = c].pc = ex[r].pc
          /\ \A c : [ex[r] EXCEPT !.why = c].pc = ex[r].pc
        BY <1>0 DEF Executions
    <2>1. ASSUME NEW e, Set(r, e)
          PROVE  /\ \A q \in Runs : q # r => ex'[q] = ex[q]
                 /\ ex[r].pc = "pass" /\ e.pc = "pass" => Lingers(r)
                 /\ e.pc = "idle" => Lingers(r)
                 /\ ex[r].pc = "begin" /\ e.pc = "startTurn" => Lingers(r)
                 /\ ex[r].pc = "running" /\ e.pc \in {"running", "endSave"} => Lingers(r)
        <3>1. ex'[r] = e /\ \A q \in Runs : q # r => ex'[q] = ex[q]
            BY <1>0, <2>1, GrantTypes
        <3> QED
            BY <3>1 DEF Lingers
    <2>2. CASE SaveAnswerLost(r) \/ Upgrade(r) \/ StopByKeyMark(r)
        BY <2>2 DEF SaveAnswerLost, Upgrade, StopByKeyMark, Lingers
    <2>3. CASE BeginRead(r)
        <3> DEFINE from == IF input[r].kind = "retry" THEN RetryPoint ELSE NoPoint
                   e == [ex[r] EXCEPT !.pc = "startTurn", !.stopped = StoppedBeforeStart(r), !.from = from]
        <3>1. e.pc = "startTurn" /\ ex[r].pc = "begin"
            BY <1>0, <2>3 DEF Executions, BeginRead, At
        <3>2. Set(r, e)
            BY <2>3 DEF BeginRead
        <3> HIDE DEF e
        <3> QED
            BY <2>1, <3>1, <3>2
    <2>4. CASE AskCall(r)
        <3> DEFINE e == [ex[r] EXCEPT !.mem = @ + 1, !.saved = FALSE, !.call = "asked"]
        <3>1. e.pc = ex[r].pc /\ ex[r].pc = "running"
            BY <1>0, <2>4 DEF Executions, AskCall, Going, At
        <3>2. Set(r, e)
            BY <2>4 DEF AskCall
        <3> HIDE DEF e
        <3> QED
            BY <2>1, <3>1, <3>2
    <2>5. CASE \/ SaveProgress(r) \/ RunCall(r) \/ FinishStep(r)
               \/ (\E why \in {"ran_out", "paused"} : Abort(r, why)) \/ HearStop(r) \/ CheckCancelled(r)
        <3>1. \E e : Set(r, e) /\ e.pc = ex[r].pc
            BY <2>0, <2>5 DEF SaveProgress, RunCall, FinishStep, Abort, HearStop, CheckCancelled
        <3>2. ex[r].pc \in {"pass", "running"}
            BY <2>5 DEF SaveProgress, RunCall, FinishStep, Abort, HearStop, CheckCancelled, Going, At
        <3> QED
            BY <2>1, <3>1, <3>2
    <2>7. CASE Crash(r)
        <3>1. Set(r, Idle)
            BY <2>7 DEF Crash
        <3> QED
            BY <2>1, <3>1, Places
    <2>8. CASE ReplyDone(r) \/ ReplyFails(r) \/ ReplyAborted(r)
        <3>1. At(r, "running") /\ \E status, reply, out : Set(r, EndWith(ex[r], status, reply, out))
            BY <2>8 DEF ReplyDone, ReplyFails, ReplyAborted, Going
        <3> QED
            BY <2>1, <3>1, Places DEF At
    <2> QED
        BY <2>2, <2>3, <2>4, <2>5, <2>7, <2>8
<1>3. turn' = turn \/ WritesOwn(r)
    <2>1. CASE SaveProgress(r) \/ SaveAnswerLost(r)
        BY <1>0, <2>1, ReplyLeavesOwner DEF SaveProgress, SaveAnswerLost, WritesOwn
    <2>2. CASE ~(SaveProgress(r) \/ SaveAnswerLost(r))
        BY <2>2, TurnStays
    <2> QED
        BY <2>1, <2>2
<1>4. Open(r)' => Open(r)
    BY <1>3 DEF WritesOwn, WritableBy, Open, HasEnded
<1>5. GrantSound(r)'
    BY <1>1, <1>2, <1>4, SameStaysSound
<1> QED
    BY <1>1, <1>2, <1>3, <1>5, StepIsSound DEF Apart, Writes

(* A stop that is signalled, or looked at.                                 *)
LEMMA SignalGrants ==
    ASSUME GrantInv, [Next]_vars, NEW r \in Runs, Stop(r) \/ StopByKeySignal(r) \/ ForceCheck(r)
    PROVE  Apart(r) /\ (\A q \in Runs : GrantSound(q)')
<1>0. TypeInv /\ "none" \notin Active
    BY DEF GrantInv, OwnerInv, Active
<1>1. UNCHANGED <<wf, begun, output, jrnl, pend, sweep, grant, ex, turn>>
    BY DEF Stop, StopByKeySignal, ForceCheck, workflows, grants
<1>2. \A q \in Runs : q # r => force'[q] = force[q]
    BY <1>0, GrantTypes DEF Stop, StopByKeySignal, ForceCheck, SignalStop
<1>3. force'[r] # "none" /\ force'[r] # force[r] => force'[r] # "cancelled" /\ wf[r] # "none"
    <2>1. CASE Stop(r) \/ StopByKeySignal(r)
        <3>1. force' = force \/ (force' = [force EXCEPT ![r] = "armed"] /\ wf[r] \in Active)
            BY <2>1 DEF Stop, StopByKeySignal, SignalStop
        <3>2. force' = [force EXCEPT ![r] = "armed"] => force'[r] = "armed"
            BY <1>0 DEF TypeInv, TypeOK, StopsOK
        <3> QED
            BY <1>0, <3>1, <3>2
    <2>2. CASE ForceCheck(r)
        <3>1. /\ force' = [force EXCEPT ![r] = IF MayForce(r) THEN "checked" ELSE "none"]
              /\ MayForce(r) => wf[r] # "none"
            BY <1>0, <2>2 DEF ForceCheck, MayForce
        <3>2. force'[r] = IF MayForce(r) THEN "checked" ELSE "none"
            BY <1>0, <3>1 DEF TypeInv, TypeOK, StopsOK
        <3> QED
            BY <3>1, <3>2
    <2> QED
        BY <2>1, <2>2
<1>4. GrantSound(r)'
    <2>1. GrantSound(r) /\ (JournalEnded(r)' <=> JournalEnded(r)) /\ (Open(r)' <=> Open(r))
          /\ (Excused(r) => Excused(r)')
        BY <1>1, LostGrows DEF GrantInv, JournalEnded, IsEnd, Open, HasEnded, Excused, ThrewAStep, BeganLate
    <2>2. InStepOrder(r)' /\ GrantForBegin(r)' /\ GrantToEnd(r)' /\ (EndWritten(r)' => Settled(r)')
        BY <1>1, <2>1 DEF GrantSound, InStepOrder, GrantForBegin, GrantToEnd, EndWritten, Settled
    <2>3. CutIsOver(r)'
        BY <1>1, <1>3, <2>1 DEF GrantSound, CutIsOver
    <2> QED
        BY <2>2, <2>3 DEF GrantSound
<1> QED
    BY <1>1, <1>2, <1>4, StepIsSound DEF Apart, Same

(* A run that is cancelled is over; the rest of it stays as it was.        *)
LEMMA CancelGrants ==
    ASSUME GrantInv, [Next]_vars, NEW r \in Runs, TimedOut(r) \/ SweepCancel(r) \/ ForceCancel(r)
    PROVE  Apart(r) /\ (\A q \in Runs : GrantSound(q)')
<1>0. /\ TypeInv /\ wf[r] \in {"none"} \cup Active \cup Terminal
      /\ Active \cap Terminal = {} /\ "none" \notin Active \cup Terminal /\ "CANCELLED" \in Terminal
      /\ "CANCELLED" \notin Active
    BY DEF GrantInv, OwnerInv, TypeInv, TypeOK, WorkflowsOK, Active, Terminal
<1>1. UNCHANGED <<begun, output, jrnl, pend, grant, ex, turn>>
    BY DEF TimedOut, SweepCancel, ForceCancel, grants
<1>2. /\ wf'[r] \in Terminal /\ (wf[r] \in Terminal => wf'[r] = wf[r])
      /\ \A q \in Runs : q # r => wf'[q] = wf[q]
    <2>1. Cancel(r) /\ wf[r] # "none"
        BY <1>0 DEF TimedOut, SweepCancel, ForceCancel, GrantInv, GrantSound, CutIsOver, Active
    <2>2. wf' = [wf EXCEPT ![r] = IF wf[r] \in Active THEN "CANCELLED" ELSE wf[r]]
        BY <2>1 DEF Cancel
    <2>3. wf'[r] = IF wf[r] \in Active THEN "CANCELLED" ELSE wf[r]
        BY <1>0, <2>2 DEF TypeInv, TypeOK, WorkflowsOK
    <2>4. \A q \in Runs : q # r => wf'[q] = wf[q]
        BY <1>0, <2>2, GrantTypes
    <2> QED
        BY <1>0, <2>1, <2>3, <2>4
<1>4. \A q \in Runs : q # r => force'[q] = force[q] /\ (q \in sweep' <=> q \in sweep)
    <2>1. CASE TimedOut(r) \/ SweepCancel(r)
        BY <2>1 DEF TimedOut, SweepCancel, stops
    <2>2. CASE ForceCancel(r)
        BY <1>0, <2>2, GrantTypes DEF ForceCancel
    <2> QED
        BY <2>1, <2>2
<1>3. GrantSound(r)'
    <2>1. GrantSound(r) /\ (JournalEnded(r)' <=> JournalEnded(r)) /\ (Open(r)' <=> Open(r))
          /\ (Excused(r) => Excused(r)')
        BY <1>1, <1>2, LostGrows DEF GrantInv, JournalEnded, IsEnd, Open, HasEnded, Excused, ThrewAStep, BeganLate
    <2>2. InStepOrder(r)' /\ GrantToEnd(r)' /\ (EndWritten(r)' => Settled(r)')
        BY <1>0, <1>1, <1>2, <2>1 DEF GrantSound, InStepOrder, GrantToEnd, EndWritten, Settled, Terminal
    <2>3. CutIsOver(r)' /\ GrantForBegin(r)'
        BY <1>0, <1>2 DEF CutIsOver, GrantForBegin
    <2> QED
        BY <2>2, <2>3 DEF GrantSound
<1> QED
    BY <1>1, <1>2, <1>3, <1>4, StepIsSound DEF Apart, Same
-----------------------------------------------------------------------------
(* The steps of the run itself: what is sound before, where it is.         *)

(* A journal that is left, or starts, has no end it had not.               *)
LEMMA JournalStays ==
    ASSUME TypeInv, NEW r \in Runs
    PROVE  /\ jrnl'[r] = jrnl[r] => (JournalEnded(r)' <=> JournalEnded(r))
           /\ Append1(r, RunStarted) => ~JournalEnded(r)'
<1>1. ASSUME Append1(r, RunStarted) PROVE ~JournalEnded(r)'
    <2>1. jrnl[r] \in Seq(Events) /\ jrnl'[r] = Append(jrnl[r], RunStarted)
        BY <1>1, GrantTypes DEF TypeInv, TypeOK, JournalOK
    <2>2. jrnl'[r][Len(jrnl'[r])] = RunStarted
        BY <2>1, RunStartedType
    <2> QED
        BY <2>2, RunStartedType DEF JournalEnded, IsEnd
<1> QED
    BY <1>1 DEF JournalEnded, IsEnd

(* A run ends the reply that is its own, unless it has ended.              *)
LEMMA EndsNotOpen ==
    ASSUME TypeInv, NEW r \in Runs, NEW reply \in Replies, turn' = EndOnce(r, reply)
    PROVE  ~Open(r)'
<1>1. CASE WritableBy(turn, r)
    <2>1. turn \in Turns
        BY <1>1 DEF TypeInv, TypeOK, TurnOK, WritableBy, OwnedBy
    <2> QED
        BY <1>1, <2>1, WithEndType DEF EndOnce, Open
<1>2. CASE ~WritableBy(turn, r)
    BY <1>2, NoTurnHasNoOwner DEF EndOnce, Open, WritableBy, OwnedBy
<1> QED
    BY <1>1, <1>2

(* A run that is started, or taken from the queue.                         *)
LEMMA StartGrants ==
    ASSUME GrantInv, [Next]_vars, NEW r \in Runs, (\E kind \in Kinds : Start(r, kind)) \/ Dequeue(r)
    PROVE  Apart(r) /\ (\A q \in Runs : GrantSound(q)')
<1>0. /\ TypeInv /\ GrantSound(r) /\ (JournalEnded(r)' <=> JournalEnded(r))
      /\ wf[r] \in {"none", "ENQUEUED"} /\ wf[r] \notin Terminal
    BY DEF GrantInv, OwnerInv, Start, Dequeue, JournalEnded, IsEnd, Terminal
<1>1. UNCHANGED <<begun, output, jrnl, pend, force, sweep, turn>>
    BY DEF Start, Dequeue, grants, stops
<1>2. /\ wf'[r] \in Active /\ wf'[r] \notin Terminal /\ \A q \in Runs : q # r => wf'[q] = wf[q]
      /\ wf[r] = "ENQUEUED" \/ (wf'[r] = "ENQUEUED" /\ r \in grant')
      /\ grant \subseteq grant' /\ \A q \in Runs : q # r => (q \in grant' <=> q \in grant)
    <2>1. CASE Dequeue(r)
        <3>1. wf[r] = "ENQUEUED" /\ wf' = [wf EXCEPT ![r] = "PENDING"] /\ UNCHANGED grant
            BY <2>1 DEF Dequeue, grants
        <3>2. wf'[r] = "PENDING" /\ \A q \in Runs : q # r => wf'[q] = wf[q]
            BY <1>0, <3>1, GrantTypes
        <3>3. "PENDING" \in Active /\ "PENDING" \notin Terminal
            BY DEF Active, Terminal
        <3>4. grant \subseteq grant' /\ \A q \in Runs : q # r => (q \in grant' <=> q \in grant)
            BY <3>1
        <3> QED
            BY <3>1, <3>2, <3>3, <3>4
    <2>2. CASE \E kind \in Kinds : Start(r, kind)
        <3>1. wf' = [wf EXCEPT ![r] = "ENQUEUED"] /\ grant' = grant \cup {r}
            BY <2>2 DEF Start
        <3>2. wf'[r] = "ENQUEUED" /\ \A q \in Runs : q # r => wf'[q] = wf[q]
            BY <1>0, <3>1, GrantTypes
        <3>3. "ENQUEUED" \in Active /\ "ENQUEUED" \notin Terminal
            BY DEF Active, Terminal
        <3>4. grant \subseteq grant' /\ r \in grant' /\ \A q \in Runs : q # r => (q \in grant' <=> q \in grant)
            BY <3>1
        <3> QED
            BY <3>2, <3>3, <3>4
    <2> QED
        BY <2>1, <2>2
<1>3. /\ \A q \in Runs : q # r => ex'[q] = ex[q]
      /\ ex'[r] = ex[r] \/ ex'[r].pc = "begin"
    <2>1. CASE Dequeue(r)
        <3>1. Set(r, [Idle EXCEPT !.pc = "begin"])
            BY <2>1 DEF Dequeue
        <3>2. ex'[r] = [Idle EXCEPT !.pc = "begin"] /\ \A q \in Runs : q # r => ex'[q] = ex[q]
            BY <1>0, <3>1, SetsOne
        <3> QED
            BY <3>2, Places
    <2>2. CASE \E kind \in Kinds : Start(r, kind)
        BY <2>2 DEF Start
    <2> QED
        BY <2>1, <2>2
<1>4. GrantSound(r)'
    <2>1. (Open(r)' <=> Open(r)) /\ (Excused(r) => Excused(r)')
        BY <1>0, <1>1, <1>2, LostGrows DEF Open, HasEnded, Excused, ThrewAStep, BeganLate
    <2>2. InStepOrder(r)'
        BY <1>0, <1>1, <1>3 DEF GrantSound, InStepOrder, Beginning, PassPcs
    <2>3. CutIsOver(r)' /\ GrantForBegin(r)'
        BY <1>0, <1>1, <1>2 DEF GrantSound, CutIsOver, GrantForBegin, Active
    <2>4. GrantToEnd(r)' /\ (EndWritten(r)' => Settled(r)')
        BY <1>0, <1>1, <1>2, <1>3, <2>1 DEF GrantSound, GrantToEnd, EndWritten, Settled, Ending
    <2> QED
        BY <2>2, <2>3, <2>4 DEF GrantSound
<1> QED
    BY <1>1, <1>2, <1>3, <1>4, StepIsSound DEF Apart, Same

(* A run that is recovered goes on where it was, or is given up on.        *)
LEMMA RecoverGrants ==
    ASSUME GrantInv, [Next]_vars, NEW r \in Runs, Recover(r)
    PROVE  Apart(r) /\ (\A q \in Runs : GrantSound(q)')
<1>0. /\ TypeInv /\ GrantSound(r) /\ (JournalEnded(r)' <=> JournalEnded(r)) /\ wf[r] = "PENDING"
    BY DEF GrantInv, OwnerInv, Recover, JournalEnded, IsEnd
<1>1. UNCHANGED <<begun, output, jrnl, pend, grant, force, sweep, turn>>
    BY DEF Recover, grants, stops
<1>2. /\ wf'[r] = "PENDING" \/ wf'[r] = "EXCEEDED"
      /\ \A q \in Runs : q # r => wf'[q] = wf[q]
    BY <1>0, GrantTypes DEF Recover
<1>3. /\ \A q \in Runs : q # r => ex'[q] = ex[q]
      /\ \/ ex'[r].pc = "idle"
         \/ ex'[r].pc = IF begun[r] = "none" THEN "begin"
                       ELSE IF begun[r] = "threw" \/ output[r] = Threw THEN "failing"
                       ELSE IF output[r] = NoOutput THEN "pass" ELSE "send"
    BY <1>0, GrantTypes DEF Recover, At
<1>4. GrantSound(r)'
    <2>1. (Open(r)' <=> Open(r)) /\ (Excused(r) => Excused(r)')
        BY <1>0, <1>1, LostGrows DEF Open, HasEnded, Excused, ThrewAStep, BeganLate, Terminal
    <2>2. InStepOrder(r)'
        BY <1>0, <1>1, <1>2, <1>3 DEF GrantSound, InStepOrder, Beginning, PassPcs, NoOutput, Threw
    <2>3. CutIsOver(r)' /\ GrantForBegin(r)'
        BY <1>0, <1>1, <1>2 DEF GrantSound, CutIsOver, GrantForBegin, Active, Terminal
    <2>4. GrantToEnd(r)' /\ (EndWritten(r)' => Settled(r)')
        BY <1>0, <1>1, <1>3, <2>1
           DEF GrantSound, GrantToEnd, EndWritten, Settled, Ending, Excused, ThrewAStep
    <2> QED
        BY <2>2, <2>3, <2>4 DEF GrantSound
<1> QED
    BY <1>1, <1>2, <1>3, <1>4, StepIsSound DEF Apart, Same
(* The step `begin`: a run that takes the turn has its grant, or is over.  *)
LEMMA BeginGrants ==
    ASSUME GrantInv, [Next]_vars, NEW r \in Runs, BeginSave(r) \/ BeginRecord(r) \/ BeginThrows(r)
    PROVE  Apart(r) /\ (\A q \in Runs : GrantSound(q)')
<1>0. /\ TypeInv /\ GrantSound(r) /\ (jrnl'[r] = jrnl[r] => (JournalEnded(r)' <=> JournalEnded(r)))
      /\ ex[r].pc \in Beginning /\ wf[r] # "none" /\ wf[r] \in Active \cup Terminal
    <2>1. TypeInv /\ GrantSound(r) /\ (jrnl'[r] = jrnl[r] => (JournalEnded(r)' <=> JournalEnded(r)))
        BY JournalStays DEF GrantInv, OwnerInv
    <2>2. ex[r].pc \in Beginning
        BY DEF BeginSave, BeginRecord, BeginThrows, At, Beginning
    <2>3. wf[r] # "none"
        BY <2>2 DEF GrantInv, OwnerInv, ExecutedIsStarted, Beginning
    <2> QED
        BY <2>1, <2>2, <2>3 DEF TypeInv, TypeOK, WorkflowsOK
<1>1. UNCHANGED <<wf, output, jrnl, pend, grant, force, sweep>>
    BY DEF BeginSave, BeginRecord, BeginThrows, workflows, grants, stops
<1>2. /\ begun[r] = "none" /\ output[r] = NoOutput /\ ~JournalEnded(r) /\ pend[r] = NoReply
      /\ r \in grant \/ wf[r] \in Terminal
    BY <1>0 DEF GrantSound, InStepOrder, GrantForBegin
<1>3. /\ \A q \in Runs : q # r => ex'[q] = ex[q] /\ begun'[q] = begun[q]
      /\ \/ ex'[r].pc \in {"idle", "beginDone"} /\ begun'[r] = begun[r]
         \/ wf[r] = "PENDING" /\ ex'[r].pc = "pass" /\ begun'[r] \in {"go", "stopped"}
         \/ wf[r] = "PENDING" /\ ex'[r].pc = "failing" /\ begun'[r] = "threw"
    <2>1. CASE BeginSave(r)
        <3>1. Goto(r, "beginDone") /\ UNCHANGED begun
            BY <2>1 DEF BeginSave, workflows
        <3>2. ex'[r].pc = "beginDone" /\ \A q \in Runs : q # r => ex'[q] = ex[q]
            BY <1>0, <3>1, GrantTypes
        <3> QED
            BY <3>1, <3>2
    <2>2. ASSUME NEW e, Set(r, e), NEW outcome, begun' = [begun EXCEPT ![r] = outcome]
          PROVE  /\ ex'[r] = e /\ begun'[r] = outcome
                 /\ \A q \in Runs : q # r => ex'[q] = ex[q] /\ begun'[q] = begun[q]
        <3>1. ex'[r] = e /\ \A q \in Runs : q # r => ex'[q] = ex[q]
            BY <1>0, <2>2, SetsOne
        <3>2. begun'[r] = outcome /\ \A q \in Runs : q # r => begun'[q] = begun[q]
            BY <1>0, <2>2, GrantTypes
        <3> QED
            BY <3>1, <3>2
    <2>3. ASSUME Set(r, Idle), UNCHANGED begun
          PROVE  /\ ex'[r].pc = "idle" /\ begun'[r] = begun[r]
                 /\ \A q \in Runs : q # r => ex'[q] = ex[q] /\ begun'[q] = begun[q]
        <3>1. ex'[r] = Idle /\ \A q \in Runs : q # r => ex'[q] = ex[q]
            BY <1>0, <2>3, SetsOne
        <3> QED
            BY <2>3, <3>1, Places
    <2>4. CASE BeginRecord(r) /\ wf[r] = "PENDING"
        <3>1. /\ begun' = [begun EXCEPT ![r] = IF ex[r].stopped THEN "stopped" ELSE "go"]
              /\ Set(r, [Idle EXCEPT !.pc = "pass"])
            BY <2>4 DEF BeginRecord
        <3>2. ex'[r] = [Idle EXCEPT !.pc = "pass"] /\ begun'[r] \in {"go", "stopped"}
              /\ \A q \in Runs : q # r => ex'[q] = ex[q] /\ begun'[q] = begun[q]
            BY <2>2, <3>1
        <3> QED
            BY <2>4, <3>2, Places
    <2>5. CASE BeginThrows(r) /\ wf[r] = "PENDING"
        <3>1. begun' = [begun EXCEPT ![r] = "threw"] /\ Set(r, [Idle EXCEPT !.pc = "failing"])
            BY <2>5 DEF BeginThrows
        <3>2. ex'[r] = [Idle EXCEPT !.pc = "failing"] /\ begun'[r] = "threw"
              /\ \A q \in Runs : q # r => ex'[q] = ex[q] /\ begun'[q] = begun[q]
            BY <2>2, <3>1
        <3> QED
            BY <2>5, <3>2, Places
    <2>6. CASE (BeginRecord(r) \/ BeginThrows(r)) /\ wf[r] # "PENDING"
        BY <2>3, <2>6 DEF BeginRecord, BeginThrows
    <2> QED
        BY <2>1, <2>4, <2>5, <2>6
<1>4. GrantSound(r)'
    <2>1. InStepOrder(r)'
        BY <1>0, <1>1, <1>2, <1>3 DEF GrantSound, InStepOrder, Beginning, PassPcs
    <2>4. CutIsOver(r)'
        BY <1>0, <1>1 DEF GrantSound, CutIsOver
    <2>2. GrantForBegin(r)' /\ GrantToEnd(r)'
        <3>1. "PENDING" \notin Terminal
            BY DEF Terminal
        <3>2. GrantForBegin(r)'
            BY <1>0, <1>1, <1>3 DEF GrantSound, GrantForBegin
        <3>3. r \in grant \/ BeganLate(r)'
            BY <1>1, <1>2, <1>3, <3>1 DEF BeganLate
        <3> QED
            BY <1>1, <3>2, <3>3 DEF GrantToEnd, Excused
    <2>3. EndWritten(r)' => Excused(r)'
        BY <1>0, <1>1, <1>2, <1>3 DEF EndWritten, Ending, Excused, ThrewAStep
    <2> QED
        BY <2>1, <2>2, <2>3, <2>4 DEF GrantSound, Settled
<1>5. turn' = turn \/ Writes(r)
    <2>1. CASE BeginRecord(r)
        BY <2>1, TurnStays
    <2>2. CASE BeginSave(r) \/ BeginThrows(r)
        BY <1>0, <2>2, TurnWrites
    <2> QED
        BY <2>1, <2>2
<1> QED
    BY <1>1, <1>3, <1>4, <1>5, StepIsSound DEF Apart, Same

(* A pass that is over, with whatever output.                              *)
LEMMA SetsDone ==
    ASSUME NEW r, NEW out, Set(r, [Idle EXCEPT !.pc = "passDone", !.out = out])
    PROVE  \E e : Set(r, e) /\ e.pc = "passDone"
<1> DEFINE e == [Idle EXCEPT !.pc = "passDone", !.out = out]
<1>1. e.pc = "passDone"
    BY DEF Idle
<1>2. Set(r, e)
    OBVIOUS
<1> HIDE DEF e
<1> QED
    BY <1>1, <1>2

(* An execution that starts a part of the workflow afresh.                 *)
LEMMA SetsPlace ==
    ASSUME TypeInv, NEW r \in Runs, NEW pc, Set(r, [Idle EXCEPT !.pc = pc])
    PROVE  ex'[r].pc = pc /\ \A q \in Runs : q # r => ex'[q] = ex[q]
<1> DEFINE e == [Idle EXCEPT !.pc = pc]
<1>1. e.pc = pc
    BY DEF Idle
<1>2. Set(r, e)
    OBVIOUS
<1> HIDE DEF e
<1> QED
    BY <1>1, <1>2, SetsOne

LEMMA SetsDonePlace ==
    ASSUME TypeInv, NEW r \in Runs, NEW out, Set(r, [Idle EXCEPT !.pc = "passDone", !.out = out])
    PROVE  ex'[r].pc = "passDone"
<1>1. PICK e : Set(r, e) /\ e.pc = "passDone"
    BY SetsDone
<1> QED
    BY <1>1, SetsOne

(* A pass that begins asks, or is to end its reply.                        *)
LEMMA PassSets ==
    ASSUME NEW r, PassBegins(r)
    PROVE  \E e : Set(r, e) /\ e.pc \in {"running", "endSave"}
<1>1. \/ \E e, status, reply : Set(r, EndWith(e, status, reply, NoPoint))
      \/ \E mem, emits :
             Set(r, [[Idle EXCEPT !.mem = mem, !.emits = emits] EXCEPT !.pc = "running"])
    BY DEF PassBegins
<1>2. ASSUME NEW mem, NEW emits
      PROVE  [[Idle EXCEPT !.mem = mem, !.emits = emits] EXCEPT !.pc = "running"].pc = "running"
    BY DEF Idle
<1>3. CASE \E e, status, reply : Set(r, EndWith(e, status, reply, NoPoint))
    BY <1>3, Places
<1>4. CASE \E mem, emits :
               Set(r, [[Idle EXCEPT !.mem = mem, !.emits = emits] EXCEPT !.pc = "running"])
    BY <1>2, <1>4
<1> QED
    BY <1>1, <1>3, <1>4

(* Nor does the emitter's first write end a journal, or move the pass.     *)
LEMMA EmitMoves ==
    ASSUME TypeInv, NEW r \in Runs, EmitStart(r)
    PROVE  /\ ex[r].pc \in Emitting /\ ex'[r].pc = ex[r].pc /\ ex'[r].reply = ex[r].reply
           /\ \A q \in Runs : q # r => ex'[q] = ex[q] /\ jrnl'[q] = jrnl[q]
           /\ JournalEnded(r)' => JournalEnded(r) /\ jrnl'[r] = jrnl[r]
           /\ UNCHANGED <<turn, history, wf, begun, output, grant, pend, force, sweep, stops>>
<1>1. ex[r].pc \in Emitting /\ ex[r] \in Executions
      /\ UNCHANGED <<turn, history, wf, begun, output, grant, pend, force, sweep, stops>>
    BY DEF EmitStart, workflows, grants, stops, TypeInv, TypeOK, ExecutionsOK
<1>2. /\ ex'[r].pc = ex[r].pc /\ ex'[r].reply = ex[r].reply
      /\ \A q \in Runs : q # r => ex'[q] = ex[q]
    <2>1. \E v : ex' = [ex EXCEPT ![r] = [ex[r] EXCEPT !.emits = v]]
        BY DEF EmitStart, Set
    <2> QED
        BY <1>1, <2>1 DEF TypeInv, TypeOK, ExecutionsOK, Executions
<1>3. Append1(r, RunStarted) \/ jrnl' = jrnl
    BY DEF EmitStart
<1>4. CASE Append1(r, RunStarted)
    BY <1>1, <1>2, <1>4, JournalStays, GrantTypes
<1>5. CASE jrnl' = jrnl
    BY <1>1, <1>2, <1>5 DEF JournalEnded, IsEnd
<1> QED
    BY <1>3, <1>4, <1>5

LEMMA EmitGrants ==
    ASSUME GrantInv, [Next]_vars, NEW r \in Runs, EmitStart(r)
    PROVE  Apart(r) /\ (\A q \in Runs : GrantSound(q)')
<1>0. TypeInv /\ GrantSound(r)
    BY DEF GrantInv, OwnerInv
<1>1. /\ ex'[r].pc = ex[r].pc /\ (JournalEnded(r)' => JournalEnded(r))
      /\ \A q \in Runs : q # r => ex'[q] = ex[q] /\ jrnl'[q] = jrnl[q]
      /\ UNCHANGED <<turn, wf, begun, output, grant, pend, force, sweep>>
    BY <1>0, EmitMoves
<1>2. (Open(r)' <=> Open(r)) /\ (Excused(r) => Excused(r)')
    BY <1>1, LostGrows DEF Open, HasEnded, Excused, ThrewAStep, BeganLate
<1>3. GrantSound(r)'
    <2>1. InStepOrder(r)' /\ CutIsOver(r)' /\ GrantForBegin(r)'
        BY <1>0, <1>1 DEF GrantSound, InStepOrder, CutIsOver, GrantForBegin
    <2>2. GrantToEnd(r)' /\ (EndWritten(r)' => Settled(r)')
        BY <1>0, <1>1, <1>2 DEF GrantSound, GrantToEnd, EndWritten, Settled
    <2> QED
        BY <2>1, <2>2 DEF GrantSound
<1> QED
    BY <1>1, <1>3, StepIsSound DEF Apart, Same

(* The head of the step `pass`.                                            *)
LEMMA PassGrants ==
    ASSUME GrantInv, [Next]_vars, NEW r \in Runs,
           PassAlreadyEnded(r) \/ PassEndsFromHead(r) \/ PassBegins(r) \/ PassThrows(r)
    PROVE  Apart(r) /\ (\A q \in Runs : GrantSound(q)')
<1>0. /\ TypeInv /\ GrantSound(r) /\ (jrnl'[r] = jrnl[r] => (JournalEnded(r)' <=> JournalEnded(r)))
      /\ ex[r].pc = "pass"
    BY JournalStays
       DEF GrantInv, OwnerInv, PassAlreadyEnded, PassEndsFromHead, PassBegins, PassThrows, PassRead, At
<1>1. UNCHANGED <<wf, begun, pend, grant, force, sweep, turn>>
    BY DEF PassAlreadyEnded, PassEndsFromHead, PassBegins, PassThrows, shared, workflows, grants, stops
<1>2. begun[r] # "none" /\ output[r] = NoOutput
    BY <1>0 DEF GrantSound, InStepOrder, Beginning, PassPcs
<1>3. ASSUME NEW e, Set(r, e)
      PROVE  ex'[r] = e /\ \A q \in Runs : q # r => ex'[q] = ex[q]
    BY <1>0, <1>3, SetsOne
<1>4. /\ \A q \in Runs : q # r => ex'[q] = ex[q] /\ jrnl'[q] = jrnl[q] /\ output'[q] = output[q]
      /\ \/ JournalEnded(r) /\ ex'[r].pc = "passDone" /\ UNCHANGED <<jrnl, output>>
         \/ HasEnded(turn) /\ ex'[r].pc = "passDone" /\ UNCHANGED output
         \/ ex'[r].pc \in {"running", "endSave"} /\ ~JournalEnded(r)' /\ UNCHANGED output
         \/ output'[r] = Threw /\ ex'[r].pc = "failing" /\ UNCHANGED jrnl
         \/ ex'[r].pc = "idle" /\ UNCHANGED <<jrnl, output>>
    <2>1. CASE PassAlreadyEnded(r)
        <3>0. \E out : Set(r, [Idle EXCEPT !.pc = "passDone", !.out = out])
            BY <2>1 DEF PassAlreadyEnded
        <3>1. PICK e : Set(r, e) /\ e.pc = "passDone"
            BY <3>0, SetsDone
        <3>2. JournalEnded(r) /\ UNCHANGED <<jrnl, output>>
            BY <2>1 DEF PassAlreadyEnded, shared, workflows
        <3> QED
            BY <1>3, <3>1, <3>2
    <2>2. CASE PassEndsFromHead(r)
        <3>1. UNCHANGED output /\ HasEnded(turn)
            BY <2>2 DEF PassEndsFromHead, EndInHead, workflows
        <3>2. CASE wf[r] = "PENDING"
            <4>0. /\ Append1(r, EndedEvent(turn.reply))
                  /\ \E out : Set(r, [Idle EXCEPT !.pc = "passDone", !.out = out])
                BY <2>2, <3>2 DEF PassEndsFromHead
            <4>1. Append1(r, EndedEvent(turn.reply)) /\ \E e : Set(r, e) /\ e.pc = "passDone"
                BY <4>0, SetsDone
            <4>2. \A q \in Runs : q # r => jrnl'[q] = jrnl[q]
                BY <1>0, <4>1, GrantTypes
            <4> QED
                BY <1>3, <3>1, <4>1, <4>2
        <3>3. CASE wf[r] # "PENDING"
            <4>1. UNCHANGED jrnl /\ Set(r, Idle)
                BY <2>2, <3>3 DEF PassEndsFromHead
            <4> QED
                BY <1>3, <3>1, <4>1, Places
        <3> QED
            BY <3>2, <3>3
    <2>3. CASE PassBegins(r)
        <3>1. ~JournalEnded(r) /\ UNCHANGED <<output, jrnl>>
            BY <2>3 DEF PassBegins, workflows
        <3>2. \E e : Set(r, e) /\ e.pc \in {"running", "endSave"}
            BY <2>3, PassSets
        <3> QED
            BY <1>0, <1>3, <3>1, <3>2
    <2>4. CASE PassThrows(r)
        <3>1. UNCHANGED jrnl
            BY <2>4 DEF PassThrows
        <3>2. CASE wf[r] = "PENDING"
            <4>1. output' = [output EXCEPT ![r] = Threw] /\ \E e : Set(r, e) /\ e.pc = "failing"
                BY <2>4, <3>2, Places DEF PassThrows
            <4>2. output'[r] = Threw /\ \A q \in Runs : q # r => output'[q] = output[q]
                BY <1>0, <4>1, GrantTypes
            <4> QED
                BY <1>3, <3>1, <4>1, <4>2
        <3>3. CASE wf[r] # "PENDING"
            <4>1. UNCHANGED output /\ Set(r, Idle)
                BY <2>4, <3>3 DEF PassThrows
            <4> QED
                BY <1>3, <3>1, <4>1, Places
        <3> QED
            BY <3>2, <3>3
    <2> QED
        BY <2>1, <2>2, <2>3, <2>4
<1>5. GrantSound(r)'
    <2>1. (Open(r)' <=> Open(r)) /\ (Excused(r) => Excused(r)')
        BY <1>1, <1>2, <1>4, LostGrows DEF Open, HasEnded, Excused, ThrewAStep, BeganLate, NoOutput, Threw
    <2>2. InStepOrder(r)' /\ CutIsOver(r)'
        BY <1>0, <1>1, <1>2, <1>4 DEF GrantSound, InStepOrder, CutIsOver, Beginning, PassPcs
    <2>3. GrantForBegin(r)' /\ GrantToEnd(r)'
        BY <1>0, <1>1, <1>2, <2>1 DEF GrantSound, GrantForBegin, GrantToEnd
    <2>4. EndWritten(r)' => Settled(r)'
        BY <1>0, <1>1, <1>2, <1>4, <2>1
           DEF GrantSound, EndWritten, Settled, Ending, Excused, ThrewAStep, Open
    <2> QED
        BY <2>2, <2>3, <2>4 DEF GrantSound
<1> QED
    BY <1>1, <1>4, <1>5, StepIsSound DEF Apart, Same
(* The end of the pass: it ends the reply, or keeps the end with the grant. *)
LEMMA EndGrants ==
    ASSUME GrantInv, [Next]_vars, NEW r \in Runs, EndSave(r) \/ EndSaveFails(r)
    PROVE  Apart(r) /\ (\A q \in Runs : GrantSound(q)')
<1>0. /\ TypeInv /\ GrantSound(r) /\ (JournalEnded(r)' <=> JournalEnded(r)) /\ ex[r].pc = "endSave"
      /\ ex[r].reply \in Replies /\ ex[r].reply # NoReply
    <2>1. TypeInv /\ GrantSound(r) /\ ex[r].pc = "endSave"
        BY DEF GrantInv, OwnerInv, EndSave, EndSaveFails, At
    <2>2. JournalEnded(r)' <=> JournalEnded(r)
        BY DEF EndSave, EndSaveFails, JournalEnded, IsEnd
    <2>3. ex[r].reply \in Replies
        BY <2>1 DEF TypeInv, ExecutionsSound, EndStands
    <2>4. NoReply \notin Replies
        BY DEF NoReply, Replies, EndStatuses
    <2> QED
        BY <2>1, <2>2, <2>3, <2>4
<1>1. UNCHANGED <<wf, begun, output, jrnl, force, sweep, grant>>
    BY DEF EndSave, EndSaveFails, workflows, grants, stops
<1>2. ex'[r].pc = "endJournal" /\ \A q \in Runs : q # r => ex'[q] = ex[q]
    <2>1. Goto(r, "endJournal")
        BY DEF EndSave, EndSaveFails
    <2> QED
        BY <1>0, <2>1, GrantTypes
<1>3. /\ pend' = pend \/ (pend' = [pend EXCEPT ![r] = ex[r].reply] /\ r \in grant)
      /\ \/ ~Open(r)' \/ r \in lostEnd'
         \/ r \in grant /\ pend' = [pend EXCEPT ![r] = ex[r].reply]
    <2>1. CASE EndSave(r)
        BY <1>0, <2>1, EndsNotOpen DEF EndSave, grants, EndSaved, EndOnce
    <2>2. CASE EndSaveFails(r)
        BY <2>2 DEF EndSaveFails
    <2> QED
        BY <2>1, <2>2
<1>4. /\ \A q \in Runs : q # r => pend'[q] = pend[q]
      /\ ~Open(r)' \/ r \in lostEnd' \/ (r \in grant /\ pend'[r] # NoReply)
    <2>1. pend' = [pend EXCEPT ![r] = ex[r].reply] =>
              pend'[r] = ex[r].reply /\ \A q \in Runs : q # r => pend'[q] = pend[q]
        BY <1>0 DEF TypeInv, TypeOK, GrantsOK
    <2> QED
        BY <1>0, <1>3, <2>1
<1>5. turn' = turn \/ Writes(r)
    BY <1>0, TurnWrites
<1>6. GrantSound(r)'
    <2>1. begun[r] # "none" /\ output[r] = NoOutput
        BY <1>0 DEF GrantSound, InStepOrder, Beginning, PassPcs
    <2>2. r \in lostEnd' => Excused(r)'
        BY DEF Excused
    <2>3. InStepOrder(r)' /\ CutIsOver(r)' /\ GrantForBegin(r)'
        BY <1>0, <1>1, <1>2, <2>1
           DEF GrantSound, InStepOrder, CutIsOver, GrantForBegin, Beginning, PassPcs
    <2>4. GrantToEnd(r)' /\ Settled(r)'
        BY <1>0, <1>1, <1>4, <2>2 DEF GrantSound, GrantToEnd, Settled
    <2> QED
        BY <2>3, <2>4 DEF GrantSound
<1> QED
    BY <1>1, <1>2, <1>4, <1>5, <1>6, StepIsSound DEF Apart, Same

(* What the run does when its pass is over: the grant goes unless an end   *)
(* is kept with it, and then the reply has ended.                          *)
LEMMA FinishGrants ==
    ASSUME GrantInv, [Next]_vars, NEW r \in Runs,
           \/ EndJournal(r) \/ PassRecord(r) \/ SendDone(r) \/ Forget(r)
           \/ Return(r) \/ FailedSave(r) \/ Fail(r)
    PROVE  Apart(r) /\ (\A q \in Runs : GrantSound(q)')
<1>0. /\ TypeInv /\ GrantSound(r) /\ ex[r].pc \in Ending /\ Settled(r) /\ begun[r] # "none" /\ wf[r] # "none"
    <2>1. TypeInv /\ GrantSound(r)
        BY DEF GrantInv, OwnerInv
    <2>2. ex[r].pc \in Ending
        BY DEF EndJournal, PassRecord, SendDone, Forget, Return, FailedSave, Fail, At, Ending
    <2>3. begun[r] # "none"
        BY <2>1, <2>2 DEF GrantSound, InStepOrder, Ending, Beginning
    <2>4. wf[r] # "none"
        BY <2>2 DEF GrantInv, OwnerInv, ExecutedIsStarted, Ending
    <2> QED
        BY <2>1, <2>2, <2>3, <2>4 DEF GrantSound, EndWritten
<1>1. UNCHANGED <<begun, pend, force, sweep>>
    BY DEF EndJournal, PassRecord, SendDone, Forget, Return, FailedSave, Fail, shared, workflows, grants, stops
<1>2. \A q \in Runs : q # r => jrnl'[q] = jrnl[q] /\ output'[q] = output[q] /\ wf'[q] = wf[q]
                                 /\ (q \in grant' <=> q \in grant)
    <2>1. \A q \in Runs : q # r => jrnl'[q] = jrnl[q]
        BY <1>0, GrantTypes
           DEF EndJournal, PassRecord, SendDone, Forget, Return, FailedSave, Fail, shared
    <2>2. \A q \in Runs : q # r => output'[q] = output[q]
        <3>1. output' = [output EXCEPT ![r] = ex[r].out] \/ UNCHANGED output
            BY DEF EndJournal, PassRecord, SendDone, Forget, Return, FailedSave, Fail, shared, workflows
        <3> QED
            BY <1>0, <3>1, GrantTypes
    <2>3. \A q \in Runs : q # r => wf'[q] = wf[q]
        BY <1>0, GrantTypes
           DEF EndJournal, PassRecord, SendDone, Forget, Return, FailedSave, Fail, shared, workflows
    <2>4. \A q \in Runs : q # r => (q \in grant' <=> q \in grant)
        BY DEF EndJournal, PassRecord, SendDone, Forget, Return, FailedSave, Fail, ForgetUnlessEndPending,
               ForgetFails, shared, grants
    <2> QED
        BY <2>1, <2>2, <2>3, <2>4
<1>3. /\ \A q \in Runs : q # r => ex'[q] = ex[q]
      /\ ex'[r].pc \in {"idle", "send", "forget", "failing", "return", "fail"}
         \/ (ex'[r].pc = "passDone" /\ ex[r].pc = "endJournal" /\ UNCHANGED output)
    <2>1. CASE EndJournal(r)
        <3>1. \E e : Set(r, e) /\ e.pc = "passDone"
            BY <2>1, SetsDone DEF EndJournal
        <3> QED
            BY <1>0, <2>1, <3>1, SetsOne DEF EndJournal, At, workflows
    <2>2. CASE SendDone(r) \/ Forget(r) \/ FailedSave(r) \/ PassRecord(r) \/ Return(r) \/ Fail(r)
        <3>1. \/ \E pc \in {"forget", "return", "fail"} : Goto(r, pc)
              \/ \E pc \in {"failing", "send"} : Set(r, [Idle EXCEPT !.pc = pc])
              \/ Set(r, Idle)
            BY <2>2 DEF SendDone, Forget, FailedSave, PassRecord, Return, Fail
        <3>2. CASE \E pc \in {"forget", "return", "fail"} : Goto(r, pc)
            BY <1>0, <3>2, GrantTypes
        <3>3. CASE Set(r, [Idle EXCEPT !.pc = "failing"]) \/ Set(r, [Idle EXCEPT !.pc = "send"])
            BY <1>0, <3>3, SetsPlace
        <3>4. CASE Set(r, Idle)
            BY <1>0, <3>4, SetsOne, Places
        <3> QED
            BY <3>1, <3>2, <3>3, <3>4
    <2> QED
        BY <2>1, <2>2
<1>4. turn' = turn \/ Writes(r)
    <2>1. CASE FailedSave(r)
        BY <1>0, <2>1, TurnWrites
    <2>2. CASE ~FailedSave(r)
        BY <2>2, TurnStays
    <2> QED
        BY <2>1, <2>2
<1>5. Open(r)' => Open(r)
    BY <1>0, <1>4 DEF Writes, Takes, WritesOwn, WritableBy, Open, HasEnded, At, Ending
<1>6. /\ wf'[r] # "none" /\ (wf'[r] = wf[r] \/ wf'[r] \in Terminal)
      /\ output'[r] = output[r] \/ ex[r].pc = "passDone"
      /\ r \in grant' \/ (r \notin grant) \/ pend[r] = NoReply
    <2>1. wf'[r] = wf[r] \/ wf'[r] \in {"SUCCESS", "ERROR"}
        BY <1>0, GrantTypes
           DEF EndJournal, PassRecord, SendDone, Forget, Return, FailedSave, Fail, shared, workflows
    <2>2. output'[r] = output[r] \/ ex[r].pc = "passDone"
        BY DEF EndJournal, PassRecord, SendDone, Forget, Return, FailedSave, Fail, shared, workflows, At
    <2>3. r \in grant' \/ (r \notin grant) \/ pend[r] = NoReply
        BY DEF EndJournal, PassRecord, SendDone, Forget, Return, FailedSave, Fail, ForgetUnlessEndPending,
               ForgetFails, shared, grants
    <2> QED
        BY <1>0, <2>1, <2>2, <2>3 DEF Terminal
<1>7. GrantSound(r)'
    <2>1. Excused(r) => Excused(r)'
        BY <1>0, <1>1, <1>6, LostGrows DEF Excused, ThrewAStep, BeganLate, GrantSound, InStepOrder, PassPcs, NoOutput, Threw
    <2>2. Settled(r)'
        BY <1>0, <1>1, <1>5, <1>6, <2>1 DEF Settled
    <2>3. GrantToEnd(r)' /\ GrantForBegin(r)'
        BY <1>0, <1>1, <2>2 DEF GrantToEnd, GrantForBegin, Settled
    <2>4. CutIsOver(r)'
        BY <1>0, <1>1, <1>6 DEF GrantSound, CutIsOver
    <2>5. InStepOrder(r)'
        BY <1>0, <1>1, <1>3, <1>6
           DEF GrantSound, InStepOrder, Beginning, PassPcs, Terminal
    <2> QED
        BY <2>2, <2>3, <2>4, <2>5 DEF GrantSound
<1> QED
    BY <1>1, <1>2, <1>3, <1>4, <1>7, StepIsSound DEF Apart, Same
(* An end written from outside, of a run that is over, or one kept: the    *)
(* grant goes only with the reply's end.                                   *)
LEMMA OutsideGrants ==
    ASSUME GrantInv, [Next]_vars, NEW r \in Runs, SweepEnd(r) \/ ForceEnd(r) \/ EndFromHead(r) \/ Repair(r)
    PROVE  Apart(r) /\ (\A q \in Runs : GrantSound(q)')
<1>0. /\ TypeInv /\ GrantSound(r) /\ (JournalEnded(r)' <=> JournalEnded(r))
      /\ wf[r] \in Terminal \/ begun[r] # "none"
      /\ wf[r] \in Active => wf[r] \notin Terminal
    <2>1. TypeInv /\ GrantSound(r) /\ (JournalEnded(r)' <=> JournalEnded(r))
        BY DEF GrantInv, OwnerInv, SweepEnd, ForceEnd, EndFromHead, Repair, JournalEnded, IsEnd
    <2>2. wf[r] \in Terminal \/ begun[r] # "none"
        BY <2>1 DEF SweepEnd, ForceEnd, EndFromHead, Repair, WorkflowOver, GrantSound, CutIsOver, InStepOrder
    <2> QED
        BY <2>1, <2>2 DEF Active, Terminal
<1>1. /\ UNCHANGED <<wf, begun, output, jrnl, ex>>
    BY DEF SweepEnd, ForceEnd, EndFromHead, Repair, workflows
<1>2. /\ \A q \in Runs : q # r => force'[q] = force[q] /\ (q \in sweep' <=> q \in sweep)
      /\ force'[r] = force[r] \/ force'[r] = "none"
      /\ r \in sweep' => r \in sweep
    <2>1. CASE ForceEnd(r)
        <3>1. force' = [force EXCEPT ![r] = "none"] /\ UNCHANGED sweep
            BY <2>1 DEF ForceEnd
        <3> QED
            BY <1>0, <3>1, GrantTypes
    <2>2. CASE ~ForceEnd(r)
        BY <2>2 DEF SweepEnd, EndFromHead, Repair, stops
    <2> QED
        BY <2>1, <2>2
<1>3. \/ UNCHANGED <<turn, grant, pend>>
      \/ /\ \E reply \in Replies : turn' = EndOnce(r, reply)
         /\ \/ UNCHANGED <<grant, pend>>
            \/ grant' = grant \ {r} /\ pend' = [pend EXCEPT ![r] = NoReply]
    <2>1. ASSUME NEW reply \in Replies, EndTurnOnce(r, reply) PROVE <1>3
        BY <2>1 DEF EndTurnOnce, ForgetGrant, ForgetFails
    <2>2. /\ Reply("error", turn.reply.steps, "interrupted") \in Replies
          /\ Reply("aborted", turn.reply.steps, "plain") \in Replies
          /\ HeadEnds(r) \subseteq Replies
        BY <1>0, OutsideReplyTypes DEF HeadEnds, Failed, Reply, EndStatuses, Notes
    <2>3. CASE SweepEnd(r) \/ ForceEnd(r)
        BY <2>1, <2>2, <2>3 DEF SweepEnd, ForceEnd, EndTurnOnceFails
    <2>4. CASE EndFromHead(r)
        BY <2>1, <2>2, <2>4 DEF EndFromHead, EndTurnOnceFails
    <2>5. CASE Repair(r)
        <3>1. pend[r] \in Replies
            BY <1>0, <2>5 DEF Repair, TypeInv, TypeOK, GrantsOK
        <3> QED
            BY <2>5, <3>1 DEF Repair, ForgetGrant, ForgetFails
    <2> QED
        BY <2>3, <2>4, <2>5
<1>4. /\ \A q \in Runs : q # r => pend'[q] = pend[q] /\ (q \in grant' <=> q \in grant)
      /\ \/ UNCHANGED <<turn, grant, pend>>
         \/ ~Open(r)' /\ (pend'[r] = pend[r] \/ pend'[r] = NoReply)
    <2>1. pend' = [pend EXCEPT ![r] = NoReply] =>
              pend'[r] = NoReply /\ \A q \in Runs : q # r => pend'[q] = pend[q]
        BY <1>0 DEF TypeInv, TypeOK, GrantsOK
    <2>2. (\E reply \in Replies : turn' = EndOnce(r, reply)) => ~Open(r)'
        BY <1>0, EndsNotOpen
    <2> QED
        BY <1>3, <2>1, <2>2
<1>5. GrantSound(r)'
    <2>1. Excused(r) => Excused(r)'
        BY <1>1, LostGrows DEF Excused, ThrewAStep, BeganLate
    <2>2. CASE UNCHANGED <<turn, grant, pend>>
        BY <1>0, <1>1, <1>2, <2>1, <2>2
           DEF GrantSound, InStepOrder, CutIsOver, GrantForBegin, GrantToEnd, EndWritten, Settled, Open, HasEnded
    <2>3. CASE ~Open(r)' /\ (pend'[r] = pend[r] \/ pend'[r] = NoReply)
        <3>1. InStepOrder(r)' /\ CutIsOver(r)'
            BY <1>0, <1>1, <1>2, <2>3 DEF GrantSound, InStepOrder, CutIsOver
        <3>2. GrantForBegin(r)'
            BY <1>0, <1>1 DEF GrantForBegin
        <3> QED
            BY <2>3, <3>1, <3>2 DEF GrantSound, GrantToEnd, Settled
    <2> QED
        BY <1>4, <2>2, <2>3
<1> QED
    BY <1>0, <1>1, <1>2, <1>4, <1>5, TurnWrites, StepIsSound DEF Apart, Same
-----------------------------------------------------------------------------
LEMMA GrantStep == GrantInv /\ [Next]_vars => GrantInv'
<1> SUFFICES ASSUME GrantInv, [Next]_vars PROVE GrantInv'
    OBVIOUS
<1>1. OwnerInv'
    BY OwnerStep DEF GrantInv
<1>2. \A q \in Runs : GrantSound(q)'
    <2>1. CASE UNCHANGED vars
        BY <2>1 DEF vars, shared, workflows, stops, grants, history, ends, GrantInv, GrantSound, InStepOrder, CutIsOver,
               GrantForBegin, GrantToEnd, EndWritten, Settled, Open, HasEnded, Excused, ThrewAStep,
               BeganLate, JournalEnded, IsEnd
    <2>2. CASE Next
        BY <2>2, QuietGrants, SignalGrants, CancelGrants, StartGrants, RecoverGrants, BeginGrants, PassGrants,
           EmitGrants, EndGrants, FinishGrants, OutsideGrants
           DEF Next, Execute, Environment, ForceStop, Maintain
    <2> QED
        BY <2>1, <2>2
<1> QED
    BY <1>1, <1>2 DEF GrantInv

(* While someone is to write a run's end, the grant to write it with is    *)
(* there, but for a run that threw, one that began when it was over, and   *)
(* one that could neither save nor keep its end, whose grant is forgotten  *)
(* all the same (#replyBody, repairPendingEnds, #endTurnOnce).             *)
THEOREM GrantOutlives == Spec => []GrantOutlivesReply
<1>1. GrantInv => GrantOutlivesReply
    BY DEF GrantInv, GrantSound, GrantToEnd, GrantOutlivesReply, Open, Excused
<1> QED
    BY <1>1, InitGrants, GrantStep, PTL DEF Spec
-----------------------------------------------------------------------------
(* A stop by key leaves a marker, and then looks for the run to send it    *)
(* STOP.  Whichever comes first of that look, the run's start and its read *)
(* of the marker, the run hears of it.                                     *)
StartsTurn == {"startTurn", "beginDone"}
StopHeard(r) ==
    r \in marker \ stopping /\ wf[r] \in Active =>
        r \in mail \/ (begun[r] # "go" /\ (ex[r].pc \in StartsTurn => ex[r].stopped))
StopInv == GrantInv /\ \A r \in Runs : StopHeard(r)

(* What a step of another run leaves of it, and what one that starts no    *)
(* turn and is no stop leaves of its own.                                  *)
StopsKept(q) == (q \in mail => q \in mail') /\ (q \in marker' \ stopping' => q \in marker \ stopping)

LEMMA StopStays ==
    ASSUME StopInv, NEW q \in Runs, StopsKept(q), begun'[q] = begun[q],
           wf'[q] \in Active => wf[q] \in Active, ex'[q].pc \in StartsTurn => ex'[q] = ex[q]
    PROVE  StopHeard(q)'
BY DEF StopInv, StopHeard, StopsKept

LEMMA OthersHear ==
    ASSUME StopInv, NEW r \in Runs, Apart(r), \A q \in Runs : q # r => StopsKept(q), StopHeard(r)'
    PROVE  \A q \in Runs : StopHeard(q)'
BY StopStays DEF Apart, Same

(* Where the execution is after a step that starts no turn.                *)
LEMMA StartsNoTurn ==
    ASSUME GrantInv, [Next]_vars, NEW r \in Runs,
           \/ Dequeue(r) \/ Recover(r) \/ BeginThrows(r) \/ BeginRecord(r)
           \/ PassAlreadyEnded(r) \/ PassEndsFromHead(r) \/ PassBegins(r) \/ EmitStart(r) \/ PassThrows(r)
           \/ AskCall(r) \/ SaveProgress(r) \/ RunCall(r) \/ FinishStep(r)
           \/ ReplyDone(r) \/ ReplyFails(r) \/ ReplyAborted(r)
           \/ EndSave(r) \/ EndSaveFails(r) \/ EndJournal(r) \/ PassRecord(r)
           \/ SendDone(r) \/ Forget(r) \/ Return(r) \/ FailedSave(r) \/ Fail(r)
           \/ HearStop(r) \/ CheckCancelled(r)
           \/ (\E why \in {"ran_out", "paused"} : Abort(r, why)) \/ Crash(r)
    PROVE  ex'[r].pc \in StartsTurn => ex'[r] = ex[r]
<1>0. TypeInv
    BY DEF GrantInv, OwnerInv
<1>1. CASE \/ AskCall(r) \/ SaveProgress(r) \/ RunCall(r) \/ FinishStep(r)
           \/ ReplyDone(r) \/ ReplyFails(r) \/ ReplyAborted(r)
           \/ HearStop(r) \/ CheckCancelled(r)
           \/ (\E why \in {"ran_out", "paused"} : Abort(r, why)) \/ Crash(r)
    <2>1. Lingers(r)
        BY <1>1, QuietGrants
    <2>2. ex[r].pc \in {"pass", "running"} \/ Crash(r)
        BY <1>1 DEF AskCall, SaveProgress, RunCall, FinishStep, ReplyDone, ReplyFails, ReplyAborted, HearStop,
               CheckCancelled, Abort, Going, At
    <2>3. Crash(r) => ex'[r].pc = "idle"
        BY <1>0, SetsOne, Places DEF Crash
    <2> QED
        BY <2>1, <2>2, <2>3 DEF Lingers, StartsTurn
<1>2. CASE EndSave(r) \/ EndSaveFails(r) \/ Forget(r) \/ FailedSave(r) \/ Recover(r)
    <2>1. \/ \E pc \in {"endJournal", "return", "fail", "begin", "failing", "pass", "send"} : Goto(r, pc)
          \/ UNCHANGED ex
        BY <1>2 DEF EndSave, EndSaveFails, Forget, FailedSave, Recover
    <2> QED
        BY <1>0, <2>1, GrantTypes DEF StartsTurn
<1>3. CASE \/ Dequeue(r) \/ BeginThrows(r) \/ BeginRecord(r) \/ PassThrows(r) \/ PassRecord(r)
           \/ SendDone(r) \/ Return(r) \/ Fail(r)
    <2>1. \/ Set(r, Idle) \/ Goto(r, "forget")
          \/ \E pc \in {"begin", "failing", "pass", "send"} : Set(r, [Idle EXCEPT !.pc = pc])
        BY <1>3 DEF Dequeue, BeginThrows, BeginRecord, PassThrows, PassRecord, SendDone, Return, Fail
    <2>2. CASE Set(r, Idle)
        BY <1>0, <2>2, SetsOne, Places DEF StartsTurn
    <2>3. CASE Goto(r, "forget")
        BY <1>0, <2>3, GrantTypes DEF StartsTurn
    <2>4. CASE \E pc \in {"begin", "failing", "pass", "send"} : Set(r, [Idle EXCEPT !.pc = pc])
        BY <1>0, <2>4, SetsPlace DEF StartsTurn
    <2> QED
        BY <2>1, <2>2, <2>3, <2>4
<1>4. CASE PassAlreadyEnded(r) \/ PassEndsFromHead(r) \/ EndJournal(r) \/ PassBegins(r)
    <2>1. \/ Set(r, Idle)
          \/ \E out : Set(r, [Idle EXCEPT !.pc = "passDone", !.out = out])
          \/ PassBegins(r)
        BY <1>4 DEF PassAlreadyEnded, PassEndsFromHead, EndJournal
    <2>2. \E e : Set(r, e) /\ e.pc \in {"idle", "passDone", "running", "endSave"}
        <3>1. CASE Set(r, Idle)
            BY <3>1, Places
        <3>2. CASE \E out : Set(r, [Idle EXCEPT !.pc = "passDone", !.out = out])
            BY <3>2, SetsDone
        <3>3. CASE PassBegins(r)
            BY <3>3, PassSets
        <3> QED
            BY <2>1, <3>1, <3>2, <3>3
    <2> QED
        BY <1>0, <2>2, SetsOne DEF StartsTurn
<1>5. CASE EmitStart(r)
    BY <1>0, <1>5, EmitMoves DEF Emitting, StartsTurn
<1> QED
    BY <1>1, <1>2, <1>3, <1>4, <1>5

(* The steps that are no stop, and neither start a turn nor record it.     *)
LEMMA OtherStepsHear ==
    ASSUME StopInv, [Next]_vars, NEW r \in Runs,
           \/ Dequeue(r) \/ Recover(r)
           \/ PassAlreadyEnded(r) \/ PassEndsFromHead(r) \/ PassBegins(r) \/ EmitStart(r) \/ PassThrows(r)
           \/ AskCall(r) \/ SaveProgress(r) \/ SaveAnswerLost(r) \/ RunCall(r) \/ FinishStep(r)
           \/ ReplyDone(r) \/ ReplyFails(r) \/ ReplyAborted(r)
           \/ EndSave(r) \/ EndSaveFails(r) \/ EndJournal(r) \/ PassRecord(r)
           \/ SendDone(r) \/ Forget(r) \/ Return(r) \/ FailedSave(r) \/ Fail(r)
           \/ HearStop(r) \/ CheckCancelled(r)
           \/ (\E why \in {"ran_out", "paused"} : Abort(r, why)) \/ Crash(r)
           \/ EndFromHead(r) \/ ForceStop(r) \/ Maintain(r) \/ Upgrade(r) \/ TimedOut(r)
    PROVE  \A q \in Runs : StopHeard(q)'
<1>0. GrantInv /\ TypeInv
    BY DEF StopInv, GrantInv, OwnerInv
<1>1. Apart(r)
    BY <1>0, StartGrants, RecoverGrants, PassGrants, EmitGrants, QuietGrants, EndGrants, FinishGrants, OutsideGrants,
       SignalGrants, CancelGrants
       DEF ForceStop, Maintain
<1>2. UNCHANGED <<mail, marker, stopping, begun>>
    <2>1. CASE \/ PassAlreadyEnded(r) \/ AskCall(r) \/ FinishStep(r)
               \/ ReplyDone(r) \/ ReplyFails(r) \/ ReplyAborted(r) \/ SendDone(r)
               \/ HearStop(r) \/ CheckCancelled(r)
               \/ (\E why \in {"ran_out", "paused"} : Abort(r, why)) \/ Crash(r)
        <3>1. UNCHANGED shared
            BY <2>1 DEF PassAlreadyEnded, AskCall, FinishStep, ReplyDone, ReplyFails, ReplyAborted, SendDone,
                   HearStop, CheckCancelled, Abort, Crash
        <3> QED
            BY <3>1 DEF shared, stops, workflows
    <2>2. CASE \/ Dequeue(r) \/ Recover(r) \/ PassEndsFromHead(r) \/ PassBegins(r) \/ PassThrows(r)
               \/ SaveProgress(r) \/ SaveAnswerLost(r) \/ RunCall(r)
               \/ EndSave(r) \/ EndSaveFails(r) \/ EndJournal(r) \/ PassRecord(r)
               \/ Forget(r) \/ Return(r) \/ FailedSave(r) \/ Fail(r)
        BY <2>2 DEF Dequeue, Recover, PassEndsFromHead, PassBegins, PassThrows, SaveProgress, SaveAnswerLost,
               RunCall, EndSave, EndSaveFails, EndJournal, PassRecord, Forget, Return, FailedSave, Fail,
               stops, workflows
    <2>3. CASE EndFromHead(r) \/ ForceStop(r) \/ Maintain(r) \/ Upgrade(r) \/ TimedOut(r)
        BY <2>3 DEF EndFromHead, ForceStop, ForceCheck, ForceCancel, ForceEnd, Maintain, SweepCancel, SweepEnd,
               Repair, Upgrade, TimedOut, stops, workflows
    <2>4. CASE EmitStart(r)
        BY <1>0, <2>4, EmitMoves DEF stops
    <2> QED
        BY <2>1, <2>2, <2>3, <2>4
<1>3. \A q \in Runs : StopsKept(q)
    BY <1>2 DEF StopsKept
<1>4. wf'[r] \in Active => wf[r] \in Active
    <2>1. CASE Dequeue(r) \/ Recover(r)
        BY <2>1 DEF Dequeue, Recover, Active
    <2>2. CASE ~(Dequeue(r) \/ Recover(r))
        <3>1. Forward
            BY <1>0, StepsForward DEF Next, Execute, Environment
        <3>2. wf[r] # "none" \/ wf' = wf
            <4>1. ex[r].pc # "idle" => wf[r] # "none"
                BY <1>0 DEF GrantInv, OwnerInv, ExecutedIsStarted
            <4>2. CASE EndFromHead(r) \/ ForceStop(r) \/ Maintain(r) \/ Upgrade(r) \/ TimedOut(r)
                           \/ SaveAnswerLost(r)
                <5>1. EndFromHead(r) \/ ForceCheck(r) \/ ForceEnd(r) \/ SweepEnd(r) \/ Repair(r) \/ Upgrade(r)
                          \/ SaveAnswerLost(r) => wf' = wf
                    BY DEF EndFromHead, ForceCheck, ForceEnd, SweepEnd, Repair, Upgrade, SaveAnswerLost, workflows
                <5>2. ForceCancel(r) => wf[r] # "none"
                    BY <1>0 DEF ForceCancel, GrantInv, GrantSound, CutIsOver
                <5>3. SweepCancel(r) \/ TimedOut(r) => wf[r] # "none"
                    BY DEF SweepCancel, TimedOut, Active
                <5> QED
                    BY <4>2, <5>1, <5>2, <5>3 DEF ForceStop, Maintain
            <4>3. CASE ~(EndFromHead(r) \/ ForceStop(r) \/ Maintain(r) \/ Upgrade(r) \/ TimedOut(r)
                           \/ SaveAnswerLost(r))
                <5>1. ex[r].pc # "idle"
                    BY <2>2, <4>3 DEF PassAlreadyEnded, PassEndsFromHead, PassBegins, EmitStart, Emitting, PassThrows, PassRead,
                           AskCall, SaveProgress, RunCall, FinishStep, ReplyDone, ReplyFails, ReplyAborted,
                           EndSave, EndSaveFails, EndJournal, PassRecord, SendDone, Forget, Return, FailedSave,
                           Fail, HearStop, CheckCancelled, Abort, Crash, Going, At
                <5> QED
                    BY <4>1, <5>1
            <4> QED
                BY <4>2, <4>3
        <3> QED
            BY <1>0, <3>1, <3>2 DEF Forward, TypeInv, TypeOK, WorkflowsOK, Active, Terminal
    <2> QED
        BY <2>1, <2>2
<1>5. ex'[r].pc \in StartsTurn => ex'[r] = ex[r]
    <2>1. CASE EndFromHead(r) \/ ForceStop(r) \/ Maintain(r) \/ Upgrade(r) \/ TimedOut(r) \/ SaveAnswerLost(r)
        BY <2>1 DEF EndFromHead, ForceStop, ForceCheck, ForceCancel, ForceEnd, Maintain, SweepCancel, SweepEnd,
               Repair, Upgrade, TimedOut, SaveAnswerLost
    <2>2. CASE ~(EndFromHead(r) \/ ForceStop(r) \/ Maintain(r) \/ Upgrade(r) \/ TimedOut(r)
                    \/ SaveAnswerLost(r))
        BY <1>0, <2>2, StartsNoTurn
    <2> QED
        BY <2>1, <2>2
<1>6. StopHeard(r)'
    BY <1>2, <1>3, <1>4, <1>5, StopStays
<1> QED
    BY <1>1, <1>3, <1>6, OthersHear

(* The stops, the start, and the step `begin`.                             *)
LEMMA StopStepsHear ==
    ASSUME StopInv, [Next]_vars, NEW r \in Runs,
           \/ (\E kind \in Kinds : Start(r, kind))
           \/ BeginRead(r) \/ BeginSave(r) \/ BeginRecord(r) \/ BeginThrows(r)
           \/ Stop(r) \/ StopByKeyMark(r) \/ StopByKeySignal(r)
    PROVE  \A q \in Runs : StopHeard(q)'
<1>0. GrantInv /\ TypeInv /\ GrantSound(r) /\ StopHeard(r) /\ ex[r] \in Executions
    BY DEF StopInv, GrantInv, OwnerInv, TypeInv, TypeOK, ExecutionsOK
<1>1. Apart(r)
    BY <1>0, StartGrants, QuietGrants, BeginGrants, SignalGrants
<1>2. CASE Stop(r) \/ StopByKeyMark(r) \/ StopByKeySignal(r)
    <2>1. UNCHANGED <<wf, begun, ex>>
        BY <1>2 DEF Stop, StopByKeyMark, StopByKeySignal, workflows
    <2>2. \A q \in Runs : q # r => StopsKept(q)
        BY <1>2 DEF Stop, StopByKeyMark, StopByKeySignal, SignalStop, StopsKept
    <2>3. StopHeard(r)'
        <3>1. CASE Stop(r)
            BY <1>0, <2>1, <3>1 DEF Stop, SignalStop, StopHeard
        <3>2. CASE StopByKeyMark(r)
            BY <3>2 DEF StopByKeyMark, StopHeard
        <3>3. CASE StopByKeySignal(r)
            BY <2>1, <3>3 DEF StopByKeySignal, SignalStop, StopHeard
        <3> QED
            BY <1>2, <3>1, <3>2, <3>3
    <2> QED
        BY <1>1, <2>2, <2>3, OthersHear
<1>3. CASE (\E kind \in Kinds : Start(r, kind)) \/ BeginRead(r) \/ BeginSave(r) \/ BeginRecord(r) \/ BeginThrows(r)
    <2>1. UNCHANGED <<mail, marker, stopping>>
        <3>1. BeginRead(r) => UNCHANGED <<mail, marker, stopping>>
            BY DEF BeginRead, shared, stops
        <3> QED
            BY <1>3, <3>1 DEF Start, BeginSave, BeginRecord, BeginThrows, stops
    <2>2. \A q \in Runs : StopsKept(q)
        BY <2>1 DEF StopsKept
    <2>3. begun[r] = "none"
        BY <1>0, <1>3
           DEF Start, BeginRead, BeginSave, BeginRecord, BeginThrows, At, GrantSound, InStepOrder, Beginning
    <2>4. StopHeard(r)'
        <3>1. CASE \E kind \in Kinds : Start(r, kind)
            <4>1. UNCHANGED <<begun, ex>> /\ wf[r] = "none"
                BY <3>1 DEF Start
            <4>2. ex[r].pc = "idle"
                BY <1>0, <4>1 DEF GrantInv, OwnerInv, ExecutedIsStarted
            <4> QED
                BY <2>3, <4>1, <4>2 DEF StopHeard, StartsTurn
        <3>2. CASE BeginRead(r)
            <4> DEFINE from == IF input[r].kind = "retry" THEN RetryPoint ELSE NoPoint
                       e == [ex[r] EXCEPT !.pc = "startTurn", !.stopped = StoppedBeforeStart(r), !.from = from]
            <4>1. e.stopped = (r \in marker)
                BY <1>0 DEF Executions, StoppedBeforeStart
            <4>2. Set(r, e) /\ UNCHANGED begun
                BY <3>2 DEF BeginRead, shared, workflows
            <4> HIDE DEF e
            <4>3. ex'[r] = e
                BY <1>0, <4>2, SetsOne
            <4> QED
                BY <2>1, <2>3, <4>1, <4>2, <4>3 DEF StopHeard
        <3>3. CASE BeginSave(r)
            <4>1. Goto(r, "beginDone") /\ UNCHANGED <<begun, wf>> /\ ex[r].pc = "startTurn"
                BY <3>3 DEF BeginSave, workflows, At
            <4>2. ex'[r].stopped = ex[r].stopped
                BY <1>0, <4>1 DEF Goto, TypeInv, TypeOK, ExecutionsOK, Executions
            <4> QED
                BY <1>0, <2>1, <4>1, <4>2 DEF StopHeard, StartsTurn
        <3>4. CASE BeginRecord(r)
            <4>1. UNCHANGED wf /\ ex[r].pc = "beginDone" /\ (ex'[r].pc \in StartsTurn => ex'[r] = ex[r])
                BY <1>0, <3>4, StartsNoTurn DEF BeginRecord, At
            <4>2. begun'[r] = "go" => ~ex[r].stopped
                BY <1>0, <2>3, <3>4 DEF BeginRecord, TypeInv, TypeOK, WorkflowsOK
            <4> QED
                BY <1>0, <2>1, <4>1, <4>2 DEF StopHeard, StartsTurn
        <3>5. CASE BeginThrows(r)
            <4>1. UNCHANGED wf /\ (ex'[r].pc \in StartsTurn => ex'[r] = ex[r])
                BY <1>0, <3>5, StartsNoTurn DEF BeginThrows
            <4>2. begun'[r] # "go"
                BY <1>0, <2>3, <3>5 DEF BeginThrows, TypeInv, TypeOK, WorkflowsOK
            <4> QED
                BY <1>0, <2>1, <4>1, <4>2 DEF StopHeard
        <3> QED
            BY <1>3, <3>1, <3>2, <3>3, <3>4, <3>5
    <2> QED
        BY <1>1, <2>2, <2>4, OthersHear
<1> QED
    BY <1>2, <1>3

LEMMA StopStep == StopInv /\ [Next]_vars => StopInv'
<1> SUFFICES ASSUME StopInv, [Next]_vars PROVE StopInv'
    OBVIOUS
<1>1. GrantInv'
    BY GrantStep DEF StopInv
<1>2. \A q \in Runs : StopHeard(q)'
    <2>1. CASE UNCHANGED vars
        BY <2>1 DEF vars, shared, workflows, stops, StopInv, StopHeard
    <2>2. CASE Next
        BY <2>2, OtherStepsHear, StopStepsHear DEF Next, Execute, Environment
    <2> QED
        BY <2>1, <2>2
<1> QED
    BY <1>1, <1>2 DEF StopInv

(* A stop by key that is over is not lost on the run that was starting     *)
(* meanwhile (stopByKey, and `begin`'s read of the marker).                *)
THEOREM StopIsHeard == Spec => []StopByKeyIsNotLost
<1>1. Init => StopInv
    <2>1. Init => marker = {}
        BY DEF Init
    <2> QED
        BY <2>1, InitGrants DEF StopInv, StopHeard
<1>2. StopInv => StopByKeyIsNotLost
    <2>1. TypeInv => marker \subseteq Runs
        BY DEF TypeInv, TypeOK, StopsOK
    <2> QED
        BY <2>1 DEF StopInv, StopHeard, StopByKeyIsNotLost, GrantInv, OwnerInv
<1> QED
    BY <1>1, <1>2, StopStep, PTL DEF Spec
-----------------------------------------------------------------------------
(***************************************************************************)
(* The end a run journaled is the end the head holds of it.  The pass      *)
(* writes the head first and the journal after, several others may end the *)
(* reply in the head meanwhile, and a pass that runs again finds either of *)
(* the two written: it must say what is there, whichever it is.            *)
(***************************************************************************)

LastEvent(r) == jrnl[r][Len(jrnl[r])]
Owns(r) == turn.owner = r
Live(r) == wf[r] = "PENDING"

(* An end that is kept is of a run that could not save it.                 *)
KeptIs(r) == pend[r] # NoReply => r \in unsaved

(* A reply whose end is journaled has ended so in the head; a pass that is *)
(* about to journal an end has it there, and one that goes on finds none.  *)
EndedAlike(r) == JournalEnded(r) /\ Owns(r) => HasEnded(turn) /\ LastEvent(r) = EndedEvent(turn.reply)
EndToJournal(r) ==
    Live(r) /\ Owns(r) /\ ex[r].pc = "endJournal" => HasEnded(turn) /\ turn.reply = ex[r].reply
PassIsOpen(r) == Live(r) /\ Owns(r) /\ ex[r].pc \in {"running", "endSave"} => ~HasEnded(turn)

Odd(r) == r \in unsaved \/ r \in rerun
Alike(r) == EndedAlike(r) /\ EndToJournal(r) /\ PassIsOpen(r)
HeadSound(r) == KeptIs(r) /\ (~Odd(r) => Alike(r))

HeadInv == GrantInv /\ \A r \in Runs : HeadSound(r)

LEMMA InitHead == Init => HeadInv
<1> SUFFICES ASSUME Init, NEW r \in Runs PROVE HeadSound(r)
    BY InitGrants DEF HeadInv
<1>1. /\ ex[r].pc = "idle" /\ jrnl[r] = <<>> /\ pend[r] = NoReply /\ wf[r] = "none"
    BY DEF Init, Idle
<1> QED
    BY <1>1 DEF HeadSound, KeptIs, Alike, EndedAlike, EndToJournal, PassIsOpen, Live, JournalEnded
-----------------------------------------------------------------------------
(* Lemmas of any step.                                                     *)

(* A step of run r leaves what the head holds of the others.               *)
OddApart(r) ==
    /\ \A q \in Runs : q # r => (Odd(q)' <=> Odd(q)) /\ (q \in unsaved => q \in unsaved')
    /\ r \in unsaved => r \in unsaved'

LEMMA OthersStayAlike ==
    ASSUME HeadInv, NEW r \in Runs, Apart(r), turn' = turn \/ Writes(r), OddApart(r), HeadSound(r)'
    PROVE  \A q \in Runs : HeadSound(q)'
<1> SUFFICES ASSUME NEW q \in Runs, q # r PROVE HeadSound(q)'
    OBVIOUS
<1>1. HeadSound(q) /\ Same(q) /\ ex'[q] = ex[q] /\ (Odd(q)' <=> Odd(q))
    BY DEF HeadInv, Apart, OddApart
<1>2. Owns(q)' => Owns(q) /\ turn' = turn
    <2>1. Takes(r) => turn'.owner = r
        BY BeginOwner DEF Takes
    <2>2. WritesOwn(r) => turn'.owner = r
        BY NoTurnHasNoOwner DEF WritesOwn, WritableBy, OwnedBy, HeadInv, GrantInv, OwnerInv, TurnHasOwner
    <2> QED
        BY <2>1, <2>2 DEF Writes, Owns
<1>3. (JournalEnded(q)' <=> JournalEnded(q)) /\ LastEvent(q)' = LastEvent(q)
    BY <1>1 DEF Same, JournalEnded, IsEnd, LastEvent
<1>4. KeptIs(q)'
    BY <1>1 DEF HeadSound, Same, KeptIs, OddApart
<1>5. ~Odd(q)' => Alike(q)'
    <2>1. CASE ~Owns(q)'
        BY <2>1 DEF Alike, EndedAlike, EndToJournal, PassIsOpen
    <2>2. CASE Owns(q)' /\ ~Odd(q)
        <3>1. Alike(q) /\ Owns(q) /\ turn' = turn
            BY <1>1, <1>2, <2>2 DEF HeadSound
        <3>2. EndedAlike(q)'
            BY <1>3, <3>1 DEF Alike, EndedAlike, HasEnded, EndedEvent
        <3>3. EndToJournal(q)' /\ PassIsOpen(q)'
            BY <1>1, <3>1 DEF Alike, EndToJournal, PassIsOpen, HasEnded, Live, Same, Owns
        <3> QED
            BY <3>2, <3>3 DEF Alike
    <2> QED
        BY <1>1, <2>1, <2>2
<1> QED
    BY <1>4, <1>5 DEF HeadSound

LEMMA EndsKeepOdd ==
    ASSUME UNCHANGED ends, NEW r
    PROVE  OddApart(r) /\ (Odd(r)' <=> Odd(r)) /\ (r \in unsaved' <=> r \in unsaved)
BY DEF ends, OddApart, Odd

(* An execution that is no further in its pass than it was, or in none.    *)
Watched == {"running", "endSave", "endJournal"}
HoldsOn(r) ==
    \/ ex'[r] = ex[r] \/ ex'[r].pc \notin Watched
    \/ ex[r].pc = "running" /\ ex'[r].pc \in {"running", "endSave"}

(* Where a step only moves an execution so, or ends the run, the rest of   *)
(* what is said of the run stays.                                          *)
Still(r) ==
    /\ UNCHANGED <<turn, ends>> /\ jrnl'[r] = jrnl[r] /\ pend'[r] = pend[r]
    /\ wf'[r] = "PENDING" => wf[r] = "PENDING" \/ ex'[r].pc \notin Watched

LEMMA StillSound ==
    ASSUME HeadInv, NEW r \in Runs, Still(r), HoldsOn(r)
    PROVE  HeadSound(r)'
<1>1. HeadSound(r) /\ (Odd(r)' <=> Odd(r)) /\ (r \in unsaved' <=> r \in unsaved)
    BY EndsKeepOdd DEF HeadInv, Still
<1>2. (JournalEnded(r)' <=> JournalEnded(r)) /\ LastEvent(r)' = LastEvent(r)
    BY DEF Still, JournalEnded, IsEnd, LastEvent
<1>3. (HasEnded(turn)' <=> HasEnded(turn)) /\ (Owns(r)' <=> Owns(r))
    BY DEF Still, HasEnded, Owns
<1>4. KeptIs(r)'
    BY <1>1 DEF HeadSound, Still, KeptIs
<1>5. ~Odd(r) => Alike(r)'
    <2>1. SUFFICES ASSUME Alike(r) PROVE Alike(r)'
        BY <1>1 DEF HeadSound
    <2>2. EndedAlike(r)'
        BY <1>2, <1>3, <2>1 DEF Alike, EndedAlike, Still
    <2>3. EndToJournal(r)' /\ PassIsOpen(r)'
        BY <1>3, <2>1 DEF Alike, EndToJournal, PassIsOpen, Still, HoldsOn, Watched, Live
    <2> QED
        BY <2>2, <2>3 DEF Alike
<1> QED
    BY <1>1, <1>4, <1>5 DEF HeadSound

(* A reply that may be written is the run's own, and no end is journaled   *)
(* of it.                                                                  *)
LEMMA WritesTheOpen ==
    ASSUME HeadInv, NEW r \in Runs, WritableBy(turn, r)
    PROVE  /\ Owns(r) /\ ~HasEnded(turn)
           /\ ~Odd(r) => ~JournalEnded(r)
<1>1. Owns(r) /\ ~HasEnded(turn)
    BY NoTurnHasNoOwner DEF WritableBy, OwnedBy, HeadInv, GrantInv, OwnerInv, TurnHasOwner, Owns
<1> QED
    BY <1>1 DEF HeadInv, HeadSound, Alike, EndedAlike

-----------------------------------------------------------------------------
(* The steps.                                                              *)

(* Those that write neither the turn nor a journal.                        *)
LEMMA StillHead ==
    ASSUME HeadInv, [Next]_vars, NEW r \in Runs,
           \/ BeginRead(r) \/ AskCall(r) \/ RunCall(r) \/ FinishStep(r)
           \/ ReplyDone(r) \/ ReplyFails(r) \/ ReplyAborted(r)
           \/ (\E why \in {"ran_out", "paused"} : Abort(r, why))
           \/ HearStop(r) \/ CheckCancelled(r) \/ Crash(r) \/ Upgrade(r) \/ StopByKeyMark(r)
           \/ Stop(r) \/ StopByKeySignal(r) \/ ForceCheck(r)
           \/ TimedOut(r) \/ SweepCancel(r) \/ ForceCancel(r)
           \/ (\E kind \in Kinds : Start(r, kind))
           \/ SendDone(r) \/ Forget(r) \/ Return(r) \/ Fail(r)
    PROVE  \A q \in Runs : HeadSound(q)'
<1>0. GrantInv /\ TypeInv
    BY DEF HeadInv, GrantInv, OwnerInv
<1>1. Apart(r)
    BY <1>0, QuietGrants, SignalGrants, CancelGrants, StartGrants, FinishGrants
<1>2. UNCHANGED <<turn, ends, jrnl, pend>>
    <2>1. UNCHANGED turn
        BY TurnStays
    <2>2. CASE \/ BeginRead(r) \/ AskCall(r) \/ FinishStep(r)
               \/ ReplyDone(r) \/ ReplyFails(r) \/ ReplyAborted(r)
               \/ (\E why \in {"ran_out", "paused"} : Abort(r, why))
               \/ HearStop(r) \/ CheckCancelled(r) \/ Crash(r) \/ SendDone(r)
        <3>1. UNCHANGED shared
            BY <2>2 DEF BeginRead, AskCall, FinishStep, ReplyDone, ReplyFails, ReplyAborted, Abort, HearStop,
                   CheckCancelled, Crash, SendDone
        <3> QED
            BY <2>1, <3>1 DEF shared, grants, history
    <2>3. CASE \/ RunCall(r) \/ Upgrade(r) \/ StopByKeyMark(r) \/ Stop(r) \/ StopByKeySignal(r) \/ ForceCheck(r)
               \/ TimedOut(r) \/ SweepCancel(r) \/ ForceCancel(r)
        BY <2>1, <2>3 DEF RunCall, Upgrade, StopByKeyMark, Stop, StopByKeySignal, ForceCheck, TimedOut,
               SweepCancel, ForceCancel, grants, history
    <2>4. CASE (\E kind \in Kinds : Start(r, kind)) \/ Forget(r) \/ Return(r) \/ Fail(r)
        BY <2>1, <2>4 DEF Start, Forget, Return, Fail, grants, history
    <2> QED
        BY <2>2, <2>3, <2>4
<1>3. wf'[r] = wf[r] \/ wf'[r] # "PENDING"
    <2>1. CASE TimedOut(r) \/ SweepCancel(r) \/ ForceCancel(r)
        <3>1. wf' = [wf EXCEPT ![r] = IF wf[r] \in Active THEN "CANCELLED" ELSE wf[r]]
            BY <2>1 DEF TimedOut, SweepCancel, ForceCancel, Cancel
        <3> QED
            BY <1>0, <3>1 DEF TypeInv, TypeOK, WorkflowsOK
    <2>2. CASE (\E kind \in Kinds : Start(r, kind)) \/ Return(r) \/ Fail(r)
        <3>1. \/ wf' = [wf EXCEPT ![r] = "ENQUEUED"]
              \/ \E status \in {"SUCCESS", "ERROR"} :
                     wf' = [wf EXCEPT ![r] = IF wf[r] = "PENDING" THEN status ELSE wf[r]]
            BY <2>2 DEF Start, Return, Fail
        <3> QED
            BY <1>0, <3>1 DEF TypeInv, TypeOK, WorkflowsOK
    <2>3. CASE \/ RunCall(r) \/ Upgrade(r) \/ StopByKeyMark(r) \/ Stop(r) \/ StopByKeySignal(r) \/ ForceCheck(r)
               \/ Forget(r)
        BY <2>3 DEF RunCall, Upgrade, StopByKeyMark, Stop, StopByKeySignal, ForceCheck, Forget, workflows
    <2>4. CASE \/ BeginRead(r) \/ AskCall(r) \/ FinishStep(r)
               \/ ReplyDone(r) \/ ReplyFails(r) \/ ReplyAborted(r)
               \/ (\E why \in {"ran_out", "paused"} : Abort(r, why))
               \/ HearStop(r) \/ CheckCancelled(r) \/ Crash(r) \/ SendDone(r)
        <3>1. UNCHANGED shared
            BY <2>4 DEF BeginRead, AskCall, FinishStep, ReplyDone, ReplyFails, ReplyAborted, Abort, HearStop,
                   CheckCancelled, Crash, SendDone
        <3> QED
            BY <3>1 DEF shared, workflows
    <2> QED
        BY <2>1, <2>2, <2>3, <2>4
<1>4. HoldsOn(r)
    <2>1. CASE \/ BeginRead(r) \/ AskCall(r) \/ RunCall(r) \/ FinishStep(r)
               \/ ReplyDone(r) \/ ReplyFails(r) \/ ReplyAborted(r)
               \/ (\E why \in {"ran_out", "paused"} : Abort(r, why))
               \/ HearStop(r) \/ CheckCancelled(r) \/ Crash(r) \/ Upgrade(r) \/ StopByKeyMark(r)
        BY <1>0, <2>1, QuietGrants DEF Lingers, HoldsOn, Watched
    <2>2. CASE \/ Stop(r) \/ StopByKeySignal(r) \/ ForceCheck(r)
               \/ TimedOut(r) \/ SweepCancel(r) \/ ForceCancel(r)
               \/ (\E kind \in Kinds : Start(r, kind))
        BY <2>2 DEF Stop, StopByKeySignal, ForceCheck, TimedOut, SweepCancel, ForceCancel, Start, HoldsOn
    <2>3. CASE SendDone(r)
        <3>2. Goto(r, "forget") \/ Set(r, [Idle EXCEPT !.pc = "failing"]) \/ Set(r, Idle)
            BY <2>3 DEF SendDone
        <3>3. ex'[r].pc \in {"forget", "failing", "idle"}
            <4>1. CASE Goto(r, "forget")
                BY <1>0, <4>1, GrantTypes
            <4>2. CASE Set(r, [Idle EXCEPT !.pc = "failing"])
                BY <1>0, <4>2, SetsPlace
            <4>3. CASE Set(r, Idle)
                BY <1>0, <4>3, SetsOne, Places
            <4> QED
                BY <3>2, <4>1, <4>2, <4>3
        <3> QED
            BY <3>3 DEF HoldsOn, Watched
    <2>4. CASE Forget(r) \/ Return(r) \/ Fail(r)
        <3>1. Goto(r, "return") \/ Set(r, Idle)
            BY <2>4 DEF Forget, Return, Fail
        <3>2. ex'[r].pc \in {"return", "idle"}
            BY <1>0, <3>1, GrantTypes, SetsOne, Places
        <3> QED
            BY <3>2 DEF HoldsOn, Watched
    <2> QED
        BY <2>1, <2>2, <2>3, <2>4
<1>5. HeadSound(r)'
    BY <1>2, <1>3, <1>4, StillSound DEF Still
<1> QED
    BY <1>1, <1>2, <1>5, OthersStayAlike, EndsKeepOdd

(* A run that is taken from the queue, or recovered, starts a part of the  *)
(* workflow afresh.                                                        *)
LEMMA ResumeHead ==
    ASSUME HeadInv, [Next]_vars, NEW r \in Runs, Dequeue(r) \/ Recover(r)
    PROVE  \A q \in Runs : HeadSound(q)'
<1>0. GrantInv /\ TypeInv
    BY DEF HeadInv, GrantInv, OwnerInv
<1>1. Apart(r)
    BY <1>0, StartGrants, RecoverGrants
<1>2. UNCHANGED <<turn, ends, jrnl, pend>>
    BY DEF Dequeue, Recover, grants, history
<1>3. (ex'[r] = ex[r] /\ wf[r] = "PENDING") \/ ex'[r].pc \notin Watched
    <2>1. CASE Dequeue(r)
        <3>1. Set(r, [Idle EXCEPT !.pc = "begin"])
            BY <2>1 DEF Dequeue
        <3>2. ex'[r].pc = "begin"
            BY <1>0, <3>1, SetsPlace
        <3> QED
            BY <3>2 DEF Watched
    <2>2. CASE Recover(r)
        <3>1. wf[r] = "PENDING" /\ (ex' = ex \/ \E pc \in {"begin", "failing", "pass", "send"} : Goto(r, pc))
            BY <2>2 DEF Recover
        <3> QED
            BY <1>0, <3>1, GrantTypes DEF Watched
    <2> QED
        BY <2>1, <2>2
<1>4. HeadSound(r)'
    BY <1>2, <1>3, StillSound DEF Still, HoldsOn
<1> QED
    BY <1>1, <1>2, <1>4, OthersStayAlike, EndsKeepOdd

(* Progress that is saved is of a reply that has not ended, and leaves it  *)
(* so.                                                                     *)
LEMMA ProgressHead ==
    ASSUME HeadInv, [Next]_vars, NEW r \in Runs, SaveProgress(r) \/ SaveAnswerLost(r)
    PROVE  \A q \in Runs : HeadSound(q)'
<1>0. GrantInv /\ TypeInv /\ HeadSound(r) /\ WritableBy(turn, r)
    BY DEF HeadInv, GrantInv, OwnerInv, SaveProgress, SaveAnswerLost
<1>1. Apart(r) /\ Lingers(r) /\ ex[r].pc = "running"
    BY <1>0, QuietGrants DEF SaveProgress, SaveAnswerLost, At
<1>2. UNCHANGED <<ends, jrnl, pend>>
    BY DEF SaveProgress, SaveAnswerLost, grants, history
<1>3. turn' = WithProgress(turn, ex[r].mem) /\ (turn' = turn \/ Writes(r))
    BY <1>0, TurnWrites DEF SaveProgress, SaveAnswerLost
<1>4. ~HasEnded(turn)'
    <2>1. turn \in Turns
        BY <1>0 DEF TypeInv, TypeOK, TurnOK, WritableBy, OwnedBy
    <2> QED
        BY <1>3, <2>1 DEF Turns, WithProgress, RunningReply, HasEnded, EndStatuses
<1>5. HeadSound(r)'
    <2>1. (JournalEnded(r)' <=> JournalEnded(r)) /\ (~Odd(r) => ~JournalEnded(r)) /\ (Odd(r)' <=> Odd(r))
        BY <1>0, <1>2, WritesTheOpen, EndsKeepOdd DEF JournalEnded, IsEnd
    <2>2. KeptIs(r)'
        BY <1>0, <1>2, EndsKeepOdd DEF HeadSound, KeptIs
    <2>3. ex'[r].pc # "endJournal"
        BY <1>1 DEF Lingers
    <2>4. ~Odd(r) => Alike(r)'
        BY <1>4, <2>1, <2>3 DEF Alike, EndedAlike, EndToJournal, PassIsOpen
    <2> QED
        BY <2>1, <2>2, <2>4 DEF HeadSound
<1> QED
    BY <1>1, <1>2, <1>3, <1>5, OthersStayAlike, EndsKeepOdd

(* The step `begin`: its run has journaled nothing yet.                    *)
LEMMA BeginHead ==
    ASSUME HeadInv, [Next]_vars, NEW r \in Runs, BeginSave(r) \/ BeginRecord(r) \/ BeginThrows(r)
    PROVE  \A q \in Runs : HeadSound(q)'
<1>0. GrantInv /\ TypeInv /\ GrantSound(r) /\ HeadSound(r) /\ ex[r].pc \in Beginning
    BY DEF HeadInv, GrantInv, OwnerInv, BeginSave, BeginRecord, BeginThrows, At, Beginning
<1>1. Apart(r)
    BY <1>0, BeginGrants
<1>2. UNCHANGED <<ends, jrnl, pend>>
    BY DEF BeginSave, BeginRecord, BeginThrows, grants, history
<1>3. ~JournalEnded(r)'
    BY <1>0, <1>2 DEF GrantSound, InStepOrder, JournalEnded, IsEnd
<1>4. turn' = turn \/ Writes(r)
    <2>1. CASE BeginRecord(r)
        BY <2>1, TurnStays
    <2>2. CASE BeginSave(r) \/ BeginThrows(r)
        BY <1>0, <2>2, TurnWrites
    <2> QED
        BY <2>1, <2>2
<1>5. ex'[r].pc \notin Watched
    <2>1. \/ Goto(r, "beginDone") \/ Set(r, Idle)
          \/ \E pc \in {"pass", "failing"} : Set(r, [Idle EXCEPT !.pc = pc])
        BY DEF BeginSave, BeginRecord, BeginThrows
    <2>2. CASE Goto(r, "beginDone")
        BY <1>0, <2>2, GrantTypes DEF Watched
    <2>3. CASE Set(r, Idle)
        BY <1>0, <2>3, SetsOne, Places DEF Watched
    <2>4. CASE \E pc \in {"pass", "failing"} : Set(r, [Idle EXCEPT !.pc = pc])
        BY <1>0, <2>4, SetsPlace DEF Watched
    <2> QED
        BY <2>1, <2>2, <2>3, <2>4
<1>6. HeadSound(r)'
    <2>1. KeptIs(r)'
        BY <1>0, <1>2, EndsKeepOdd DEF HeadSound, KeptIs
    <2>2. EndedAlike(r)' /\ EndToJournal(r)' /\ PassIsOpen(r)'
        BY <1>3, <1>5 DEF EndedAlike, EndToJournal, PassIsOpen, Watched
    <2> QED
        BY <2>1, <2>2 DEF HeadSound, Alike
<1> QED
    BY <1>1, <1>2, <1>4, <1>6, OthersStayAlike, EndsKeepOdd

(* A journal that is written to is not empty, and ends with that.          *)
LEMMA AppendHead ==
    ASSUME TypeInv, NEW r \in Runs, NEW event \in Events, Append1(r, event)
    PROVE  jrnl'[r] # <<>> /\ LastEvent(r)' = event
<1>1. jrnl[r] \in Seq(Events) /\ jrnl'[r] = Append(jrnl[r], event)
    BY GrantTypes DEF TypeInv, TypeOK, JournalOK
<1> QED
    BY <1>1 DEF LastEvent

(* The head of the step `pass`: it finds its end journaled, or in the head, *)
(* or neither; or, where its journal never began, it has the reply run     *)
(* again.                                                                  *)
LEMMA PassHead ==
    ASSUME HeadInv, [Next]_vars, NEW r \in Runs,
           PassAlreadyEnded(r) \/ PassEndsFromHead(r) \/ PassBegins(r) \/ PassThrows(r)
    PROVE  \A q \in Runs : HeadSound(q)'
<1>0. /\ GrantInv /\ TypeInv /\ HeadSound(r) /\ turn \in Turns \cup {NoTurn}
    BY DEF HeadInv, GrantInv, OwnerInv, TypeInv, TypeOK, TurnOK
<1>1. Apart(r)
    BY <1>0, PassGrants
<1>2. UNCHANGED <<pend, wf, turn, unsaved>>
    BY DEF PassAlreadyEnded, PassEndsFromHead, PassBegins, PassThrows, grants, history, ends, workflows, shared
<1>3. ASSUME ~PassBegins(r) PROVE UNCHANGED ends
    BY <1>3 DEF PassAlreadyEnded, PassEndsFromHead, PassThrows, history, shared
<1>4. OddApart(r) /\ (Odd(r) => Odd(r)')
    BY <1>2 DEF PassBegins, PassAlreadyEnded, PassEndsFromHead, PassThrows, history, shared, ends, OddApart, Odd
<1>5. SUFFICES HeadSound(r)'
    BY <1>1, <1>2, <1>4, OthersStayAlike
<1>6. ASSUME UNCHANGED <<jrnl, ends>>, ex'[r].pc \notin Watched
      PROVE  HeadSound(r)'
    BY <1>2, <1>6, StillSound DEF Still, HoldsOn
<1>7. CASE PassAlreadyEnded(r) \/ PassThrows(r)
    <2>1. UNCHANGED jrnl
        BY <1>7 DEF PassAlreadyEnded, PassThrows, shared
    <2>2. \/ \E out : Set(r, [Idle EXCEPT !.pc = "passDone", !.out = out])
          \/ Set(r, [Idle EXCEPT !.pc = "failing"]) \/ Set(r, Idle)
        BY <1>7 DEF PassAlreadyEnded, PassThrows
    <2>3. ex'[r].pc \in {"passDone", "failing", "idle"}
        <3>1. CASE \E out : Set(r, [Idle EXCEPT !.pc = "passDone", !.out = out])
            BY <1>0, <3>1, SetsDonePlace
        <3>2. CASE Set(r, [Idle EXCEPT !.pc = "failing"])
            BY <1>0, <3>2, SetsPlace
        <3>3. CASE Set(r, Idle)
            BY <1>0, <3>3, SetsOne, Places
        <3> QED
            BY <2>2, <3>1, <3>2, <3>3
    <2>4. UNCHANGED ends
        BY <1>7 DEF PassAlreadyEnded, PassThrows, history, shared
    <2> QED
        BY <1>6, <2>1, <2>3, <2>4 DEF Watched
<1>8. CASE PassEndsFromHead(r)
    <2>1. HasEnded(turn) /\ UNCHANGED ends
        BY <1>8 DEF PassEndsFromHead, EndInHead, history
    <2>2. CASE wf[r] # "PENDING"
        <3>1. UNCHANGED jrnl /\ Set(r, Idle)
            BY <1>8, <2>2 DEF PassEndsFromHead
        <3>2. ex'[r].pc = "idle"
            BY <1>0, <3>1, SetsOne, Places
        <3> QED
            BY <1>6, <2>1, <3>1, <3>2 DEF Watched
    <2>3. CASE wf[r] = "PENDING"
        <3>1. /\ Append1(r, EndedEvent(turn.reply))
              /\ \E out : Set(r, [Idle EXCEPT !.pc = "passDone", !.out = out])
            BY <1>8, <2>3 DEF PassEndsFromHead
        <3>2. EndedEvent(turn.reply) \in Events
            BY <1>0, <2>1, TurnReplyType, EndedEventType
        <3>3. LastEvent(r)' = EndedEvent(turn.reply)
            BY <1>0, <3>1, <3>2, AppendHead
        <3>4. ex'[r].pc = "passDone"
            BY <1>0, <3>1, SetsDonePlace
        <3>5. EndedAlike(r)' /\ EndToJournal(r)' /\ PassIsOpen(r)'
            BY <1>2, <2>1, <3>3, <3>4 DEF EndedAlike, EndToJournal, PassIsOpen, HasEnded
        <3>6. KeptIs(r)'
            BY <1>0, <1>2 DEF HeadSound, KeptIs
        <3> QED
            BY <3>5, <3>6 DEF HeadSound, Alike
    <2> QED
        BY <2>2, <2>3
<1>9. CASE PassBegins(r)
    <2>1. ~JournalEnded(r) /\ UNCHANGED jrnl
          /\ (OwnedBy(turn, r) /\ HasEnded(turn) /\ wf[r] = "PENDING" => r \in rerun')
        BY <1>9 DEF PassBegins
    <2>2. ~JournalEnded(r)'
        BY <2>1 DEF JournalEnded, IsEnd
    <2>3. ex'[r].pc \in {"running", "endSave"}
        BY <1>0, <1>9, PassSets, SetsOne
    <2>4. ~Odd(r)' => PassIsOpen(r)'
        <3>1. Owns(r) /\ HasEnded(turn) => OwnedBy(turn, r)
            BY NoTurnHasNoOwner DEF OwnedBy, Owns
        <3> QED
            BY <1>2, <2>1, <3>1 DEF PassIsOpen, Live, Owns, HasEnded, Odd
    <2>5. EndedAlike(r)' /\ EndToJournal(r)'
        BY <2>2, <2>3 DEF EndedAlike, EndToJournal
    <2>6. KeptIs(r)'
        BY <1>0, <1>2 DEF HeadSound, KeptIs
    <2> QED
        BY <2>4, <2>5, <2>6 DEF HeadSound, Alike
<1> QED
    BY <1>7, <1>8, <1>9

(* What the emitter writes first is no end.                                *)
LEMMA EmitHead ==
    ASSUME HeadInv, [Next]_vars, NEW r \in Runs, EmitStart(r)
    PROVE  \A q \in Runs : HeadSound(q)'
<1>0. GrantInv /\ TypeInv /\ HeadSound(r)
    BY DEF HeadInv, GrantInv, OwnerInv
<1>1. Apart(r)
    BY <1>0, EmitGrants
<1>2. /\ ex'[r].pc = ex[r].pc /\ ex'[r].reply = ex[r].reply
      /\ (JournalEnded(r)' => JournalEnded(r) /\ jrnl'[r] = jrnl[r])
      /\ UNCHANGED <<turn, ends, wf, pend>>
    BY <1>0, EmitMoves DEF history
<1>3. HeadSound(r)'
    <2>1. KeptIs(r)' /\ (Odd(r)' <=> Odd(r))
        BY <1>0, <1>2, EndsKeepOdd DEF HeadSound, KeptIs
    <2>2. EndedAlike(r) => EndedAlike(r)'
        BY <1>2 DEF EndedAlike, Owns, HasEnded, LastEvent
    <2>3. EndToJournal(r) /\ PassIsOpen(r) => EndToJournal(r)' /\ PassIsOpen(r)'
        BY <1>2 DEF EndToJournal, PassIsOpen, Live, Owns, HasEnded
    <2> QED
        BY <1>0, <2>1, <2>2, <2>3 DEF HeadSound, Alike
<1> QED
    BY <1>1, <1>2, <1>3, OthersStayAlike, EndsKeepOdd

(* A reply that is the run's own and not ended is ended as it is told to.  *)
LEMMA EndsAsTold ==
    ASSUME TypeInv, NEW r \in Runs, Owns(r), ~HasEnded(turn), NEW reply \in Replies,
           turn' = WithEnd(turn, reply)
    PROVE  WritableBy(turn, r) /\ HasEnded(turn)' /\ turn'.reply = reply
<1>1. turn # NoTurn /\ turn \in Turns
    BY NoTurnHasNoOwner DEF Owns, TypeInv, TypeOK, TurnOK
<1>2. HasEnded(turn)' /\ turn'.reply = reply
    BY <1>1, WithEndType DEF WithEnd, Turns, HasEnded
<1> QED
    BY <1>1, <1>2 DEF WritableBy, OwnedBy, Owns

(* The end of the pass in the head.                                        *)
LEMMA EndHead ==
    ASSUME HeadInv, [Next]_vars, NEW r \in Runs, EndSave(r) \/ EndSaveFails(r)
    PROVE  \A q \in Runs : HeadSound(q)'
<1>0. /\ GrantInv /\ TypeInv /\ HeadSound(r) /\ ex[r].pc = "endSave" /\ ex[r].reply \in Replies
      /\ ex[r] \in Executions
    BY DEF HeadInv, GrantInv, OwnerInv, EndSave, EndSaveFails, At, TypeInv, ExecutionsSound, EndStands, TypeOK,
           ExecutionsOK
<1>1. Apart(r)
    BY <1>0, EndGrants
<1>2. UNCHANGED <<wf, jrnl, rerun>>
    BY DEF EndSave, EndSaveFails, workflows, history, ends
<1>3. turn' = turn \/ Writes(r)
    BY <1>0, TurnWrites
<1>4. CASE EndSaveFails(r)
    <2>1. unsaved' = unsaved \cup {r}
        BY <1>4 DEF EndSaveFails
    <2>2. OddApart(r) /\ HeadSound(r)'
        BY <1>2, <2>1 DEF OddApart, Odd, HeadSound, KeptIs
    <2> QED
        BY <1>1, <1>3, <2>2, OthersStayAlike
<1>5. CASE EndSave(r)
    <2>1. UNCHANGED <<pend, ends>> /\ turn' = EndSaved(r)
        BY <1>5 DEF EndSave, grants, history
    <2>2. ex'[r].pc = "endJournal" /\ ex'[r].reply = ex[r].reply
        BY <1>0, <1>5 DEF EndSave, Goto, TypeInv, TypeOK, ExecutionsOK, Executions
    <2>3. (JournalEnded(r)' <=> JournalEnded(r)) /\ LastEvent(r)' = LastEvent(r)
        BY <1>2 DEF JournalEnded, IsEnd, LastEvent
    <2>4. KeptIs(r)' /\ (Odd(r)' <=> Odd(r))
        BY <1>0, <2>1, EndsKeepOdd DEF HeadSound, KeptIs
    <2>0. SUFFICES HeadSound(r)'
        BY <1>1, <1>3, <2>1, OthersStayAlike, EndsKeepOdd
    <2>5. CASE WritableBy(turn, r)
        <3>1. Owns(r) /\ ~HasEnded(turn) /\ (~Odd(r) => ~JournalEnded(r))
            BY <2>5, WritesTheOpen
        <3>2. HasEnded(turn)' /\ turn'.reply = ex[r].reply
            BY <1>0, <2>1, <2>5, <3>1, EndsAsTold DEF EndSaved
        <3>3. ~Odd(r) => Alike(r)'
            BY <2>2, <2>3, <3>1, <3>2 DEF Alike, EndedAlike, EndToJournal, PassIsOpen
        <3> QED
            BY <2>4, <3>3 DEF HeadSound
    <2>6. CASE ~WritableBy(turn, r)
        <3>1. turn' = turn
            BY <2>1, <2>6 DEF EndSaved
        <3>2. ASSUME ~Odd(r) PROVE Alike(r)'
            <4>1. Alike(r)
                BY <1>0, <3>2 DEF HeadSound
            <4>2. ~(Live(r) /\ Owns(r))
                BY <1>0, <2>6, <4>1, NoTurnHasNoOwner DEF Alike, PassIsOpen, WritableBy, OwnedBy, Owns
            <4>3. ~(Live(r) /\ Owns(r))'
                BY <1>2, <3>1, <4>2 DEF Live, Owns
            <4>4. EndedAlike(r)'
                BY <2>3, <3>1, <4>1 DEF Alike, EndedAlike, Owns, HasEnded
            <4> QED
                BY <4>3, <4>4 DEF Alike, EndToJournal, PassIsOpen
        <3> QED
            BY <2>4, <3>2 DEF HeadSound
    <2> QED
        BY <2>5, <2>6
<1> QED
    BY <1>4, <1>5

(* The end of the pass in the journal, and its record.                     *)
LEMMA JournalHead ==
    ASSUME HeadInv, [Next]_vars, NEW r \in Runs, EndJournal(r) \/ PassRecord(r)
    PROVE  \A q \in Runs : HeadSound(q)'
<1>0. GrantInv /\ TypeInv /\ HeadSound(r)
    BY DEF HeadInv, GrantInv, OwnerInv
<1>1. Apart(r)
    BY <1>0, FinishGrants
<1>2. UNCHANGED <<ends, pend, wf, turn>>
    BY DEF EndJournal, PassRecord, grants, history, workflows
<1>3. SUFFICES HeadSound(r)'
    BY <1>1, <1>2, OthersStayAlike, EndsKeepOdd
<1>4. ex'[r].pc \in {"passDone", "send", "idle"}
    <2>1. \/ \E out : Set(r, [Idle EXCEPT !.pc = "passDone", !.out = out])
          \/ Set(r, [Idle EXCEPT !.pc = "send"]) \/ Set(r, Idle)
        BY DEF EndJournal, PassRecord
    <2>2. CASE \E out : Set(r, [Idle EXCEPT !.pc = "passDone", !.out = out])
        BY <1>0, <2>2, SetsDonePlace
    <2>3. CASE Set(r, [Idle EXCEPT !.pc = "send"])
        BY <1>0, <2>3, SetsPlace
    <2>4. CASE Set(r, Idle)
        BY <1>0, <2>4, SetsOne, Places
    <2> QED
        BY <2>1, <2>2, <2>3, <2>4
<1>5. CASE jrnl' = jrnl
    BY <1>2, <1>4, <1>5, StillSound DEF Still, HoldsOn, Watched
<1>6. CASE jrnl' # jrnl
    <2>1. /\ wf[r] = "PENDING" /\ ex[r].pc = "endJournal"
          /\ Append1(r, RunEnded(ex[r].out.status, ex[r].reply.steps))
        BY <1>6 DEF EndJournal, PassRecord, At
    <2>2. ex[r].reply \in Replies /\ ex[r].out.status = StatusOf(ex[r].reply)
        BY <1>0, <2>1 DEF TypeInv, ExecutionsSound, EndStands
    <2>3. EndedEvent(ex[r].reply) \in Events /\ Append1(r, EndedEvent(ex[r].reply))
        BY <2>1, <2>2, EndedEventType DEF EndedEvent
    <2>4. LastEvent(r)' = EndedEvent(ex[r].reply)
        BY <1>0, <2>3, AppendHead
    <2>5. ~Odd(r) /\ Owns(r) => HasEnded(turn) /\ turn.reply = ex[r].reply
        BY <1>0, <2>1 DEF HeadSound, Alike, EndToJournal, Live
    <2>6. ~Odd(r) => EndedAlike(r)'
        BY <1>2, <2>4, <2>5 DEF EndedAlike, Owns, HasEnded
    <2>7. EndToJournal(r)' /\ PassIsOpen(r)'
        BY <1>4 DEF EndToJournal, PassIsOpen
    <2>8. KeptIs(r)' /\ (Odd(r)' <=> Odd(r))
        BY <1>0, <1>2, EndsKeepOdd DEF HeadSound, KeptIs
    <2> QED
        BY <2>6, <2>7, <2>8 DEF HeadSound, Alike
<1> QED
    BY <1>5, <1>6

(* The workflow that threw ends its reply if it has not ended.             *)
LEMMA FailHead ==
    ASSUME HeadInv, [Next]_vars, NEW r \in Runs, FailedSave(r)
    PROVE  \A q \in Runs : HeadSound(q)'
<1>0. GrantInv /\ TypeInv /\ HeadSound(r)
    BY DEF HeadInv, GrantInv, OwnerInv
<1>1. Apart(r)
    BY <1>0, FinishGrants
<1>2. UNCHANGED <<ends, jrnl, pend>>
    BY DEF FailedSave, grants, history
<1>3. turn' = turn \/ WritableBy(turn, r)
    BY DEF FailedSave
<1>4. turn' = turn \/ Writes(r)
    BY <1>0, TurnWrites
<1>5. ex'[r].pc = "fail"
    BY <1>0, GrantTypes DEF FailedSave
<1>6. (JournalEnded(r)' <=> JournalEnded(r)) /\ LastEvent(r)' = LastEvent(r)
    BY <1>2 DEF JournalEnded, IsEnd, LastEvent
<1>7. KeptIs(r)' /\ (Odd(r)' <=> Odd(r))
    BY <1>0, <1>2, EndsKeepOdd DEF HeadSound, KeptIs
<1>8. ~Odd(r) => EndedAlike(r)'
    <2>1. CASE turn' = turn
        BY <1>0, <1>6, <2>1 DEF HeadSound, Alike, EndedAlike, Owns, HasEnded
    <2>2. CASE WritableBy(turn, r)
        BY <1>6, <2>2, WritesTheOpen DEF EndedAlike
    <2> QED
        BY <1>3, <2>1, <2>2
<1>9. EndToJournal(r)' /\ PassIsOpen(r)'
    BY <1>5 DEF EndToJournal, PassIsOpen
<1>10. HeadSound(r)'
    BY <1>7, <1>8, <1>9 DEF HeadSound, Alike
<1> QED
    BY <1>1, <1>2, <1>4, <1>10, OthersStayAlike, EndsKeepOdd

(* An end from outside is of a run that is over, or was kept.              *)
LEMMA OutsideHead ==
    ASSUME HeadInv, [Next]_vars, NEW r \in Runs, SweepEnd(r) \/ ForceEnd(r) \/ EndFromHead(r) \/ Repair(r)
    PROVE  \A q \in Runs : HeadSound(q)'
<1>0. GrantInv /\ TypeInv /\ GrantSound(r) /\ HeadSound(r)
    BY DEF HeadInv, GrantInv, OwnerInv
<1>1. Apart(r)
    BY <1>0, OutsideGrants
<1>2. UNCHANGED <<ends, jrnl, wf, ex>>
    BY DEF SweepEnd, ForceEnd, EndFromHead, Repair, workflows, history
<1>3. turn' = turn \/ Writes(r)
    BY <1>0, TurnWrites
<1>4. turn' = turn \/ WritableBy(turn, r)
    <2>1. \A reply : EndOnce(r, reply) = turn \/ WritableBy(turn, r)
        BY DEF EndOnce
    <2> QED
        BY <2>1 DEF SweepEnd, ForceEnd, EndFromHead, Repair, EndTurnOnce, EndTurnOnceFails
<1>5. pend' = pend \/ pend' = [pend EXCEPT ![r] = NoReply]
    BY DEF SweepEnd, ForceEnd, EndFromHead, Repair, EndTurnOnce, EndTurnOnceFails, ForgetGrant
<1>6. KeptIs(r)' /\ (Odd(r)' <=> Odd(r))
    <2>1. pend'[r] = pend[r] \/ pend'[r] = NoReply
        BY <1>0, <1>5 DEF TypeInv, TypeOK, GrantsOK
    <2> QED
        BY <1>0, <1>2, <2>1, EndsKeepOdd DEF HeadSound, KeptIs
<1>7. ~Odd(r) => Alike(r)'
    <2>1. SUFFICES ASSUME ~Odd(r) PROVE Alike(r)'
        OBVIOUS
    <2>2. wf[r] # "PENDING"
        <3>1. "PENDING" \notin Terminal
            BY DEF Terminal
        <3>2. ~Repair(r)
            BY <1>0, <2>1 DEF Repair, HeadSound, KeptIs, Odd
        <3> QED
            BY <1>0, <3>1, <3>2 DEF SweepEnd, ForceEnd, EndFromHead, WorkflowOver, GrantSound, CutIsOver
    <2>3. EndToJournal(r)' /\ PassIsOpen(r)'
        BY <1>2, <2>2 DEF EndToJournal, PassIsOpen, Live
    <2>4. (JournalEnded(r)' <=> JournalEnded(r)) /\ LastEvent(r)' = LastEvent(r)
        BY <1>2 DEF JournalEnded, IsEnd, LastEvent
    <2>5. EndedAlike(r)'
        <3>1. CASE turn' = turn
            BY <1>0, <2>1, <2>4, <3>1 DEF HeadSound, Alike, EndedAlike, Owns, HasEnded
        <3>2. CASE WritableBy(turn, r)
            BY <2>1, <2>4, <3>2, WritesTheOpen DEF EndedAlike
        <3> QED
            BY <1>4, <3>1, <3>2
    <2> QED
        BY <2>3, <2>5 DEF Alike
<1>8. HeadSound(r)'
    BY <1>6, <1>7 DEF HeadSound
<1> QED
    BY <1>1, <1>2, <1>3, <1>8, OthersStayAlike, EndsKeepOdd
-----------------------------------------------------------------------------
LEMMA HeadStep == HeadInv /\ [Next]_vars => HeadInv'
<1> SUFFICES ASSUME HeadInv, [Next]_vars PROVE HeadInv'
    OBVIOUS
<1>1. GrantInv'
    BY GrantStep DEF HeadInv
<1>2. \A q \in Runs : HeadSound(q)'
    <2>1. CASE UNCHANGED vars
        <3>1. UNCHANGED <<turn, ends, jrnl, pend, wf, ex>>
            BY <2>1 DEF vars, shared, workflows, grants, history
        <3> QED
            BY <3>1, StillSound DEF Still, HoldsOn
    <2>2. CASE Next
        BY <2>2, StillHead, ResumeHead, ProgressHead, BeginHead, PassHead, EmitHead, EndHead, JournalHead, FailHead,
           OutsideHead
           DEF Next, Execute, Environment, ForceStop, Maintain
    <2> QED
        BY <2>1, <2>2
<1> QED
    BY <1>1, <1>2 DEF HeadInv

(* The end a run journaled is the end the head holds of it, through a pass *)
(* that runs again, an emitter that writes late or not at all, and every   *)
(* other writer of the end, unless the run could not save its end, or its  *)
(* pass began again over an end in the head that no journal had announced  *)
(* (#pass, RunEmitter.emit, ProgressWriter.end).                           *)
THEOREM HeadAndJournalAgree == Spec => []HeadAgreesWithJournal
<1>1. ASSUME HeadInv, NEW r \in Runs \ (unsaved \cup rerun) PROVE Agrees(r)
    <2>1. Alike(r)
        BY <1>1 DEF HeadInv, HeadSound, Odd
    <2> QED
        BY <2>1 DEF Alike, EndedAlike, Agrees, SameEnd, LastEvent, Owns
<1>2. HeadInv => HeadAgreesWithJournal
    BY <1>1 DEF HeadAgreesWithJournal
<1> QED
    BY <1>2, InitHead, HeadStep, PTL DEF Spec
=============================================================================
