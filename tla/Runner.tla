------------------------------- MODULE Runner -------------------------------
(***************************************************************************)
(* The agent runner's execution of replies: the `reply` DBOS workflow of   *)
(* packages/civitai-agent-runner/src/runner.ts, with the ProgressWriter of *)
(* progress.ts and the head edits of head.ts, its crashes and recoveries,  *)
(* Stop in all its forms, the sweeps, the repair of kept ends and the      *)
(* readers of the event stream.                                            *)
(*                                                                         *)
(* One user, one conversation, one turn: the runs 1..NumRuns are the first *)
(* start of the turn and the retries and edits of it that follow, in the   *)
(* order they are enqueued.  DBOS, the head store and the grant table are  *)
(* external: a workflow's status, its recorded steps, its inbox and its    *)
(* stream are durable, and everything in `ex` is lost with the process.    *)
(***************************************************************************)
EXTENDS ConversationHead, Sequences

CONSTANTS
    MaxCrashes,    \* bound: how often a process running a reply dies
    MaxFaults,     \* bound: how many store, journal or database calls fail
    MaxRecoveries, \* MAX_RECOVERY_ATTEMPTS
    StopRuns,      \* bound: the runs the viewer may stop, or DBOS time out
    Happens        \* bound: what else happens: a subset of OutsideEvents

OutsideEvents == {"stop", "stopByKey", "timeout", "ran_out", "paused", "upgrade"}

ASSUME BoundsAssumption ==
    /\ MaxCrashes \in Nat /\ MaxFaults \in Nat /\ MaxRecoveries \in Nat
    /\ StopRuns \subseteq Runs /\ Happens \subseteq OutsideEvents

VARIABLES
    (* durable: DBOS's tables, the grant table and the head                *)
    wf,         \* each run's workflow status
    input,      \* each run's ReplyInput: what it asks, and how
    begun,      \* the recorded outcome of each run's `begin` step
    output,     \* the recorded outcome of each run's `pass` step
    jrnl,       \* each run's journal, the DBOS stream `events`
    mail,       \* runs with STOP in their CONTROL inbox
    marker,     \* runs a stop by key left a marker for
    recoveries, \* how often each run was recovered
    stranded,   \* runs left on another workflow version
    grant,      \* runs whose grant is kept
    pend,       \* the reply end kept with a run's grant, to be saved later
    turn,       \* the turn in the conversation head
    (* volatile: the processes                                             *)
    ex,         \* each run's execution
    force,      \* each run's forced stop, in the process that took the Stop
    stopping,   \* runs whose stop by key left its marker and is to look for the run
    sweep,      \* stranded runs cancelled whose end the sweep is to write
    (* what happened, for the properties                                   *)
    heard,      \* the end a client heard of a run that journaled none
    lineage,    \* the run that last started the reply afresh, the message its steps
                \* answer, whether a retry carried on from outdated steps since, and
                \* whether the run wrote steps that were outdated by then
    joined,     \* the lineage each run's reply belongs to
    timesRan,   \* how often call i of that lineage ran
    unsaved,    \* runs that ever could not save their end
    lostEnd,    \* those of them that could not keep it in pend either
    rerun,      \* runs whose pass began again though the head has their end
    (* how much of the bounds is used                                      *)
    crashes, faults

workflows == <<wf, input, begun, output, recoveries, stranded>>
stops == <<mail, marker, stopping, force>>
grants == <<grant, pend>>
lineages == <<lineage, joined, timesRan>>
ends == <<unsaved, lostEnd, rerun>>
history == <<heard, lineages, ends>>
bounds == <<crashes, faults>>
shared == <<workflows, jrnl, stops, grants, turn, sweep, history>>
vars == <<shared, ex, bounds>>

Active == {"ENQUEUED", "PENDING"}
Terminal == {"SUCCESS", "ERROR", "CANCELLED", "EXCEEDED"}

Kinds == {"new", "retry", "edit"}
Begun == {"none", "go", "stopped", "threw"}

(* ReplyOutput: how the reply ended and where a retry may carry on from;   *)
(* "none" before the pass is recorded, "threw" when it threw.              *)
Outputs == [status : EventStatuses \cup {"none", "threw"}, resume : Points]
NoOutput == [status |-> "none", resume |-> NoPoint]
Threw == [status |-> "threw", resume |-> NoPoint]

NoEvent == [type |-> "none", status |-> "none", messages |-> 0]

(* An execution of the workflow.  mem: the steps in the messages AgentCore *)
(* holds, the last of them with call `call`; saved: whether this pass knows *)
(* all of them to be written (its saved calls); why: the reason its abort  *)
(* signal was raised; emits: whether its emitter writes, has run-started   *)
(* to write still, or was refused a write.                                 *)
Whys == {"none", "stopped", "ran_out", "paused"}
Pcs == {"idle", "begin", "startTurn", "beginDone", "pass", "running", "endSave",
        "endJournal", "passDone", "send", "forget", "return", "failing", "fail"}
Executions ==
    [pc : Pcs, stopped : BOOLEAN, from : Points, mem : Counts, saved : BOOLEAN,
     call : {"none", "asked", "running"}, why : Whys, emits : {"open", "start", "broken"},
     reply : Replies \cup {NoReply}, out : Outputs]
Idle == [pc |-> "idle", stopped |-> FALSE, from |-> NoPoint, mem |-> 0, saved |-> TRUE,
         call |-> "none", why |-> "none", emits |-> "open",
         reply |-> NoReply, out |-> NoOutput]
At(r, pc) == ex[r].pc = pc
Set(r, e) == ex' = [ex EXCEPT ![r] = e]
Goto(r, pc) == ex' = [ex EXCEPT ![r].pc = pc]

Init ==
    /\ wf = [r \in Runs |-> "none"]
    /\ input = [r \in Runs |-> [kind |-> "new", asked |-> r]]
    /\ begun = [r \in Runs |-> "none"]
    /\ output = [r \in Runs |-> NoOutput]
    /\ jrnl = [r \in Runs |-> <<>>]
    /\ mail = {} /\ marker = {} /\ stranded = {} /\ grant = {}
    /\ recoveries = [r \in Runs |-> 0]
    /\ pend = [r \in Runs |-> NoReply]
    /\ turn = NoTurn
    /\ ex = [r \in Runs |-> Idle]
    /\ force = [r \in Runs |-> "none"]
    /\ sweep = {} /\ stopping = {} /\ unsaved = {} /\ lostEnd = {} /\ rerun = {}
    /\ heard = [r \in Runs |-> NoEvent]
    /\ timesRan = [i \in 1..StepLimit |-> 0]
    /\ lineage = [by |-> NoRun, msg |-> NoRun, stale |-> FALSE, late |-> FALSE]
    /\ joined = [r \in Runs |-> NoRun]
    /\ crashes = 0 /\ faults = 0

(***************************************************************************)
(* Plausible slips in the code, one for each guard it is named for.  The   *)
(* specification uses none of them: put in a guard's place, each breaks    *)
(* the property the guard is there for.                                    *)
(***************************************************************************)
EndForgottenByJournal(r) == FALSE           \* for JournalEnded
AnsweredAnything(p) == TRUE                 \* for AnsweredNow
MarkerNeverRead(r) == FALSE                 \* for StoppedBeforeStart
UnsavedCallRuns(r) == TRUE                  \* for CallSaved
ForgetAlways(r) == grant' = grant \ {r}     \* for ForgetUnlessEndPending
RecoversForever(r) == TRUE                  \* for MayRecover
ForcesOnlyRunning(r) == wf[r] = "PENDING"   \* for MayForce
OverUnlessCancelled(r) == wf[r] \in {"SUCCESS", "ERROR"}   \* for WorkflowOver

(***************************************************************************)
(* What a call of the outside world may do                                 *)
(***************************************************************************)

(* The head store acts with a grant some run of the conversation holds.    *)
StoreReachable == grant # {}
StoreWorks == StoreReachable /\ UNCHANGED faults
Fault == faults < MaxFaults /\ faults' = faults + 1
StoreFails == IF StoreReachable THEN Fault ELSE UNCHANGED faults

(* A failed update may have been applied before its answer was lost.       *)
MayHaveApplied(change) == turn' \in {turn} \cup (IF StoreReachable THEN {change} ELSE {})

JournalEnded(r) == jrnl[r] # <<>> /\ IsEnd(jrnl[r][Len(jrnl[r])])

(* A stream write is refused once the run is not running any more.         *)
Append1(r, event) == jrnl' = [jrnl EXCEPT ![r] = Append(@, event)]

(***************************************************************************)
(* start (its admission is module RunStart): one run of the user is queued *)
(* or running at a time, its grant is kept before it is enqueued.  A retry *)
(* or an edit of a turn nothing saved runs as a new one does.              *)
(***************************************************************************)
Start(r, kind) ==
    /\ wf[r] = "none"
    /\ \A p \in Runs : wf[p] \notin Active /\ (p < r => wf[p] # "none")
    /\ AcceptsTurn(turn, kind = "retry", kind = "edit")
    /\ turn = NoTurn => kind = "new"
    /\ wf' = [wf EXCEPT ![r] = "ENQUEUED"]
    /\ input' = [input EXCEPT ![r] =
            [kind |-> kind, asked |-> IF kind = "retry" THEN turn.msg ELSE r]]
    /\ grant' = grant \cup {r}
    /\ UNCHANGED <<begun, output, recoveries, stranded, jrnl, stops, pend,
                   turn, ex, sweep, history, bounds>>

(* The queue hands the run to a process. *)
Dequeue(r) ==
    /\ wf[r] = "ENQUEUED"
    /\ wf' = [wf EXCEPT ![r] = "PENDING"]
    /\ Set(r, [Idle EXCEPT !.pc = "begin"])
    /\ UNCHANGED <<input, begun, output, recoveries, stranded, jrnl, stops,
                   grants, turn, sweep, history, bounds>>

(***************************************************************************)
(* The step `begin`                                                        *)
(***************************************************************************)

(* #retryPoint: the saved progress, else the resume point a failed run of  *)
(* the turn left: the latest one that ended SUCCESS, if it answered the    *)
(* message the turn holds now.                                             *)
PreviousSuccess == {p \in Runs : wf[p] = "SUCCESS" /\ \A q \in Runs : q > p => wf[q] # "SUCCESS"}
AnsweredNow(p) == input[p].asked = turn.msg
LeftPoint ==
    {output[p].resume : p \in {q \in PreviousSuccess :
                                  AnsweredNow(q) /\ output[q].status = "error"}}
RetryPoint ==
    IF turn = NoTurn THEN NoPoint
    ELSE IF ResumeOf(turn) # NoPoint THEN ResumeOf(turn)
    ELSE IF InterruptedResume(turn) # NoPoint THEN InterruptedResume(turn)
    ELSE IF LeftPoint = {} THEN NoPoint ELSE CHOOSE n \in LeftPoint : TRUE

StoppedBeforeStart(r) == r \in marker

(* The marker is read, then the head and the retry's resume point. *)
BeginRead(r) ==
    /\ At(r, "begin")
    /\ StoreWorks
    /\ Set(r, [ex[r] EXCEPT !.pc = "startTurn", !.stopped = StoppedBeforeStart(r),
                            !.from = IF input[r].kind = "retry" THEN RetryPoint ELSE NoPoint])
    /\ UNCHANGED <<shared, crashes>>

Begin(r) == StartTurn(turn, r, input[r].asked, input[r].kind = "edit", ex[r].from)

(* The lineage of calls starts over when no step is carried on; steps that *)
(* the head does not hold any more answered what the run that left them    *)
(* was asked.  They are outdated when the head moved on since they were    *)
(* read, or when the run that left them is not the turn's latest.          *)
HeadHoldsPoint == ResumeOf(turn) # NoPoint \/ InterruptedResume(turn) # NoPoint
PointAnswered ==
    IF HeadHoldsPoint \/ PreviousSuccess = {}
    THEN lineage.msg ELSE input[CHOOSE p \in PreviousSuccess : TRUE].asked
ReadLate(r) == ex[r].from # RetryPoint
Outdated(r) ==
    ReadLate(r) \/ (~HeadHoldsPoint /\ turn.owner \notin PreviousSuccess)
Lineage(r) ==
    /\ IF ex[r].from \in {NoPoint, 0}
       THEN /\ lineage' = [by |-> r, msg |-> Begin(r).msg, stale |-> FALSE, late |-> FALSE]
            /\ timesRan' = [i \in 1..StepLimit |-> 0]
            /\ joined' = [q \in Runs |-> IF q = r THEN r ELSE IF joined[q] = r THEN NoRun ELSE joined[q]]
       ELSE /\ lineage' = [lineage EXCEPT !.msg = PointAnswered, !.stale = @ \/ Outdated(r),
                                          !.late = @ \/ ReadLate(r)]
            /\ joined' = [joined EXCEPT ![r] = lineage.by]
            /\ UNCHANGED timesRan

BeginSave(r) ==
    /\ At(r, "startTurn")
    /\ StoreWorks
    /\ turn' = Begin(r)
    /\ Lineage(r)
    /\ Goto(r, "beginDone")
    /\ UNCHANGED <<workflows, jrnl, stops, grants, sweep, heard, ends,
                   crashes>>

(* DBOS records a step's outcome only for a run still running: a run that  *)
(* was cancelled meanwhile throws a conflict, and another path ends it.    *)
BeginRecord(r) ==
    /\ At(r, "beginDone")
    /\ IF wf[r] = "PENDING"
       THEN /\ begun' = [begun EXCEPT ![r] = IF ex[r].stopped THEN "stopped" ELSE "go"]
            /\ Set(r, [Idle EXCEPT !.pc = "pass"])
       ELSE Set(r, Idle) /\ UNCHANGED begun
    /\ UNCHANGED <<wf, input, output, recoveries, stranded, jrnl, stops,
                   grants, turn, sweep, history, bounds>>

(* The head could not be read, or written: `begin` throws, and so does the *)
(* workflow.                                                               *)
BeginThrows(r) ==
    /\ \/ At(r, "begin") /\ UNCHANGED <<turn, lineages>>
       \/ /\ At(r, "startTurn")
          /\ MayHaveApplied(Begin(r))
          /\ IF turn' = turn THEN UNCHANGED lineages ELSE Lineage(r)
    /\ StoreFails
    /\ IF wf[r] = "PENDING"
       THEN begun' = [begun EXCEPT ![r] = "threw"] /\ Set(r, [Idle EXCEPT !.pc = "failing"])
       ELSE UNCHANGED begun /\ Set(r, Idle)
    /\ UNCHANGED <<wf, input, output, recoveries, stranded, jrnl, stops,
                   grants, sweep, heard, ends, crashes>>

(***************************************************************************)
(* The step `pass`                                                         *)
(***************************************************************************)

Reply(status, n, note) == [status |-> status, steps |-> n, note |-> note]

(* end(status, reply, outcome): first the head, then the journal. *)
EndWith(e, status, reply, resume) ==
    [Idle EXCEPT !.pc = "endSave", !.emits = e.emits, !.reply = reply,
                 !.out = [status |-> status, resume |-> resume]]

PassRead(r) == At(r, "pass") /\ StoreWorks

(* This pass already ended the reply and died before DBOS recorded it. *)
PassAlreadyEnded(r) ==
    /\ PassRead(r)
    /\ JournalEnded(r)
    /\ Set(r, [Idle EXCEPT !.pc = "passDone",
                 !.out = [status |-> jrnl[r][Len(jrnl[r])].status,
                          resume |-> IF turn = NoTurn THEN NoPoint ELSE ResumeOf(turn)]])
    /\ UNCHANGED <<shared, crashes>>

(* The head holds the reply's end and the journal lacks it: it is written  *)
(* outside the emitter, so a refused write makes the pass throw.           *)
EndInHead(r) == jrnl[r] # <<>> /\ OwnedBy(turn, r) /\ HasEnded(turn)
PassEndsFromHead(r) ==
    /\ PassRead(r)
    /\ ~JournalEnded(r) /\ EndInHead(r)
    /\ IF wf[r] = "PENDING"
       THEN /\ Append1(r, EndedEvent(turn.reply))
            /\ Set(r, [Idle EXCEPT !.pc = "passDone",
                         !.out = [status |-> StatusOf(turn.reply), resume |-> NoPoint]])
       ELSE UNCHANGED jrnl /\ Set(r, Idle)
    /\ UNCHANGED <<workflows, stops, grants, turn, sweep, history, crashes>>

(* Otherwise the pass has its emitter say that the run started, carries on *)
(* from the steps the head holds if the turn is its own, and asks, unless  *)
(* there is nothing to ask any more.  Whether the deadline is past is      *)
(* open.  A reply that ended before its journal had begun runs again.      *)
PassBegins(r) ==
    /\ PassRead(r)
    /\ ~JournalEnded(r) /\ ~EndInHead(r)
    /\ LET owned   == OwnedBy(turn, r)
           from    == IF owned THEN ResumeOf(turn) ELSE NoPoint
           carried == IF from = NoPoint THEN 0 ELSE from
           e       == [Idle EXCEPT !.mem = carried,
                                   !.emits = IF jrnl[r] = <<>> THEN "start" ELSE "open"]
           stop    == begun[r] = "stopped" \/ ex[r].why # "none"
           full    == turn.reply.status = "running" /\ from = NoPoint /\ turn.reply.steps > 0
           ending(status, reply) == Set(r, EndWith(e, status, reply, NoPoint))
       IN /\ rerun' = IF owned /\ HasEnded(turn) /\ wf[r] = "PENDING" THEN rerun \cup {r} ELSE rerun
          /\ IF (turn # NoTurn /\ ~owned) \/ stop
             THEN ending("stopped", Reply("aborted", carried, "plain"))
             ELSE IF full THEN ending("ran_out", Reply("done", turn.reply.steps, "ranOut"))
             ELSE \/ ending("ran_out", Reply("done", carried, "ranOut"))
                  \/ Set(r, [e EXCEPT !.pc = "running"])
    /\ UNCHANGED <<workflows, jrnl, stops, grants, turn, sweep, heard, lineages, unsaved, lostEnd,
                   crashes>>

(* RunEmitter.emit's chain comes to run-started, whatever the pass is at   *)
(* by then.                                                                *)
Emitting == {"running", "endSave", "endJournal"}
EmitStart(r) ==
    /\ ex[r].pc \in Emitting /\ ex[r].emits = "start"
    /\ \/ /\ wf[r] = "PENDING" /\ UNCHANGED faults
          /\ Append1(r, RunStarted)
          /\ Set(r, [ex[r] EXCEPT !.emits = "open"])
       \/ /\ IF wf[r] = "PENDING" THEN Fault ELSE UNCHANGED faults
          /\ Set(r, [ex[r] EXCEPT !.emits = "broken"])
          /\ UNCHANGED jrnl
    /\ UNCHANGED <<workflows, stops, grants, turn, sweep, history, crashes>>

(* The pass throws: its first reads fail.  The body's `finally` then sends *)
(* DONE, which throws a cancel instead for a run cancelled meanwhile.      *)
PassThrows(r) ==
    /\ At(r, "pass")
    /\ StoreFails
    /\ IF wf[r] = "PENDING"
       THEN output' = [output EXCEPT ![r] = Threw] /\ Set(r, [Idle EXCEPT !.pc = "failing"])
       ELSE UNCHANGED output /\ Set(r, Idle)
    /\ UNCHANGED <<wf, input, begun, recoveries, stranded, jrnl, stops,
                   grants, turn, sweep, history, crashes>>

Going(r) == At(r, "running") /\ ex[r].why = "none"

(* The model answers with step mem + 1, and a call in it. *)
AskCall(r) ==
    /\ Going(r) /\ ex[r].call = "none" /\ ex[r].mem < StepLimit
    /\ Set(r, [ex[r] EXCEPT !.mem = @ + 1, !.saved = FALSE, !.call = "asked"])
    /\ UNCHANGED <<shared, bounds>>

(* ProgressWriter.#drain writes the messages so far; its write is skipped  *)
(* once the reply ended or the turn is another run's.                      *)
SaveProgress(r) ==
    /\ At(r, "running") /\ ~ex[r].saved
    /\ StoreWorks
    /\ WritableBy(turn, r)
    /\ turn' = WithProgress(turn, ex[r].mem)
    /\ Set(r, [ex[r] EXCEPT !.saved = TRUE])
    /\ UNCHANGED <<workflows, jrnl, stops, grants, sweep, history, crashes>>

(* The write was applied and its answer lost: the call counts as unsaved. *)
SaveAnswerLost(r) ==
    /\ At(r, "running") /\ ~ex[r].saved
    /\ StoreReachable /\ Fault
    /\ WritableBy(turn, r)
    /\ turn' = WithProgress(turn, ex[r].mem)
    /\ UNCHANGED <<workflows, jrnl, stops, grants, ex, sweep, history,
                   crashes>>

(* runAfterSaved: a call runs once a save that names it has landed. *)
CallSaved(r) == ex[r].saved
RunCall(r) ==
    /\ Going(r) /\ ex[r].call = "asked" /\ CallSaved(r)
    /\ Set(r, [ex[r] EXCEPT !.call = "running"])
    /\ timesRan' = [timesRan EXCEPT ![ex[r].mem] =
                        IF joined[r] = lineage.by /\ @ < 2 THEN @ + 1 ELSE @]
    /\ UNCHANGED <<workflows, jrnl, stops, grants, turn, sweep, heard,
                   lineage, joined, ends, bounds>>

(* The step finishes with the call's result, or with the error of a call   *)
(* that waited too long for its save and was not run.                      *)
FinishStep(r) ==
    /\ Going(r)
    /\ \/ ex[r].call = "running"
       \/ ex[r].call = "asked" /\ ~ex[r].saved
    /\ Set(r, [ex[r] EXCEPT !.call = "none"])
    /\ UNCHANGED <<shared, bounds>>

(* The wall clock, or a tool's endReply, aborts the pass. *)
Abort(r, why) ==
    /\ Going(r)
    /\ why \in Happens /\ (why = "paused" => ex[r].call = "running")
    /\ Set(r, [ex[r] EXCEPT !.why = why])
    /\ UNCHANGED <<shared, bounds>>

(* What the reply kept: every step that finished. *)
Finished(r) == IF ex[r].call = "none" THEN ex[r].mem ELSE ex[r].mem - 1

(* AgentCore's outcomes.  A failed reply may be carried on unless the step *)
(* that failed had made a call.                                            *)
ReplyDone(r) ==
    /\ Going(r) /\ ex[r].call = "none"
    /\ LET ranOut == ex[r].mem + 1 >= StepLimit
       IN Set(r, EndWith(ex[r], IF ranOut THEN "ran_out" ELSE "done",
                     Reply("done", ex[r].mem, IF ranOut THEN "ranOut" ELSE "plain"), NoPoint))
    /\ UNCHANGED <<shared, bounds>>

LeavesFinished(r) == Finished(r)     \* a slip, for LeavesPoint
LeavesPoint(r) == IF ex[r].call = "none" /\ ex[r].mem < StepLimit THEN ex[r].mem ELSE NoPoint
ReplyFails(r) ==
    /\ Going(r)
    /\ Set(r, EndWith(ex[r], "error", Reply("error", Finished(r), "plain"), LeavesPoint(r)))
    /\ UNCHANGED <<shared, bounds>>

ReplyAborted(r) ==
    /\ At(r, "running") /\ ex[r].why # "none"
    /\ \/ /\ ex[r].why = "stopped"
          /\ Set(r, EndWith(ex[r], "stopped", Reply("aborted", Finished(r), "plain"), NoPoint))
       \/ /\ ex[r].why = "ran_out"
          /\ Set(r, EndWith(ex[r], "ran_out", Reply("done", Finished(r), "ranOut"), NoPoint))
       \/ /\ ex[r].why = "paused"     \* ends with the steps the head holds
          /\ LET kept == IF StoreReachable /\ turn # NoTurn /\ ~HasEnded(turn)
                         THEN turn.reply.steps ELSE Finished(r)
             IN Set(r, EndWith(ex[r], "error", Reply("error", kept, "interrupted"), NoPoint))
    /\ UNCHANGED <<shared, bounds>>

(* ProgressWriter.end: skipped where the reply has ended, or is another    *)
(* run's.                                                                  *)
EndSaved(r) == IF WritableBy(turn, r) THEN WithEnd(turn, ex[r].reply) ELSE turn
EndSave(r) ==
    /\ At(r, "endSave")
    /\ StoreWorks
    /\ turn' = EndSaved(r)
    /\ Goto(r, "endJournal")
    /\ UNCHANGED <<workflows, jrnl, stops, grants, sweep, history, crashes>>

(* Every attempt failed: the end is kept with the grant (markEndPending),  *)
(* unless that fails too, which the same outage may do.                    *)
EndSaveFails(r) ==
    /\ At(r, "endSave")
    /\ StoreFails
    /\ MayHaveApplied(EndSaved(r))
    /\ unsaved' = unsaved \cup {r}
    /\ \/ r \in grant /\ pend' = [pend EXCEPT ![r] = ex[r].reply] /\ UNCHANGED lostEnd
       \/ UNCHANGED pend /\ lostEnd' = lostEnd \cup {r}
    /\ Goto(r, "endJournal")
    /\ UNCHANGED <<workflows, jrnl, stops, grant, sweep, heard, lineages, rerun,
                   crashes>>

(* The emitter writes nothing more once a write was refused, and the pass  *)
(* ends either way.                                                        *)
EndJournal(r) ==
    /\ At(r, "endJournal") /\ ex[r].emits # "start"
    /\ IF wf[r] = "PENDING" /\ ex[r].emits = "open"
       THEN \/ /\ Append1(r, RunEnded(ex[r].out.status, ex[r].reply.steps))
               /\ UNCHANGED faults
            \/ UNCHANGED jrnl /\ Fault
       ELSE UNCHANGED <<jrnl, faults>>
    /\ Set(r, [Idle EXCEPT !.pc = "passDone", !.out = ex[r].out])
    /\ UNCHANGED <<workflows, stops, grants, turn, sweep, history, crashes>>

(* The pass is recorded; for a run no longer running that is a conflict,   *)
(* and the body's `finally` throws a cancel.                               *)
PassRecord(r) ==
    /\ At(r, "passDone")
    /\ IF wf[r] = "PENDING"
       THEN output' = [output EXCEPT ![r] = ex[r].out] /\ Set(r, [Idle EXCEPT !.pc = "send"])
       ELSE UNCHANGED output /\ Set(r, Idle)
    /\ UNCHANGED <<wf, input, begun, recoveries, stranded, jrnl, stops,
                   grants, turn, sweep, history, bounds>>

(***************************************************************************)
(* The end of the workflow                                                 *)
(***************************************************************************)

(* DBOS.send(DONE) wakes the wait for a Stop: it throws a cancel for a run *)
(* cancelled meanwhile, or fails with the database.                        *)
SendDone(r) ==
    /\ At(r, "send")
    /\ IF wf[r] = "PENDING"
       THEN \/ Goto(r, "forget") /\ UNCHANGED faults
            \/ Set(r, [Idle EXCEPT !.pc = "failing"]) /\ Fault
       ELSE Set(r, Idle) /\ UNCHANGED faults
    /\ UNCHANGED <<shared, crashes>>

ForgetUnlessEndPending(r) ==
    grant' = IF pend[r] = NoReply THEN grant \ {r} ELSE grant

(* Every forgetting may fail, which is logged and leaves the grant to      *)
(* expire.                                                                 *)
ForgetFails == Fault /\ UNCHANGED grant

Forget(r) ==
    /\ At(r, "forget")
    /\ \/ ForgetUnlessEndPending(r) /\ UNCHANGED faults
       \/ ForgetFails
    /\ Goto(r, "return")
    /\ UNCHANGED <<workflows, jrnl, stops, pend, turn, sweep, history,
                   crashes>>

Return(r) ==
    /\ At(r, "return")
    /\ wf' = [wf EXCEPT ![r] = IF @ = "PENDING" THEN "SUCCESS" ELSE @]
    /\ Set(r, Idle)
    /\ UNCHANGED <<input, begun, output, recoveries, stranded, jrnl, stops,
                   grants, turn, sweep, history, bounds>>

(* #failed: the workflow threw.  Its end is written to the head if it may, *)
(* and the grant is forgotten whether that landed or not.                  *)
Failed == [status |-> "error", steps |-> turn.reply.steps, note |-> "plain"]
FailedSave(r) ==
    /\ At(r, "failing")
    /\ \/ /\ StoreWorks
          /\ turn' = IF WritableBy(turn, r) THEN WithEnd(turn, Failed) ELSE turn
       \/ StoreFails /\ UNCHANGED turn
    /\ Goto(r, "fail")
    /\ UNCHANGED <<workflows, jrnl, stops, grants, sweep, history, crashes>>

Fail(r) ==
    /\ At(r, "fail")
    /\ \/ ForgetUnlessEndPending(r) /\ UNCHANGED faults
       \/ ForgetFails
    /\ wf' = [wf EXCEPT ![r] = IF @ = "PENDING" THEN "ERROR" ELSE @]
    /\ Set(r, Idle)
    /\ UNCHANGED <<input, begun, output, recoveries, stranded, jrnl, stops,
                   pend, turn, sweep, history, crashes>>

(***************************************************************************)
(* Crash and recovery                                                      *)
(***************************************************************************)
Crash(r) ==
    /\ ~At(r, "idle") /\ crashes < MaxCrashes
    /\ crashes' = crashes + 1
    /\ Set(r, Idle)
    /\ UNCHANGED <<shared, faults>>

(* The process comes back with the same executor id and workflow version:  *)
(* recorded steps are not run again.                                       *)
MayRecover(r) == recoveries[r] < MaxRecoveries
Recover(r) ==
    /\ wf[r] = "PENDING" /\ At(r, "idle") /\ r \notin stranded
    /\ IF MayRecover(r)
       THEN /\ recoveries' = [recoveries EXCEPT ![r] = @ + 1]
            /\ Goto(r, IF begun[r] = "none" THEN "begin"
                       ELSE IF begun[r] = "threw" \/ output[r] = Threw THEN "failing"
                       ELSE IF output[r] = NoOutput THEN "pass" ELSE "send")
            /\ UNCHANGED wf
       ELSE wf' = [wf EXCEPT ![r] = "EXCEEDED"] /\ UNCHANGED <<recoveries, ex>>
    /\ UNCHANGED <<input, begun, output, stranded, jrnl, stops, grants, turn,
                   sweep, history, bounds>>

(* The process comes back with another workflow version instead (bound:    *)
(* one upgrade).                                                           *)
Upgrade(r) ==
    /\ "upgrade" \in Happens
    /\ wf[r] = "PENDING" /\ At(r, "idle") /\ stranded = {}
    /\ stranded' = stranded \cup {r}
    /\ UNCHANGED <<wf, input, begun, output, recoveries, jrnl, stops, grants,
                   turn, ex, sweep, history, bounds>>

(***************************************************************************)
(* Ends written from outside the run                                       *)
(***************************************************************************)
Cancel(r) == wf' = [wf EXCEPT ![r] = IF @ \in Active THEN "CANCELLED" ELSE @]

(* #endTurnOnce: the end is saved where the run may still save one; `done` *)
(* when the turn, as it then stands, needs nothing more of this run, whose *)
(* grant then goes.                                                        *)
EndOnce(r, reply) == IF WritableBy(turn, r) THEN WithEnd(turn, reply) ELSE turn
ForgetGrant(r) ==
    \/ grant' = grant \ {r} /\ pend' = [pend EXCEPT ![r] = NoReply] /\ UNCHANGED faults
    \/ ForgetFails /\ UNCHANGED pend
EndTurnOnce(r, reply) ==
    /\ StoreReachable
    /\ turn' = EndOnce(r, reply)
    /\ IF turn' # NoTurn /\ (OwnedBy(turn', r) => HasEnded(turn'))
       THEN ForgetGrant(r)
       ELSE UNCHANGED <<grant, pend, faults>>
EndTurnOnceFails == StoreFails /\ UNCHANGED <<turn, grant, pend>>

(* sweepStranded: the run is cancelled, and its reply saved as interrupted. *)
SweepCancel(r) ==
    /\ r \in stranded /\ wf[r] \in Active
    /\ Cancel(r)
    /\ sweep' = sweep \cup {r}
    /\ UNCHANGED <<input, begun, output, recoveries, stranded, jrnl, stops,
                   grants, turn, ex, history, bounds>>

SweepEnd(r) ==
    /\ r \in sweep
    /\ \/ EndTurnOnce(r, Reply("error", turn.reply.steps, "interrupted"))
       \/ EndTurnOnceFails
    /\ sweep' = sweep \ {r}
    /\ UNCHANGED <<workflows, jrnl, stops, ex, history, crashes>>

(* DBOS's own timeout, past the wall clock's grace. *)
TimedOut(r) ==
    /\ "timeout" \in Happens /\ r \in StopRuns /\ wf[r] = "PENDING"
    /\ Cancel(r)
    /\ UNCHANGED <<input, begun, output, recoveries, stranded, jrnl, stops,
                   grants, turn, ex, sweep, history, bounds>>

(* #checkCancelled: a run found cancelled stops as a Stop stops it. *)
CheckCancelled(r) ==
    /\ Going(r) /\ wf[r] = "CANCELLED"
    /\ Set(r, [ex[r] EXCEPT !.why = "stopped"])
    /\ UNCHANGED <<shared, bounds>>

(* repairPendingEnds *)
Repair(r) ==
    /\ r \in grant /\ pend[r] # NoReply
    /\ StoreReachable
    /\ turn' = EndOnce(r, pend[r])
    /\ ForgetGrant(r)
    /\ UNCHANGED <<workflows, jrnl, stops, ex, sweep, history, crashes>>

(***************************************************************************)
(* Stop                                                                    *)
(***************************************************************************)

(* #signalStop, of an active run: STOP goes to its inbox and a timer that  *)
(* forces the stop is armed.                                               *)
SignalStop(r) ==
    IF wf[r] \in Active
    THEN mail' = mail \cup {r} /\ force' = [force EXCEPT ![r] = "armed"]
    ELSE UNCHANGED <<mail, force>>

Stop(r) ==
    /\ "stop" \in Happens /\ r \in StopRuns /\ wf[r] \in Active /\ r \notin mail
    /\ SignalStop(r)
    /\ UNCHANGED <<workflows, jrnl, marker, stopping, grants, turn, ex, sweep,
                   history, bounds>>

(* stopByKey leaves a marker for a start that has not arrived, and then    *)
(* stops the run if there is one.                                          *)
StopByKeyMark(r) ==
    /\ "stopByKey" \in Happens /\ r \in StopRuns \ marker
    /\ marker' = marker \cup {r}
    /\ stopping' = stopping \cup {r}
    /\ UNCHANGED <<workflows, jrnl, mail, force, grants, turn, ex, sweep,
                   history, bounds>>

StopByKeySignal(r) ==
    /\ r \in stopping
    /\ stopping' = stopping \ {r}
    /\ SignalStop(r)
    /\ UNCHANGED <<workflows, jrnl, marker, grants, turn, ex, sweep, history,
                   bounds>>

(* The run's wait for a Stop, side by side with its pass. *)
HearStop(r) ==
    /\ ex[r].pc \in {"pass", "running"} /\ ex[r].why = "none" /\ r \in mail
    /\ Set(r, [ex[r] EXCEPT !.why = "stopped"])
    /\ UNCHANGED <<shared, bounds>>

(* #forceStop, stopGraceMs later: nothing to force once the run ended, or  *)
(* journaled its end.                                                      *)
MayForce(r) == wf[r] \in Active /\ ~JournalEnded(r)
ForceCheck(r) ==
    /\ force[r] = "armed"
    /\ force' = [force EXCEPT ![r] =
                    IF MayForce(r) THEN "checked" ELSE "none"]
    /\ UNCHANGED <<workflows, jrnl, mail, marker, stopping, grants, turn, ex,
                   sweep, history, bounds>>

ForceCancel(r) ==
    /\ force[r] = "checked"
    /\ Cancel(r)
    /\ force' = [force EXCEPT ![r] = "cancelled"]
    /\ UNCHANGED <<input, begun, output, recoveries, stranded, jrnl, mail,
                   marker, stopping, grants, turn, ex, sweep, history, bounds>>

ForceEnd(r) ==
    /\ force[r] = "cancelled"
    /\ \/ EndTurnOnce(r, Reply("aborted", turn.reply.steps, "plain"))
       \/ EndTurnOnceFails
    /\ force' = [force EXCEPT ![r] = "none"]
    /\ UNCHANGED <<workflows, jrnl, mail, marker, stopping, ex, sweep,
                   history, crashes>>

(***************************************************************************)
(* The readers of the event stream                                         *)
(***************************************************************************)
(* #endFromHead: the workflow ended without journaling `run-ended`.  A     *)
(* cancel past the run's deadline reads as ran out; whether it is past is  *)
(* open.                                                                   *)
HeadEnds(r) ==
    IF wf[r] = "CANCELLED"
    THEN {Reply("done", turn.reply.steps, "ranOut"), Reply("aborted", turn.reply.steps, "plain")}
    ELSE {Failed}
StatusEnd(r) ==
    RunEnded(IF wf[r] = "CANCELLED" THEN "stopped" ELSE "error", 0)

WorkflowOver(r) == wf[r] \in Terminal
EndFromHead(r) ==
    /\ heard[r] = NoEvent /\ WorkflowOver(r) /\ ~JournalEnded(r)
    /\ \/ /\ \E reply \in HeadEnds(r) : EndTurnOnce(r, reply)
          /\ heard' = [heard EXCEPT ![r] =
                IF OwnedBy(turn', r) /\ HasEnded(turn') THEN EndedEvent(turn'.reply) ELSE StatusEnd(r)]
       \/ /\ EndTurnOnceFails
          /\ heard' = [heard EXCEPT ![r] = StatusEnd(r)]
    /\ UNCHANGED <<workflows, jrnl, stops, ex, sweep, lineages, ends,
                   crashes>>

(***************************************************************************)
(* The specification                                                       *)
(***************************************************************************)

(* What the process running r does next, when it lives. *)
Execute(r) ==
    \/ BeginRead(r) \/ BeginSave(r) \/ BeginRecord(r) \/ BeginThrows(r)
    \/ PassAlreadyEnded(r) \/ PassEndsFromHead(r) \/ PassBegins(r) \/ EmitStart(r) \/ PassThrows(r)
    \/ AskCall(r) \/ SaveProgress(r) \/ SaveAnswerLost(r) \/ RunCall(r) \/ FinishStep(r)
    \/ ReplyDone(r) \/ ReplyFails(r) \/ ReplyAborted(r)
    \/ EndSave(r) \/ EndSaveFails(r) \/ EndJournal(r) \/ PassRecord(r)
    \/ SendDone(r) \/ Forget(r) \/ Return(r) \/ FailedSave(r) \/ Fail(r)

ForceStop(r) == ForceCheck(r) \/ ForceCancel(r) \/ ForceEnd(r)

Environment(r) ==
    \/ \E kind \in Kinds : Start(r, kind)
    \/ \E why \in {"ran_out", "paused"} : Abort(r, why)
    \/ Crash(r) \/ Upgrade(r) \/ TimedOut(r) \/ Stop(r) \/ StopByKeyMark(r)

Maintain(r) == SweepCancel(r) \/ SweepEnd(r) \/ Repair(r)

Next ==
    \E r \in Runs :
        \/ Dequeue(r) \/ Execute(r) \/ Recover(r) \/ HearStop(r) \/ CheckCancelled(r)
        \/ EndFromHead(r) \/ StopByKeySignal(r) \/ ForceStop(r) \/ Maintain(r) \/ Environment(r)

Spec == Init /\ [][Next]_vars

(***************************************************************************)
(* What must hold                                                          *)
(***************************************************************************)

(* Every variable keeps its type. *)
WorkflowsOK ==
    /\ wf \in [Runs -> {"none"} \cup Active \cup Terminal]
    /\ input \in [Runs -> [kind : Kinds, asked : Runs]]
    /\ begun \in [Runs -> Begun] /\ output \in [Runs -> Outputs]
    /\ recoveries \in [Runs -> 0..MaxRecoveries] /\ stranded \subseteq Runs
JournalOK == jrnl \in [Runs -> Seq(Events)]
StopsOK ==
    /\ mail \subseteq Runs /\ marker \subseteq Runs /\ stopping \subseteq Runs
    /\ force \in [Runs -> {"none", "armed", "checked", "cancelled"}]
GrantsOK == grant \subseteq Runs /\ pend \in [Runs -> Replies \cup {NoReply}]
TurnOK == turn \in Turns \cup {NoTurn}
ExecutionsOK == ex \in [Runs -> Executions]
SweepOK == sweep \subseteq Runs
HeardOK == heard \in [Runs -> Events \cup {NoEvent}] 
    /\ unsaved \subseteq Runs /\ lostEnd \subseteq Runs /\ rerun \subseteq Runs
LineagesOK ==
    /\ timesRan \in [1..StepLimit -> 0..2]
    /\ lineage \in [by : Runs \cup {NoRun}, msg : Runs \cup {NoRun}, stale : BOOLEAN, late : BOOLEAN]
    /\ joined \in [Runs -> Runs \cup {NoRun}]
BoundsOK == crashes \in 0..MaxCrashes /\ faults \in 0..MaxFaults
TypeOK ==
    /\ WorkflowsOK /\ JournalOK /\ StopsOK /\ GrantsOK /\ TurnOK
    /\ ExecutionsOK /\ SweepOK /\ HeardOK /\ LineagesOK /\ BoundsOK

(* A run's journal holds at most one `run-ended`, as its last event: a     *)
(* pass that runs again after a crash between the journal's end and its    *)
(* own record does not end the reply twice, and says nothing after it.     *)
JournalEndsOnce ==
    \A r \in Runs : \A i \in 1..Len(jrnl[r]) : IsEnd(jrnl[r][i]) => i = Len(jrnl[r])

(* No call of a reply runs twice, however often its pass runs again and    *)
(* whichever retry carries it on ("so nothing runs twice", resumeOf).      *)
NothingRunsTwice == \A i \in 1..StepLimit : timesRan[i] < 2

(* The same where every retry carried on from the last steps there were:   *)
(* not from steps it read before an older run, cancelled and still going,  *)
(* saved more of them, nor from those an earlier run than the last failed  *)
(* one left; and where no end had to be saved later, over the steps of a   *)
(* pass that ran again, and none was run again (EndIsNotRunAgain).         *)
NoCallRunsTwice == ~lineage.stale /\ unsaved = {} /\ rerun = {} => NothingRunsTwice

(* The steps a reply carries on from answered the message its turn holds:  *)
(* an edit's reply never grows out of the old message's ("only a run that  *)
(* answered the message the turn holds now", #retryPoint).                 *)
StepsAlwaysAnswer == turn.reply.steps > 0 => lineage.msg = turn.msg

(* The same where no retry carried on from steps that the head moved on    *)
(* from since it read them: a begin under way when its run is cancelled    *)
(* lands under an edit made meanwhile.                                     *)
StepsAnswerTheMessage == ~lineage.late => StepsAlwaysAnswer

(* A stop by key that is over is not lost on the run that was starting     *)
(* meanwhile: the run read the marker, or it was sent STOP.                *)
StopByKeyIsNotLost ==
    \A r \in marker \ stopping : wf[r] \in Active /\ begun[r] = "go" => r \in mail

(* While the turn waits for run r's end, the grant that lets anyone write  *)
(* it is kept (#replyBody, repairPendingEnds), except for a run that threw *)
(* (#failed forgets the grant even if its write of the end failed), one    *)
(* whose begin took the turn after it was cancelled, and one whose end     *)
(* could neither be saved nor kept, which is forgotten all the same.       *)
ThrewAStep(r) == begun[r] = "threw" \/ output[r] = Threw
BeganLate(r) == begun[r] = "none" /\ wf[r] \in Terminal
GrantOutlivesReply ==
    \A r \in Runs : turn.owner = r /\ ~HasEnded(turn) =>
        r \in grant \/ ThrewAStep(r) \/ BeganLate(r) \/ r \in lostEnd

(* The end a run journaled is the end the head holds of it, its status and *)
(* its messages, unless the run could not save its end, or ran again with  *)
(* its end in the head (EndIsNotRunAgain).                                 *)
SameEnd(a, b) == a.status = b.status /\ a.messages = b.messages
Agrees(r) ==
    JournalEnded(r) /\ turn.owner = r /\ HasEnded(turn)
        => SameEnd(EndedEvent(turn.reply), jrnl[r][Len(jrnl[r])])
HeadAgreesWithJournal == \A r \in Runs \ (unsaved \cup rerun) : Agrees(r)

(* The same of every run that saved its end: a pass that ended the reply   *)
(* and died is not run again (#pass).  It is, if run-started was not yet   *)
(* written or was refused, for only a journal that began has the head's    *)
(* end looked at.                                                          *)
EndIsNotRunAgain == \A r \in Runs \ unsaved : Agrees(r)

(* A reply that ended is replaced only by a later run of the turn that     *)
(* begins, or by a begin that was under way when its run was cancelled.    *)
Begins(r) == ex[r].pc = "startTurn" /\ turn'.owner = r
Later(r) == r >= turn.owner \/ wf[r] \in Terminal
EndedReplyStays ==
    [][HasEnded(turn) /\ turn' # turn => \E r \in Runs : Begins(r) /\ Later(r)]_vars

(* A run that another took the turn over from writes nothing to it, by its *)
(* pass, its forced stop, its sweep, its reader or its kept end.           *)
ActsFor(r) ==
    \/ ex'[r] # ex[r] \/ force'[r] # force[r] \/ heard'[r] # heard[r]
    \/ pend'[r] # pend[r] \/ r \in sweep \ sweep'
OnlyTheOwnerWrites ==
    [][\A r \in Runs : ActsFor(r) /\ turn' # turn => turn.owner = r \/ Begins(r)]_vars

(* The latest run started for the turn owns it: HeadTurn's `runId`.  An    *)
(* older run never takes the turn back.                                    *)
OwnerAdvances == [][turn'.owner >= turn.owner]_vars

(* Whatever happens to a run, its grant outlives the reply it must end:    *)
(* "the grant goes when the run's end is in the head" (GrantStore).        *)
GrantGoesWithTheEnd ==
    \A r \in Runs : turn.owner = r /\ ~HasEnded(turn) => r \in grant

(***************************************************************************)
(* Liveness.  The timers of a stop and of the maintenance fire, and a      *)
(* client that waits reads its stream to the end, in processes that live.  *)
(* Nothing else has to happen: no start, no Stop, no fault, and a process  *)
(* that runs replies may hang for ever.                                    *)
(***************************************************************************)
Outside(r) ==
    /\ WF_vars(EndFromHead(r)) /\ WF_vars(StopByKeySignal(r))
    /\ WF_vars(ForceStop(r)) /\ WF_vars(Maintain(r))
FairSpec == Spec /\ \A r \in Runs : Outside(r)

(* What the processes that run replies do when none hangs: they take runs  *)
(* from the queue, go on with them, and come back after a crash (DBOS's    *)
(* executor, and its recovery at launch).                                  *)
ProcessesGoOn ==
    \A r \in Runs : WF_vars(Dequeue(r)) /\ WF_vars(Execute(r)) /\ WF_vars(Recover(r))

Answered(r) == JournalEnded(r) \/ heard[r] # NoEvent

(* A Stop is answered even when the process that runs the reply hangs.     *)
StopIsAnswered == \A r \in Runs : r \in mail ~> Answered(r)

(* Every reply that starts is told to have ended, by its journal or from   *)
(* the head, where no process hangs.                                       *)
EveryRunIsAnswered == ProcessesGoOn => \A r \in Runs : wf[r] = "ENQUEUED" ~> Answered(r)

(* Every reply the head shows unfinished ends there, or a later run takes  *)
(* it over: an end kept for repair lands, a cancelled run's is written     *)
(* (unless the one attempt of the path that cut it off fails, or an end    *)
(* could not even be kept).                                                *)
CutOff(r) == wf[r] \in {"CANCELLED", "EXCEEDED"}
EveryReplyEnds ==
    ProcessesGoOn => \A r \in Runs : turn.owner = r ~>
        \/ HasEnded(turn) \/ turn.owner # r
        \/ ThrewAStep(r) \/ BeganLate(r) \/ r \in lostEnd
        \/ CutOff(r) /\ faults > 0
=============================================================================
