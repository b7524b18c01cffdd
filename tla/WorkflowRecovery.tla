-------------------------- MODULE WorkflowRecovery --------------------------
(***************************************************************************)
(* The paid workflows under a reply's steps (workflowRecoveryFetch,        *)
(* workflow-recovery.ts).  Each chat completion is a workflow of the       *)
(* orchestrator, billed once it starts.  A step whose stream the network   *)
(* cut is asked for again: the cut workflow is waited for and its answer   *)
(* kept, or it is cancelled, before another one is posted; a Stop cancels  *)
(* it too.                                                                 *)
(*                                                                         *)
(* An asker sends one step's request, again after each cut, under its own  *)
(* abort signal: a reply, its Retry, or two subagents given one task, side *)
(* by side.  Requests with the same body are one step.                     *)
(***************************************************************************)
EXTENDS Integers, Sequences, FiniteSets, SequencesExt

CONSTANTS
    Askers, Steps,
    KeepMax,        \* KEEP_MAX
    MaxWorkflows,   \* bound: workflows posted
    MaxFaults       \* bound: cancels lost, reads refused, answers that name no workflow, entries expired

ASSUME RecoveryAssumption ==
    /\ Askers # {} /\ Steps # {}
    /\ KeepMax \in Nat \ {0} /\ MaxWorkflows \in Nat /\ MaxFaults \in Nat

Workflows == 1..MaxWorkflows
None == 0
Live == {"live"}            \* LIVE

VARIABLES
    asker,    \* each asker: where it is, its step, the workflow it has to do with, its signal,
              \* and whether RECOVERY_WAIT_MS is over for the recovery it is in
    wf,       \* each workflow, its step and who posted it
    cut,      \* the cut workflows kept for the step asked for again, oldest first
    hears,    \* <<asker, workflow>>: the abort listener a cut leaves on the asker's signal
    cancels,  \* cancels on their way
    (* what happened, for the properties                                   *)
    excused,  \* workflows lost to a fault, to KEEP_MS or KEEP_MAX, or to the same step cut again
    taken,    \* workflows another asker than the one that posted them recovered
    unnamed,  \* workflows whose POST was stopped before its answer named them
    answers,  \* how many askers were given each workflow's answer
    faults

vars == <<asker, wf, cut, hears, cancels, excused, taken, unnamed, answers, faults>>

NoWorkflow == [st |-> "none", step |-> CHOOSE s \in Steps : TRUE, by |-> CHOOSE a \in Askers : TRUE]

Init ==
    /\ asker \in [Askers -> [pc : {"idle"}, step : Steps, id : {None}, aborted : {FALSE},
                              late : {FALSE}]]
    /\ wf = [w \in Workflows |-> NoWorkflow]
    /\ cut = <<>> /\ hears = {} /\ cancels = {}
    /\ excused = {} /\ taken = {} /\ unnamed = {} /\ faults = 0
    /\ answers = [w \in Workflows |-> 0]

At(a, pc) == asker[a].pc = pc
Id(a) == asker[a].id
Goto(a, pc) ==
    asker' = [asker EXCEPT ![a].pc = pc,
                           ![a].id = IF pc \in {"over", "waiting"} THEN None ELSE @,
                           ![a].late = @ /\ pc \in {"reading", "pausing"}]
IsLive(w) == wf[w].st \in Live
Fault == faults < MaxFaults /\ faults' = faults + 1
EntriesOf(entries, step) == {c \in ToSet(entries) : c.step = step}
(* Map.delete: a step has one entry at most.                               *)
Without(entries, step) ==
    LET at == {i \in 1..Len(entries) : entries[i].step = step}
    IN IF at = {} THEN entries ELSE RemoveAt(entries, CHOOSE i \in at : TRUE)
Holds(a, w) ==
    Id(a) = w /\ asker[a].pc \in {"reading", "pausing", "cancelling", "posted", "streaming"}

(***************************************************************************)
(* Plausible slips in the code, each for the definition it is named for.   *)
(* The specification uses none of them: put in that definition's place,    *)
(* each breaks the property it is there for.                               *)
(***************************************************************************)
PostsAtOnce(a) == "posting"                              \* for AfterDeadline
LeavesEntry(step) == cut                                 \* for Take
ListensNever(a, w) == {}                                 \* for ListensTo
ForgetsOnFailure(step, w) == cut                         \* for Remember
WaitsForGood(a) == FALSE                                 \* for Deadline

(* remember: the newest entry of the step, and the newest KEEP_MAX of all. *)
Remember(step, w) ==
    LET kept == Append(Without(cut, step), [step |-> step, id |-> w])
    IN IF Len(kept) > KeepMax THEN Tail(kept) ELSE kept

Dropped(step, w) == {c.id : c \in ToSet(cut) \ ToSet(Remember(step, w))} \ {w}

(* Asked for the first time, or again: a cut workflow of the step is taken *)
(* to be recovered; one kept for longer than KEEP_MS is not.               *)
Take(step) == Without(cut, step)

Ask(a) ==
    LET step == asker[a].step
        earlier == EntriesOf(cut, step)
    IN /\ asker[a].pc \in {"idle", "waiting"} /\ ~asker[a].aborted
       /\ \/ \E c \in earlier :
               /\ cut' = Take(step)
               /\ asker' = [asker EXCEPT ![a].pc = "reading", ![a].id = c.id]
               /\ taken' = IF wf[c.id].by # a THEN taken \cup {c.id} ELSE taken
               /\ UNCHANGED <<excused, faults>>
          \/ /\ earlier = {}
             /\ asker' = [asker EXCEPT ![a].pc = "posting", ![a].id = None]
             /\ UNCHANGED <<cut, taken, excused, faults>>
          \/ /\ earlier # {} /\ Fault
             /\ asker' = [asker EXCEPT ![a].pc = "posting", ![a].id = None]
             /\ excused' = excused \cup {c.id : c \in earlier}
             /\ UNCHANGED <<cut, taken>>
       /\ UNCHANGED <<wf, hears, cancels, unnamed, answers>>

(* recover: the read finds the answer, which may be beyond rebuilding, or  *)
(* a workflow that is over.                                                *)
ReadOver(a) ==
    /\ At(a, "reading")
    /\ \/ /\ wf[Id(a)].st = "succeeded"
          /\ Goto(a, "over")
          /\ answers' = [answers EXCEPT ![Id(a)] = @ + 1]
       \/ ~IsLive(Id(a)) /\ Goto(a, "posting") /\ UNCHANGED answers
    /\ UNCHANGED <<wf, cut, hears, cancels, excused, taken, unnamed, faults>>

(* The read is refused: nothing known to rebuild or cancel.                *)
ReadRefused(a) ==
    /\ At(a, "reading") /\ Fault
    /\ Goto(a, "posting")
    /\ excused' = excused \cup {Id(a)}
    /\ UNCHANGED <<wf, cut, hears, cancels, taken, unnamed, answers>>

(* The read does not get through: kept for the next time, or, stopped,     *)
(* cancelled.                                                              *)
ReadFails(a) ==
    /\ At(a, "reading")
    /\ IF asker[a].aborted
       THEN /\ Goto(a, "over")
            /\ cancels' = cancels \cup {Id(a)}
            /\ UNCHANGED <<cut, excused>>
       ELSE /\ Goto(a, "waiting")
            /\ cut' = Remember(asker[a].step, Id(a))
            /\ excused' = excused \cup Dropped(asker[a].step, Id(a))
            /\ UNCHANGED cancels
    /\ UNCHANGED <<wf, hears, taken, unnamed, answers, faults>>

(* RECOVERY_WAIT_MS passes; recover looks at it only after a read.         *)
TimeIsUp(a) ==
    /\ asker[a].pc \in {"reading", "pausing"} /\ ~asker[a].late
    /\ asker' = [asker EXCEPT ![a].late = TRUE]
    /\ UNCHANGED <<wf, cut, hears, cancels, excused, taken, unnamed, answers, faults>>

(* The read finds it running: read again after a pause, or, when it        *)
(* outlived the wait, cancelled before the step is asked for again.        *)
Deadline(a) == asker[a].late
AfterDeadline(a) == "cancelling"

ReadLive(a) ==
    /\ At(a, "reading") /\ IsLive(Id(a))
    /\ IF Deadline(a)
       THEN Goto(a, AfterDeadline(a)) /\ cancels' = cancels \cup {Id(a)}
       ELSE Goto(a, "pausing") /\ UNCHANGED cancels
    /\ UNCHANGED <<wf, cut, hears, excused, taken, unnamed, answers, faults>>

PauseEnds(a) ==
    /\ At(a, "pausing")
    /\ IF asker[a].aborted
       THEN Goto(a, "over") /\ cancels' = cancels \cup {Id(a)}
       ELSE Goto(a, "reading") /\ UNCHANGED cancels
    /\ UNCHANGED <<wf, cut, hears, excused, taken, unnamed, answers, faults>>

CancelReturns(a) ==
    /\ At(a, "cancelling") /\ Id(a) \notin cancels
    /\ Goto(a, "posting")
    /\ UNCHANGED <<wf, cut, hears, cancels, excused, taken, unnamed, answers, faults>>

(* The POST: a workflow starts, which the asker cannot name yet.           *)
Post(a) ==
    \E w \in Workflows :
        /\ At(a, "posting") /\ ~asker[a].aborted
        /\ wf[w].st = "none" /\ \A v \in 1..(w - 1) : wf[v].st # "none"
        /\ wf' = [wf EXCEPT ![w] = [st |-> "live", step |-> asker[a].step, by |-> a]]
        /\ asker' = [asker EXCEPT ![a].pc = "posted", ![a].id = w]
        /\ UNCHANGED <<cut, hears, cancels, excused, taken, unnamed, answers, faults>>

(* Its answer names the workflow, or names none, or is cut off before it.  *)
Headers(a) ==
    /\ At(a, "posted")
    /\ \/ Goto(a, "streaming") /\ UNCHANGED <<excused, faults>>
       \/ Goto(a, "waiting") /\ excused' = excused \cup {Id(a)} /\ Fault
    /\ UNCHANGED <<wf, cut, hears, cancels, taken, unnamed, answers>>

(* track: the answer came to its end.                                      *)
StreamEnds(a) ==
    /\ At(a, "streaming") /\ ~IsLive(Id(a))
    /\ Goto(a, "over")
    /\ answers' = IF wf[Id(a)].st = "succeeded" THEN [answers EXCEPT ![Id(a)] = @ + 1] ELSE answers
    /\ UNCHANGED <<wf, cut, hears, cancels, excused, taken, unnamed, faults>>

ListensTo(a, w) == {<<a, w>>}

(* The network cut it: dropped().                                          *)
StreamCut(a) ==
    /\ At(a, "streaming")
    /\ Goto(a, "waiting")
    /\ cut' = Remember(asker[a].step, Id(a))
    /\ excused' = excused \cup Dropped(asker[a].step, Id(a))
    /\ hears' = hears \cup ListensTo(a, Id(a))
    /\ UNCHANGED <<wf, cancels, taken, unnamed, answers, faults>>

(* The retries ran out: a cut workflow is left to finish.                  *)
GivesUp(a) ==
    /\ At(a, "waiting")
    /\ Goto(a, "over")
    /\ UNCHANGED <<wf, cut, hears, cancels, excused, taken, unnamed, answers, faults>>

(* The viewer's Stop: abandoned(), the listeners its cuts left, and the    *)
(* POST that has no answer yet: its workflow goes on, and has no name.     *)
Stopped(a) == IF asker[a].pc \in {"posted", "streaming", "waiting"} THEN "over" ELSE asker[a].pc
Abort(a) ==
    LET kept == {c \in ToSet(cut) : c.step = asker[a].step /\ <<a, c.id>> \in hears}
        at(pc) == IF At(a, pc) THEN {Id(a)} ELSE {}
    IN /\ asker[a].pc \notin {"idle", "over"} /\ ~asker[a].aborted
       /\ asker' = [asker EXCEPT ![a].aborted = TRUE, ![a].pc = Stopped(a),
                                 ![a].id = IF Stopped(a) = "over" THEN None ELSE @]
       /\ cut' = IF kept # {} THEN Without(cut, asker[a].step) ELSE cut
       /\ cancels' = cancels \cup {c.id : c \in kept} \cup at("streaming")
       /\ unnamed' = unnamed \cup at("posted")
       /\ hears' = {h \in hears : h[1] # a}
       /\ UNCHANGED <<wf, excused, taken, answers, faults>>

(* A POST under an aborted signal is not made.                             *)
PostAborted(a) ==
    /\ At(a, "posting") /\ asker[a].aborted
    /\ Goto(a, "over")
    /\ UNCHANGED <<wf, cut, hears, cancels, excused, taken, unnamed, answers, faults>>

(* The orchestrator.                                                       *)
Finish(w) ==
    \E st \in {"succeeded", "ended"} :
        /\ IsLive(w)
        /\ wf' = [wf EXCEPT ![w].st = st]
        /\ UNCHANGED <<asker, cut, hears, cancels, excused, taken, unnamed, answers, faults>>

TakeCancel(w) ==
    /\ w \in cancels
    /\ cancels' = cancels \ {w}
    /\ \/ wf' = [wf EXCEPT ![w].st = IF IsLive(w) THEN "ended" ELSE @] /\ UNCHANGED <<excused, faults>>
       \/ Fault /\ excused' = excused \cup {w} /\ UNCHANGED wf
    /\ UNCHANGED <<asker, cut, hears, taken, unnamed, answers>>

Recover(a) ==
    \/ ReadOver(a) \/ ReadLive(a) \/ ReadRefused(a) \/ ReadFails(a)
    \/ TimeIsUp(a) \/ PauseEnds(a) \/ CancelReturns(a)

Next ==
    \/ \E a \in Askers : Ask(a) \/ Recover(a) \/ Post(a) \/ Headers(a) \/ StreamEnds(a)
                         \/ StreamCut(a) \/ GivesUp(a) \/ Abort(a) \/ PostAborted(a)
    \/ \E w \in Workflows : Finish(w) \/ TakeCancel(w)

Spec == Init /\ [][Next]_vars

(* Timers fire.  Nothing is sure of a read, a cancel, a stream or a        *)
(* workflow: none has a timeout of its own.                                *)
Fairness ==
    \A a \in Askers : WF_vars(TimeIsUp(a)) /\ WF_vars(PauseEnds(a)) /\ WF_vars(CancelReturns(a))

(* The network's part, which the code has to rely on.                      *)
CallsComeBack ==
    /\ \A a \in Askers : WF_vars(ReadOver(a) \/ ReadLive(a))
    /\ \A w \in Workflows : WF_vars(TakeCancel(w))

FairSpec == Spec /\ Fairness
-----------------------------------------------------------------------------
(* A step that is asked for again does not run beside the workflow it was  *)
(* cut off from (workflow-recovery.ts:140), faults of the reads and        *)
(* cancels aside.                                                          *)
NeverTwoAtOnce ==
    \A a \in Askers : At(a, "posting") /\ Id(a) # None => ~IsLive(Id(a)) \/ Id(a) \in excused

(* Whoever asks again, one request gets a workflow's answer: the tools it  *)
(* calls run once for it.                                                  *)
AnsweredOnce == \A w \in Workflows : answers[w] <= 1

(* A running workflow is posted or read, or kept to be read, or being      *)
(* cancelled: but for one stopped before its POST's answer named it, the   *)
(* viewer pays for none that nothing knows of.                             *)
NoneIsLost ==
    \A w \in Workflows : IsLive(w) =>
        \/ w \in excused \cup cancels \cup unnamed
        \/ \E c \in ToSet(cut) : c.id = w
        \/ \E a \in Askers : Holds(a, w)

(* Once its asker was stopped, a workflow it posted is cancelled, before   *)
(* or after a cut, unless another asker of the step took it over, or the   *)
(* POST's answer had not named it yet.                                     *)
Abandoned(w) == IsLive(w) /\ asker[wf[w].by].aborted /\ asker[wf[w].by].pc = "over"
StoppedIsCancelled ==
    \A w \in Workflows : Abandoned(w) => w \in cancels \cup excused \cup taken \cup unnamed

(* The same with no exception for the POST that has no answer yet: "a      *)
(* request given up on while its answer was still coming (the viewer's     *)
(* Stop) cancels its workflow too".                                        *)
EveryStoppedIsCancelled ==
    \A w \in Workflows : Abandoned(w) => w \in cancels \cup excused \cup taken

(* A step asked for again does not wait for its workflow for good          *)
(* (RECOVERY_WAIT_MS), however long that one runs, as long as its reads    *)
(* and its cancel come back.                                               *)
Recovering(a) == asker[a].pc \in {"reading", "pausing", "cancelling"}
RecoveryEnds == CallsComeBack => \A a \in Askers : Recovering(a) ~> ~Recovering(a)
=============================================================================
