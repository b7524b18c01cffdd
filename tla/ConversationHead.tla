-------------------------- MODULE ConversationHead --------------------------
(***************************************************************************)
(* The conversation head's edits of one turn, as the runner makes them     *)
(* (packages/civitai-agent-runner/src/head.ts).  Every operator is pure:   *)
(* the head is read and replaced atomically by ConversationStore.update,   *)
(* so a module that uses these applies one of them in one step.            *)
(*                                                                         *)
(* A reply's messages are abstracted to the number of its steps: step i    *)
(* makes tool call i, and a reply of n steps names calls 1..n.  A user     *)
(* message is named by the run that brought it.                            *)
(***************************************************************************)
EXTENDS Integers

CONSTANTS
    NumRuns,    \* the runs started for the turn, 1 the first
    StepLimit   \* stepLimit(): the most steps a reply may take

ASSUME ConstantsAssumption == NumRuns \in Nat \ {0} /\ StepLimit \in Nat \ {0}

Runs == 1..NumRuns
NoRun == 0                      \* no recorded owner; no message
Counts == 0..StepLimit          \* the steps in some messages
NoPoint == -1                   \* `undefined` where a ResumePoint may stand
Points == Counts \cup {NoPoint}

EndStatuses == {"done", "error", "aborted"}
Notes == {"plain", "ranOut", "interrupted"}   \* what else an EndedReply says

Replies == [status : EndStatuses, steps : Counts, note : Notes]
NoReply == [status |-> "none", steps |-> 0, note |-> "plain"]

(* The turn as the head saves it; "none" is a turn with no saved reply.    *)
Turns == [owner : Runs \cup {NoRun}, msg : Runs,
          reply : [status : {"none", "running"}, steps : Counts, note : {"plain"}]
                  \cup Replies]
NoTurn == [owner |-> NoRun, msg |-> NoRun, reply |-> NoReply]

HasEnded(t) == t.reply.status \in EndStatuses

OwnedBy(t, r) == t # NoTurn /\ t.owner \in {NoRun, r}

(* Slips a write's guard could have (the specification uses neither).      *)
WritableByOwner(t, r) == OwnedBy(t, r)
WritableWhileRunning(t, r) == t # NoTurn /\ ~HasEnded(t)

WritableBy(t, r) == OwnedBy(t, r) /\ ~HasEnded(t)

(* A reply of `steps` steps saved running: WithProgress's, or a carried one *)
RunningReply(n) == [status |-> "running", steps |-> n, note |-> "plain"]

(* A slip startTurn could have: the saved message kept where there is none. *)
KeepsSavedMessage(t, r, asked, edit, from) ==
    [owner |-> r, msg |-> IF edit THEN asked ELSE t.msg,
     reply |-> IF from = NoPoint THEN NoReply ELSE RunningReply(from)]

(* startTurn drops the saved reply, unless the run carries on from steps.  *)
StartTurn(t, r, asked, edit, from) ==
    [owner |-> r,
     msg   |-> IF edit \/ t = NoTurn THEN asked ELSE t.msg,
     reply |-> IF from = NoPoint THEN NoReply ELSE RunningReply(from)]

WithProgress(t, n) == [t EXCEPT !.reply = RunningReply(n)]

WithEnd(t, reply) == [t EXCEPT !.reply = reply]

(* Where a reply saved `running` carries on from: no step, or none left to *)
(* take, is no resume point.                                               *)
ResumeOf(t) ==
    IF t.reply.status = "running" /\ t.reply.steps \in 1..(StepLimit - 1)
    THEN t.reply.steps ELSE NoPoint

InterruptedResume(t) ==
    IF t.reply.status = "error" /\ t.reply.note = "interrupted" /\ t.reply.steps > 0
    THEN t.reply.steps ELSE NoPoint

(* Whether a start may reply to the turn: the next one, or the latest again *)
AcceptsTurn(t, retry, edit) == retry \/ edit \/ t = NoTurn

(* The `run-ended` event of a reply: how it ended and the messages it kept. *)
(* The number of steps told with them, which a step cut short counts in,   *)
(* is left out: the runner does not act on it.                             *)
EventStatuses == {"done", "ran_out", "stopped", "error"}
Events == [type : {"run-started"}, status : {"none"}, messages : {0}]
          \cup [type : {"run-ended"}, status : EventStatuses, messages : Counts]
RunStarted == [type |-> "run-started", status |-> "none", messages |-> 0]
RunEnded(status, messages) == [type |-> "run-ended", status |-> status, messages |-> messages]
StatusOf(reply) ==
    IF reply.status = "done" THEN IF reply.note = "ranOut" THEN "ran_out" ELSE "done"
    ELSE IF reply.status = "aborted" THEN "stopped" ELSE "error"
EndedEvent(reply) == RunEnded(StatusOf(reply), reply.steps)
IsEnd(e) == e.type = "run-ended"
=============================================================================
