------------------------------ MODULE RunStart ------------------------------
(***************************************************************************)
(* How the runner takes a start (Runner.start, runner.ts): calls of start  *)
(* side by side, several of them with one idempotency key, as a page that  *)
(* got no answer asks again, or two tabs of one user ask at once.          *)
(*                                                                         *)
(* One user and one turn of one conversation.  A run is named by its key   *)
(* (runIdFor), a message by the run that brought it, and what becomes of   *)
(* an enqueued run (module Runner) is only its begin, its end and the      *)
(* fate of its grant and its queue slot.                                   *)
(***************************************************************************)
EXTENDS ConversationHead

CONSTANTS
    NumCalls,   \* bound: the calls of start
    MaxTries,   \* ENQUEUE_ATTEMPTS
    MaxFaults   \* bound: how many reads, writes or enqueues fail

ASSUME StartAssumption == NumCalls \in Nat /\ MaxTries \in Nat /\ MaxFaults \in Nat

Calls == 1..NumCalls
Kinds == {"new", "retry", "edit"}
Active == {"ENQUEUED", "PENDING"}
Refusals == {"run-active", "stale-turn"}
Answers == Refusals \cup {"none", "ok", "threw"}
Pcs == {"idle", "existing", "saveRetried", "live", "saveGrant", "load", "enqueue",
        "dupExisting", "dupLive", "forget", "delete", "done"}

VARIABLES
    call,     \* each call: where it is, its key, the turn it read, its tries, its answer
    request,  \* what the start with each key asks: the same in each call with that key
    wf,       \* each run's workflow: "none", ENQUEUED, PENDING or "over"
    beginning, \* runs whose step begin is on its way to the head
    ended,    \* runs that journaled their end, or whose workflow is over
    grant,    \* runs whose grant is kept
    turn,     \* the turn in the conversation head
    (* what happened, for the properties                                   *)
    raced,    \* runs a call took back the grant of while another call was starting them
    left,     \* runs that were never made, whose grant a call that threw left behind
    moved,    \* runs whose turn changed after their call read it, before they took it
    forgot,   \* runs whose own end took their grant
    faults    \* how much of MaxFaults is used

run == <<wf, beginning, ended, forgot>>
ghosts == <<raced, left, moved>>
vars == <<call, request, run, grant, turn, ghosts, faults>>

NoRequest == [kind |-> "new", msg |-> NoRun]
NoCall == [pc |-> "idle", key |-> NoRun, head |-> NoTurn, tries |-> 0, answer |-> "none"]

Init ==
    /\ call = [c \in Calls |-> NoCall]
    /\ request = [k \in Runs |-> NoRequest]
    /\ wf = [k \in Runs |-> "none"]
    /\ beginning = {} /\ ended = {} /\ forgot = {} /\ grant = {}
    /\ raced = {} /\ left = {} /\ moved = {}
    /\ turn = NoTurn
    /\ faults = 0

At(c, pc) == call[c].pc = pc
Key(c) == call[c].key
Asks(c) == request[call[c].key]
Goto(c, pc) == call' = [call EXCEPT ![c].pc = pc]
Leave(c, pc, answer) ==
    call' = [call EXCEPT ![c] = [NoCall EXCEPT !.pc = pc, !.key = call[c].key, !.answer = answer]]
Answer(c, answer) == Leave(c, "done", answer)

(***************************************************************************)
(* Plausible slips in the code, each for the definition it is named for.   *)
(* The specification uses none of them: put in that definition's place,    *)
(* each breaks the property it is there for.                               *)
(***************************************************************************)
NeverRan(k) == FALSE                       \* for Exists
TriesForEver(c) == TRUE                    \* for MayTryAgain
AnswersAtOnce(c, answer) == Answer(c, answer)                      \* for Refuse
TakesAnyMessage(c) == AcceptsTurn(turn, Asks(c).kind = "retry", Asks(c).kind = "edit")
                                           \* for Accepts

(* #existingStart: the run of this key exists, whatever became of it.      *)
Exists(k) == wf[k] # "none"

(* #liveRun: an active run of the user that has not journaled its end.     *)
LiveRuns == {k \in Runs : wf[k] \in Active} \ ended

Fault == faults < MaxFaults /\ faults' = faults + 1

(***************************************************************************)
(* The calls                                                               *)
(***************************************************************************)

(* A call arrives with a new key, or with one asked with before.  A retry  *)
(* carries the message the page shows: the head's, or one edited only there. *)
Arrive(c, k, kind, msg) ==
    /\ At(c, "idle") /\ \A d \in Calls : d < c => ~At(d, "idle")
    /\ \A j \in Runs : j < k => request[j] # NoRequest
    /\ IF request[k] # NoRequest
       THEN request[k] = [kind |-> kind, msg |-> msg] /\ UNCHANGED request
       ELSE /\ msg = k \/ (kind = "retry" /\ turn # NoTurn /\ msg = turn.msg)
            /\ request' = [request EXCEPT ![k] = [kind |-> kind, msg |-> msg]]
    /\ call' = [call EXCEPT ![c].pc = "existing", ![c].key = k]
    /\ UNCHANGED <<run, grant, turn, ghosts, faults>>

CheckExisting(c) ==
    /\ At(c, "existing")
    /\ Goto(c, IF Exists(Key(c)) THEN "saveRetried" ELSE "live")
    /\ UNCHANGED <<request, run, grant, turn, ghosts, faults>>

(* A retried start: its grant is as good as the first one's.  A write may  *)
(* throw although it took effect.                                          *)
SaveRetried(c) ==
    /\ At(c, "saveRetried")
    /\ grant' = grant \cup {Key(c)}
    /\ \/ Answer(c, "ok") /\ UNCHANGED faults
       \/ Answer(c, "threw") /\ Fault
    /\ UNCHANGED <<request, run, turn, ghosts>>

CheckLive(c) ==
    /\ At(c, "live")
    /\ IF LiveRuns # {} THEN Answer(c, "run-active") ELSE Goto(c, "saveGrant")
    /\ UNCHANGED <<request, run, grant, turn, ghosts, faults>>

SaveGrant(c) ==
    /\ At(c, "saveGrant")
    /\ grant' = grant \cup {Key(c)}
    /\ \/ Goto(c, "load") /\ UNCHANGED <<left, faults>>
       \/ Answer(c, "threw") /\ left' = left \cup {Key(c)} /\ Fault
    /\ UNCHANGED <<request, run, turn, raced, moved>>

(* A start that runs nothing takes its grant back before it answers.       *)
Refuse(c, answer) == Leave(c, "forget", answer)

(* A retry must carry the message the head holds.                          *)
Accepts(c) ==
    /\ AcceptsTurn(turn, Asks(c).kind = "retry", Asks(c).kind = "edit")
    /\ Asks(c).kind = "retry" /\ turn # NoTurn => Asks(c).msg = turn.msg

Load(c) ==
    /\ At(c, "load")
    /\ IF Accepts(c)
       THEN call' = [call EXCEPT ![c].pc = "enqueue", ![c].head = turn]
       ELSE Refuse(c, "stale-turn")
    /\ UNCHANGED <<request, run, grant, turn, ghosts, faults>>

LoadFails(c) ==
    /\ At(c, "load") /\ Fault
    /\ Refuse(c, "threw")
    /\ UNCHANGED <<request, run, grant, turn, ghosts>>

(* DBOS takes one queued or running reply of a user; a workflow that       *)
(* exists already is not enqueued again.                                   *)
SlotFree == \A k \in Runs : wf[k] \notin Active
Deleting(k) == \E d \in Calls : At(d, "delete") /\ Key(d) = k
Enqueued(c) ==
    /\ wf' = [wf EXCEPT ![Key(c)] = "ENQUEUED"]
    /\ raced' = IF Deleting(Key(c)) THEN raced \cup {Key(c)} ELSE raced
    /\ moved' = IF call[c].head # turn THEN moved \cup {Key(c)} ELSE moved
    /\ UNCHANGED <<beginning, ended, forgot, left>>
NotEnqueued == UNCHANGED <<run, ghosts>>

Enqueue(c) ==
    /\ At(c, "enqueue")
    /\ \/ ~Exists(Key(c)) /\ SlotFree /\ Enqueued(c) /\ Answer(c, "ok")
       \/ Exists(Key(c)) /\ NotEnqueued /\ Answer(c, "ok")
       \/ ~SlotFree /\ NotEnqueued /\ Goto(c, "dupExisting")
    /\ UNCHANGED <<request, grant, turn, faults>>

(* It fails in some other way, perhaps after the run was enqueued.         *)
EnqueueFails(c) ==
    /\ At(c, "enqueue") /\ Fault
    /\ \/ NotEnqueued
       \/ ~Exists(Key(c)) /\ SlotFree /\ Enqueued(c)
    /\ Refuse(c, "threw")
    /\ UNCHANGED <<request, grant, turn>>

(* The user has a run already: this start's own, one that lives, or one    *)
(* that is finishing, whose slot frees in a moment.                        *)
DupExisting(c) ==
    /\ At(c, "dupExisting")
    /\ IF Exists(Key(c)) THEN Answer(c, "ok") ELSE Goto(c, "dupLive")
    /\ UNCHANGED <<request, run, grant, turn, ghosts, faults>>

MayTryAgain(c) == call[c].tries < MaxTries
DupLive(c) ==
    /\ At(c, "dupLive")
    /\ IF LiveRuns = {} /\ MayTryAgain(c)
       THEN call' = [call EXCEPT ![c].pc = "enqueue",
                                 ![c].tries = IF @ < MaxTries THEN @ + 1 ELSE @]
       ELSE Refuse(c, "run-active")
    /\ UNCHANGED <<request, run, grant, turn, ghosts, faults>>

(* forget: unless the same start racing it made the run. *)
Forget(c) ==
    /\ At(c, "forget")
    /\ Goto(c, IF Exists(Key(c)) THEN "done" ELSE "delete")
    /\ UNCHANGED <<request, run, grant, turn, ghosts, faults>>

Starting(k) ==
    \E d \in Calls : Key(d) = k /\ call[d].pc \in {"load", "enqueue", "dupExisting", "dupLive"}
Delete(c) ==
    /\ At(c, "delete")
    /\ grant' = grant \ {Key(c)} /\ left' = left \ {Key(c)}
    /\ raced' = IF Starting(Key(c)) THEN raced \cup {Key(c)} ELSE raced
    /\ \/ Goto(c, "done") /\ UNCHANGED faults
       \/ Answer(c, "threw") /\ Fault
    /\ UNCHANGED <<request, run, turn, moved>>

(* The call throws where it stands, as what it asks of the database fails  *)
(* or its process dies: nothing takes back a grant it saved, and a forget  *)
(* that fails is swallowed, or throws in place of a refusal.               *)
Holding == {"load", "enqueue", "dupExisting", "dupLive", "forget", "delete"}
Throws(c) ==
    /\ call[c].pc \notin {"idle", "done"} /\ Fault
    /\ Answer(c, "threw")
    /\ left' = IF call[c].pc \in Holding THEN left \cup {Key(c)} ELSE left
    /\ UNCHANGED <<request, run, grant, turn, raced, moved>>

(***************************************************************************)
(* The runs                                                                *)
(***************************************************************************)

(* A worker takes the run from the queue, and its step `begin` sends the   *)
(* head the update that takes the turn.                                    *)
Dequeue(k) ==
    /\ wf[k] = "ENQUEUED"
    /\ wf' = [wf EXCEPT ![k] = "PENDING"]
    /\ beginning' = beginning \cup {k}
    /\ UNCHANGED <<call, request, ended, forgot, grant, turn, ghosts, faults>>

(* The update lands, of a run that was cut off meanwhile too. *)
Waits(k) == wf[k] = "ENQUEUED" \/ k \in beginning
Begin(k) ==
    /\ k \in beginning
    /\ beginning' = beginning \ {k}
    /\ turn' = StartTurn(turn, k, request[k].msg, request[k].kind = "edit", NoPoint)
    /\ moved' = moved \cup {j \in Runs \ {k} : Waits(j)}
    /\ UNCHANGED <<call, request, wf, ended, forgot, grant, raced, left, faults>>

(* It journals its end, forgets its grant, and its workflow returns.       *)
End(k) ==
    /\ wf[k] = "PENDING" /\ k \notin beginning \cup ended
    /\ ended' = ended \cup {k}
    /\ UNCHANGED <<call, request, wf, beginning, forgot, grant, turn, ghosts, faults>>

ForgetGrant(k) ==
    /\ wf[k] = "PENDING" /\ k \in ended \ forgot
    /\ forgot' = forgot \cup {k}
    /\ grant' = grant \ {k}
    /\ UNCHANGED <<call, request, wf, beginning, ended, turn, ghosts, faults>>

Return(k) ==
    /\ wf[k] = "PENDING" /\ k \in forgot
    /\ wf' = [wf EXCEPT ![k] = "over"]
    /\ UNCHANGED <<call, request, beginning, ended, forgot, grant, turn, ghosts, faults>>

(* It is cancelled, or throws, and its grant goes or stays.  A begin under *)
(* way may be lost, or land yet.                                           *)
CutOff(k) ==
    /\ wf[k] \in Active
    /\ wf' = [wf EXCEPT ![k] = "over"]
    /\ ended' = ended \cup {k}
    /\ beginning' \in {beginning, beginning \ {k}}
    /\ \/ UNCHANGED <<grant, forgot>>
       \/ grant' = grant \ {k} /\ forgot' = forgot \cup {k}
    /\ UNCHANGED <<call, request, turn, ghosts, faults>>

Answering(c) ==
    \/ CheckExisting(c) \/ SaveRetried(c) \/ CheckLive(c) \/ SaveGrant(c)
    \/ Load(c) \/ LoadFails(c) \/ Enqueue(c) \/ EnqueueFails(c)
    \/ DupExisting(c) \/ DupLive(c) \/ Forget(c) \/ Delete(c) \/ Throws(c)

Running(k) == Dequeue(k) \/ Begin(k) \/ End(k) \/ ForgetGrant(k) \/ Return(k) \/ CutOff(k)

Next ==
    \/ \E c \in Calls, k \in Runs, kind \in Kinds, msg \in Runs : Arrive(c, k, kind, msg)
    \/ \E c \in Calls : Answering(c)
    \/ \E k \in Runs : Running(k)

Spec == Init /\ [][Next]_vars

(* A call goes on to its answer; a run may hang for ever. *)
FairSpec == Spec /\ \A c \in Calls : WF_vars(Answering(c))

(***************************************************************************)
(* What must hold                                                          *)
(***************************************************************************)

(* Every variable keeps its type. *)
TypeOK ==
    /\ call \in [Calls -> [pc : Pcs, key : Runs \cup {NoRun}, head : Turns \cup {NoTurn},
                           tries : 0..MaxTries, answer : Answers]]
    /\ request \in [Runs -> [kind : Kinds, msg : Runs \cup {NoRun}]]
    /\ wf \in [Runs -> {"none", "over"} \cup Active]
    /\ beginning \subseteq Runs /\ ended \subseteq Runs /\ forgot \subseteq Runs
    /\ grant \subseteq Runs
    /\ raced \subseteq Runs /\ left \subseteq Runs /\ moved \subseteq Runs
    /\ turn \in Turns \cup {NoTurn}
    /\ faults \in 0..MaxFaults

(* A run that has not ended has the grant its head is written with, unless *)
(* another call with its key, which looked for it before it was enqueued,  *)
(* took the grant back while, or after, this one enqueued it.              *)
RunHasGrant ==
    \A k \in Runs \ raced : wf[k] \in Active /\ k \notin forgot => k \in grant

(* The same with no exception: a start that runs nothing takes its grant   *)
(* back, "unless the same start racing it made the run" (forget).          *)
EveryRunHasGrant == \A k \in Runs : wf[k] \in Active /\ k \notin forgot => k \in grant

(* Starts that ran nothing leave no grant behind, by whichever path they   *)
(* were refused or failed, unless a call threw with its grant saved and    *)
(* before its forget, or in it, or in the save itself.                     *)
Idle(k) == \A c \in Calls : Key(c) = k => call[c].pc = "done"
NoGrantLeftBehind == \A k \in Runs \ left : k \in grant /\ Idle(k) => wf[k] # "none"

(* The same with no exception: "a start that runs nothing takes its grant  *)
(* back".                                                                  *)
NothingLeftBehind == \A k \in Runs : k \in grant /\ Idle(k) => wf[k] # "none"

(* A run answers the message its turn shows, unless the turn changed after *)
(* its start read it: while the start was on its way to the queue, or in   *)
(* the queue or its begin, by the late begin of a run that was cut off.    *)
AnswersTheTurn ==
    \A k \in Runs \ moved : wf[k] = "PENDING" /\ turn.owner = k => request[k].msg = turn.msg

(* The same whenever the turn changed.                                     *)
EveryRunAnswersTheTurn ==
    \A k \in Runs : wf[k] = "PENDING" /\ turn.owner = k => request[k].msg = turn.msg

(* A runner that already started a start's run answers with it: a start is *)
(* refused only when nothing ran (runner-protocol.ts, RemoteAgent).        *)
RefusedRanNothing ==
    [][\A c \in Calls : call[c].answer = "none" /\ call'[c].answer \in Refusals
           => wf[Key(c)] = "none"]_vars

(* Every call of start is answered, even while a run that ended never      *)
(* frees the user's slot: in the end no call is under way.                 *)
EveryCallIsAnswered == <>[](\A c \in Calls : At(c, "idle") \/ At(c, "done"))
=============================================================================
