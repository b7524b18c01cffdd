--------------------------- MODULE RunStartProofs ---------------------------
(***************************************************************************)
(* Theorems about how the runner takes a start, for every number of calls, *)
(* keys, tries of the enqueue, and reads and enqueues that fail.           *)
(***************************************************************************)
EXTENDS RunStart, TLAPS

(***************************************************************************)
(* The inductive invariant.                                                *)
(***************************************************************************)

(* A call that arrived has a key, and what is asked with it has a message; *)
(* a run was asked for, so its begin has a message to give the turn.       *)
CallsAsk == \A c \in Calls : ~At(c, "idle") => Key(c) \in Runs /\ Asks(c).msg \in Runs
RunsWereAsked ==
    /\ \A k \in Runs : wf[k] # "none" => request[k].msg \in Runs
    /\ \A k \in beginning : wf[k] \in {"PENDING", "over"}
TypeInv == TypeOK /\ CallsAsk /\ RunsWereAsked

(* A call that is starting its run kept a grant for it, which stays while  *)
(* no other call takes it back; and one that takes a grant back found no   *)
(* run, so that a run there is now was enqueued meanwhile.                 *)
StartingHasGrant ==
    \A k \in Runs \ raced : Starting(k) /\ wf[k] = "none" => k \in grant
DeletingARunRaces ==
    \A c \in Calls : At(c, "delete") /\ wf[Key(c)] # "none" => Key(c) \in raced
GrantInv == StartingHasGrant /\ DeletingARunRaces /\ RunHasGrant

(* While a run's grant waits for the run, a call with its key is between   *)
(* the save of the grant and its enqueue, or about to take it back, unless *)
(* one threw there.                                                        *)
GrantIsHeld ==
    \A k \in grant \ left : wf[k] = "none" => \E c \in Calls : Key(c) = k /\ call[c].pc \in Holding
RetriedHasRun == \A c \in Calls : At(c, "saveRetried") => wf[Key(c)] # "none"
HeldInv == GrantIsHeld /\ RetriedHasRun

(* One run is active; a call past its read of the head was accepted there; *)
(* and a run that waits for the turn, in the queue or in its begin, answers *)
(* the turn's message, makes it, or edits it: only its own begin, or a late *)
(* one, which moves it, changes the turn from here on.                     *)
OneActive == \A j, k \in Runs : wf[j] \in Active /\ wf[k] \in Active => j = k
Suits(asks, t) ==
    asks.kind # "edit" /\ t # NoTurn => asks.kind = "retry" /\ asks.msg = t.msg
PastLoad == {"enqueue", "dupExisting", "dupLive"}
LoadAccepted == \A c \in Calls : call[c].pc \in PastLoad => Suits(Asks(c), call[c].head)
QueuedSuits == \A k \in Runs \ moved : Waits(k) => Suits(request[k], turn)
OwnerBegan ==
    turn.owner \in Runs => wf[turn.owner] \in {"PENDING", "over"} /\ turn.owner \notin beginning
TurnInv == OneActive /\ LoadAccepted /\ QueuedSuits /\ OwnerBegan /\ AnswersTheTurn

StartInv == TypeInv /\ GrantInv /\ HeldInv /\ TurnInv

(***************************************************************************)
(* Type correctness                                                        *)
(***************************************************************************)

(* startTurn leaves a turn, whatever it is asked. *)
LEMMA StartTurnType ==
    ASSUME NEW t \in Turns \cup {NoTurn}, NEW r \in Runs, NEW asked \in Runs, NEW edit \in BOOLEAN
    PROVE  StartTurn(t, r, asked, edit, NoPoint) \in Turns
<1>1. (IF edit \/ t = NoTurn THEN asked ELSE t.msg) \in Runs
    BY DEF Turns
<1>2. NoReply \in [status : {"none", "running"}, steps : Counts, note : {"plain"}]
    BY ConstantsAssumption DEF Counts, NoReply
<1> QED
    BY <1>1, <1>2 DEF Turns, StartTurn

Fields == [pc : Pcs, key : Runs \cup {NoRun}, head : Turns \cup {NoTurn},
           tries : 0..MaxTries, answer : Answers]

(* A call that leaves for its answer, or goes on, keeps its key and a type. *)
LEMMA MovesType ==
    ASSUME call \in [Calls -> Fields], NEW c \in Calls, NEW pc \in Pcs, NEW answer \in Answers
    PROVE  /\ Goto(c, pc) \/ Leave(c, pc, answer) =>
                 /\ call' \in [Calls -> Fields]
                 /\ call'[c].pc = pc /\ call'[c].key = call[c].key
                 /\ \A d \in Calls \ {c} : call'[d] = call[d]
           /\ Goto(c, pc) => call'[c].head = call[c].head
<1> DEFINE gone == [NoCall EXCEPT !.pc = pc, !.key = call[c].key, !.answer = answer]
<1>0. call[c] \in Fields /\ call[c].key \in Runs \cup {NoRun}
    BY DEF Fields
<1>1. gone \in Fields /\ gone.pc = pc /\ gone.key = call[c].key
    <2>1. NoCall \in Fields
        BY StartAssumption DEF NoCall, Fields, Pcs, Answers, NoRun
    <2>2. [NoCall EXCEPT !.pc = pc] \in Fields /\ [NoCall EXCEPT !.pc = pc].pc = pc
        BY <2>1 DEF Fields
    <2> QED
        BY <1>0, <2>1, <2>2 DEF Fields
<1>2. [call[c] EXCEPT !.pc = pc] \in Fields
    BY DEF Fields
<1>3. Goto(c, pc) => call'[c].head = call[c].head
    BY DEF Goto, Fields
<1>4. CASE Goto(c, pc)
    BY <1>2, <1>4 DEF Goto, Fields
<1>5. CASE Leave(c, pc, answer)
    <2>1. call' = [call EXCEPT ![c] = gone]
        BY <1>5 DEF Leave
    <2> HIDE DEF gone
    <2>2. call' \in [Calls -> Fields] /\ call'[c] = gone /\ \A d \in Calls \ {c} : call'[d] = call[d]
        BY <1>1, <2>1
    <2> QED
        BY <1>1, <1>3, <2>2
<1> QED
    BY <1>3, <1>4, <1>5

(* The invariant holds before any call. *)
LEMMA InitTypes == Init => TypeInv
BY StartAssumption
   DEF Init, TypeInv, TypeOK, CallsAsk, RunsWereAsked, NoCall, NoRequest, NoRun, Pcs, Answers,
       Kinds, At, Key, Asks

(* What the calls do keeps every variable's type. *)
LEMMA AnsweringTypes ==
    ASSUME TypeInv, NEW c \in Calls, Answering(c)
    PROVE  TypeInv'
<1> USE DEF TypeInv
<1>0. /\ call \in [Calls -> Fields]
      /\ \A pc \in Pcs \ {"idle"} : At(c, pc) => Key(c) \in Runs
    BY DEF TypeOK, Fields, CallsAsk, At
<1>1. ASSUME NEW pc \in Pcs \ {"idle"}, NEW answer \in Answers, ~At(c, "idle"),
             Goto(c, pc) \/ Leave(c, pc, answer), UNCHANGED request
      PROVE  call' \in [Calls -> Fields] /\ CallsAsk'
    BY <1>0, <1>1, MovesType DEF CallsAsk, At, Key, Asks
<1>2. {"idle", "existing", "saveRetried", "live", "saveGrant", "load", "enqueue",
       "dupExisting", "dupLive", "forget", "delete", "done"} = Pcs
      /\ {"none", "ok", "threw", "run-active", "stale-turn"} = Answers
    BY DEF Pcs, Answers, Refusals
<1>3. CASE CheckExisting(c)
    BY <1>0, <1>1, <1>2, <1>3 DEF CheckExisting, At, TypeOK, RunsWereAsked, Fields, run, ghosts
<1>14. Fault => faults' \in 0..MaxFaults
    BY StartAssumption DEF Fault, TypeOK
<1>4. CASE SaveRetried(c)
    BY <1>0, <1>1, <1>2, <1>4, <1>14
       DEF SaveRetried, Answer, At, TypeOK, RunsWereAsked, Fields, run, ghosts
<1>5. CASE CheckLive(c)
    BY <1>0, <1>1, <1>2, <1>5
       DEF CheckLive, Answer, At, TypeOK, RunsWereAsked, Fields, run, ghosts
<1>6. CASE SaveGrant(c)
    BY <1>0, <1>1, <1>2, <1>6, <1>14
       DEF SaveGrant, Answer, At, TypeOK, RunsWereAsked, Fields, run, ghosts
<1>7. CASE Load(c)
    <2>1. [call[c] EXCEPT !.pc = "enqueue", !.head = turn] \in Fields
        <3>1. call[c] \in Fields /\ turn \in Turns \cup {NoTurn} /\ "enqueue" \in Pcs
            BY <1>0, <1>2 DEF TypeOK
        <3> QED
            BY <3>1 DEF Fields
    <2>2. CASE Accepts(c)
        <3>1. call' = [call EXCEPT ![c].pc = "enqueue", ![c].head = turn] /\ UNCHANGED request
            BY <1>7, <2>2 DEF Load
        <3>2. /\ call'[c] = [call[c] EXCEPT !.pc = "enqueue", !.head = turn]
              /\ \A d \in Calls \ {c} : call'[d] = call[d]
              /\ call' \in [Calls -> Fields]
            BY <1>0, <2>1, <3>1
        <3>3. call'[c].key = call[c].key
            BY <1>0, <3>2 DEF Fields
        <3> QED
            BY <1>7, <3>1, <3>2, <3>3
               DEF Load, TypeOK, RunsWereAsked, Fields, run, ghosts, CallsAsk, At, Key, Asks
    <2>3. CASE ~Accepts(c)
        BY <1>0, <1>1, <1>2, <1>7, <2>3
           DEF Load, Refuse, At, TypeOK, RunsWereAsked, Fields, run, ghosts
    <2> QED
        BY <2>2, <2>3
<1>8. CASE LoadFails(c)
    BY <1>0, <1>1, <1>2, <1>8, <1>14
       DEF LoadFails, Refuse, At, TypeOK, RunsWereAsked, Fields, run, ghosts
<1>9. CASE Enqueue(c) \/ EnqueueFails(c)
    <2>1. call' \in [Calls -> Fields] /\ CallsAsk'
        BY <1>0, <1>1, <1>2, <1>9
           DEF Enqueue, EnqueueFails, Enqueued, NotEnqueued, Answer, Refuse, At
    <2>2. At(c, "enqueue")
        BY <1>9 DEF Enqueue, EnqueueFails
    <2>3. Key(c) \in Runs /\ Asks(c).msg \in Runs /\ Asks(c) = request[Key(c)]
        BY <2>2 DEF CallsAsk, At, Key, Asks
    <2>4. /\ wf' \in [Runs -> {"none", "over"} \cup Active] /\ RunsWereAsked'
          /\ raced' \subseteq Runs /\ moved' \subseteq Runs
          /\ UNCHANGED <<beginning, ended, forgot, left, request, grant, turn>>
        <3>1. CASE NotEnqueued
            BY <1>9, <3>1 DEF Enqueue, EnqueueFails, NotEnqueued, run, ghosts, TypeOK, RunsWereAsked
        <3>2. CASE ~NotEnqueued
            <4>1. /\ wf[Key(c)] = "none" /\ Enqueued(c)
                  /\ UNCHANGED <<beginning, ended, forgot, left, request, grant, turn>>
                BY <1>9, <3>2 DEF Enqueue, EnqueueFails, Enqueued, Exists
            <4>2. wf' = [wf EXCEPT ![Key(c)] = "ENQUEUED"]
                BY <4>1 DEF Enqueued
            <4>3. wf' \in [Runs -> {"none", "over"} \cup Active] /\ RunsWereAsked'
                BY <2>3, <4>1, <4>2 DEF TypeOK, RunsWereAsked, Active
            <4> QED
                BY <2>3, <4>1, <4>3 DEF Enqueued, TypeOK
        <3> QED
            BY <3>1, <3>2
    <2>5. faults' \in 0..MaxFaults
        BY <1>9, StartAssumption DEF Enqueue, EnqueueFails, Fault, TypeOK
    <2> QED
        BY <2>1, <2>4, <2>5 DEF TypeOK, Fields
<1>10. CASE DupExisting(c)
    BY <1>0, <1>1, <1>2, <1>10
       DEF DupExisting, Answer, At, TypeOK, RunsWereAsked, Fields, run, ghosts
<1>11. CASE DupLive(c)
    <2>1. CASE LiveRuns = {} /\ MayTryAgain(c)
        <3> DEFINE e == [call[c] EXCEPT !.pc = "enqueue",
                                       !.tries = IF @ < MaxTries THEN @ + 1 ELSE @]
        <3>1. call' = [call EXCEPT ![c] = e]
            BY <1>11, <2>1 DEF DupLive
        <3>2. e \in Fields /\ e.key = call[c].key
            <4>1. call[c] \in Fields /\ "enqueue" \in Pcs
                BY <1>0, <1>2
            <4>2. (IF call[c].tries < MaxTries THEN call[c].tries + 1 ELSE call[c].tries) \in 0..MaxTries
                BY <4>1, StartAssumption DEF Fields
            <4> QED
                BY <4>1, <4>2 DEF Fields
        <3>3. call' \in [Calls -> Fields] /\ call'[c].key = call[c].key
              /\ \A d \in Calls \ {c} : call'[d] = call[d]
            BY <1>0, <3>1, <3>2
        <3> QED
            BY <1>11, <3>3
               DEF DupLive, TypeOK, RunsWereAsked, Fields, run, ghosts, CallsAsk, At, Key, Asks
    <2>2. CASE ~(LiveRuns = {} /\ MayTryAgain(c))
        BY <1>0, <1>1, <1>2, <1>11, <2>2
           DEF DupLive, Refuse, At, TypeOK, RunsWereAsked, Fields, run, ghosts
    <2> QED
        BY <2>1, <2>2
<1>12. CASE Forget(c)
    BY <1>0, <1>1, <1>2, <1>12 DEF Forget, At, TypeOK, RunsWereAsked, Fields, run, ghosts
<1>13. CASE Delete(c)
    BY <1>0, <1>1, <1>2, <1>13, <1>14
       DEF Delete, Answer, At, TypeOK, RunsWereAsked, Fields, run
<1>15. CASE Throws(c)
    BY <1>0, <1>1, <1>2, <1>14, <1>15
       DEF Throws, Answer, At, TypeOK, RunsWereAsked, Fields, run, Holding
<1> QED
    BY <1>3, <1>4, <1>5, <1>6, <1>7, <1>8, <1>9, <1>10, <1>11, <1>12, <1>13, <1>15 DEF Answering

(* An arrival gives a new key its request, and the call its key. *)
LEMMA ArriveTypes ==
    ASSUME TypeInv, NEW c \in Calls, NEW k \in Runs, NEW kind \in Kinds, NEW msg \in Runs,
           Arrive(c, k, kind, msg)
    PROVE  TypeInv'
<1> USE DEF TypeInv
<1>1. /\ call' = [call EXCEPT ![c].pc = "existing", ![c].key = k]
      /\ UNCHANGED <<run, grant, turn, ghosts, faults>>
      /\ \/ request' = request /\ request[k] = [kind |-> kind, msg |-> msg]
         \/ request' = [request EXCEPT ![k] = [kind |-> kind, msg |-> msg]]
    BY DEF Arrive
<1>2. request' \in [Runs -> [kind : Kinds, msg : Runs \cup {NoRun}]]
      /\ request'[k].msg \in Runs /\ \A j \in Runs \ {k} : request'[j] = request[j]
    BY <1>1 DEF TypeOK
<1>3. /\ call' \in [Calls -> Fields] /\ call'[c].pc = "existing" /\ call'[c].key = k
      /\ \A d \in Calls \ {c} : call'[d] = call[d]
    <2>1. call \in [Calls -> Fields] /\ call[c] \in Fields /\ "existing" \in Pcs
        BY DEF TypeOK, Fields, Pcs
    <2>2. [call[c] EXCEPT !.pc = "existing", !.key = k] \in Fields
        BY <2>1 DEF Fields
    <2>3. call' = [call EXCEPT ![c] = [call[c] EXCEPT !.pc = "existing", !.key = k]]
        BY <1>1, <2>1
    <2>4. [call[c] EXCEPT !.pc = "existing", !.key = k].pc = "existing"
          /\ [call[c] EXCEPT !.pc = "existing", !.key = k].key = k
        BY <2>1 DEF Fields
    <2> QED
        BY <2>1, <2>2, <2>3, <2>4
<1> QED
    BY <1>1, <1>2, <1>3
       DEF TypeOK, Fields, run, ghosts, CallsAsk, RunsWereAsked, At, Key, Asks

(* What becomes of the runs keeps every variable's type. *)
LEMMA RunningTypes ==
    ASSUME TypeInv, NEW k \in Runs, Running(k)
    PROVE  TypeInv'
<1> USE DEF TypeInv
<1>1. CallsAsk'
    BY DEF Running, Dequeue, Begin, End, ForgetGrant, Return, CutOff, CallsAsk, At, Key, Asks
<1>7. CASE Dequeue(k)
    BY <1>1, <1>7 DEF Dequeue, TypeOK, RunsWereAsked, Active, ghosts
<1>2. CASE Begin(k)
    <2>1. request[k].msg \in Runs
        BY <1>2 DEF Begin, RunsWereAsked
    <2>2. turn' \in Turns
        BY <1>2, <2>1, StartTurnType DEF Begin, TypeOK
    <2> QED
        BY <1>1, <1>2, <2>2 DEF Begin, TypeOK, RunsWereAsked
<1>3. CASE End(k)
    BY <1>1, <1>3 DEF End, TypeOK, RunsWereAsked, ghosts
<1>4. CASE ForgetGrant(k)
    BY <1>1, <1>4 DEF ForgetGrant, TypeOK, RunsWereAsked, ghosts
<1>5. CASE Return(k)
    BY <1>1, <1>5 DEF Return, TypeOK, RunsWereAsked, ghosts
<1>6. CASE CutOff(k)
    BY <1>1, <1>6 DEF CutOff, TypeOK, RunsWereAsked, Active, ghosts
<1> QED
    BY <1>2, <1>3, <1>4, <1>5, <1>6, <1>7 DEF Running

(* Every step keeps every variable's type. *)
LEMMA TypesStep ==
    ASSUME TypeInv, [Next]_vars
    PROVE  TypeInv'
<1>1. CASE UNCHANGED vars
    BY <1>1 DEF vars, run, ghosts, TypeInv, TypeOK, CallsAsk, RunsWereAsked, At, Key, Asks
<1> QED
    BY <1>1, AnsweringTypes, ArriveTypes, RunningTypes DEF Next

(* Every variable keeps its type (TypeOK): the tries of an enqueue stay    *)
(* within ENQUEUE_ATTEMPTS, and startTurn is never given a missing message. *)
THEOREM TypesOK == Spec => []TypeOK
<1>1. TypeInv => TypeOK
    BY DEF TypeInv
<1> QED
    BY <1>1, InitTypes, TypesStep, PTL DEF Spec

(***************************************************************************)
(* What a call's step may do: where it goes from where, and what it finds. *)
(***************************************************************************)
Moves(c, from, to) == At(c, from) /\ call'[c].pc = to

Looks(c) ==
    \/ Moves(c, "existing", "saveRetried") /\ wf[Key(c)] # "none"
    \/ Moves(c, "existing", "live") \/ Moves(c, "live", "done") \/ Moves(c, "live", "saveGrant")
    \/ Moves(c, "load", "enqueue") /\ Accepts(c) /\ call'[c].head = turn
    \/ Moves(c, "load", "forget") \/ Moves(c, "enqueue", "forget")
    \/ Moves(c, "enqueue", "done") /\ wf[Key(c)] # "none"
    \/ Moves(c, "enqueue", "dupExisting") /\ call'[c].head = call[c].head
    \/ Moves(c, "dupExisting", "done") /\ wf[Key(c)] # "none"
    \/ Moves(c, "dupExisting", "dupLive") /\ call'[c].head = call[c].head
    \/ Moves(c, "dupLive", "enqueue") /\ call'[c].head = call[c].head
    \/ Moves(c, "dupLive", "forget")
    \/ Moves(c, "forget", "done") /\ wf[Key(c)] # "none"
    \/ Moves(c, "forget", "delete") /\ wf[Key(c)] = "none"
LooksOnly(c) == Looks(c) /\ UNCHANGED <<run, grant, ghosts>>

GivesUp(c) ==
    /\ call[c].pc \notin {"idle", "done"} /\ call'[c].pc = "done"
    /\ call[c].pc \in Holding => Key(c) \in left'
    /\ left \subseteq left' /\ UNCHANGED <<run, grant, raced, moved>>

Saves(c) ==
    /\ \/ Moves(c, "saveRetried", "done") \/ Moves(c, "saveGrant", "load")
       \/ Moves(c, "saveGrant", "done") /\ Key(c) \in left'
    /\ left \subseteq left'
    /\ grant' = grant \cup {Key(c)} /\ UNCHANGED <<run, raced, moved>>

Enqueues(c) ==
    /\ Moves(c, "enqueue", "done") \/ Moves(c, "enqueue", "forget")
    /\ wf[Key(c)] = "none" /\ SlotFree /\ Enqueued(c) /\ UNCHANGED grant

TakesBack(c) == Moves(c, "delete", "done") /\ Delete(c)

(* A step of a call is one of these, and moves no other call. *)
LEMMA CallSteps ==
    ASSUME TypeInv, NEW c \in Calls, Answering(c)
    PROVE  /\ Key(c) \in Runs /\ call'[c].key = call[c].key
           /\ \A d \in Calls \ {c} : call'[d] = call[d]
           /\ UNCHANGED <<request, turn>>
           /\ LooksOnly(c) \/ GivesUp(c) \/ Saves(c) \/ Enqueues(c) \/ TakesBack(c)
<1>0. call \in [Calls -> Fields]
    BY DEF TypeInv, TypeOK, Fields
<1>2. {"idle", "existing", "saveRetried", "live", "saveGrant", "load", "enqueue",
       "dupExisting", "dupLive", "forget", "delete", "done"} = Pcs
      /\ {"none", "ok", "threw", "run-active", "stale-turn"} = Answers
    BY DEF Pcs, Answers, Refusals
<1> DEFINE Alone == /\ call'[c].key = call[c].key
                    /\ \A d \in Calls \ {c} : call'[d] = call[d]
<1>1. ASSUME NEW pc \in Pcs, NEW answer \in Answers, Goto(c, pc) \/ Leave(c, pc, answer)
      PROVE  Alone /\ call'[c].pc = pc
    BY <1>0, <1>1, MovesType
<1>3. ASSUME NEW pc \in Pcs, Goto(c, pc)
      PROVE  call'[c].head = call[c].head
    <2>1. "none" \in Answers
        BY <1>2
    <2> QED
        BY <1>0, <1>3, <2>1, MovesType
<1>4. CASE CheckExisting(c)
    BY <1>1, <1>2, <1>4 DEF CheckExisting, LooksOnly, Looks, Moves, At, Exists, TypeInv, CallsAsk, Key
<1>5. CASE SaveRetried(c)
    BY <1>1, <1>2, <1>5 DEF SaveRetried, Answer, Saves, Moves, At, TypeInv, CallsAsk, Key, ghosts
<1>6. CASE CheckLive(c)
    BY <1>1, <1>2, <1>6 DEF CheckLive, Answer, LooksOnly, Looks, Moves, At, TypeInv, CallsAsk, Key
<1>7. CASE SaveGrant(c)
    BY <1>1, <1>2, <1>7 DEF SaveGrant, Answer, Saves, Moves, At, TypeInv, CallsAsk, Key
<1>8. CASE Load(c)
    <2>1. CASE Accepts(c)
        <3>1. call' = [call EXCEPT ![c].pc = "enqueue", ![c].head = turn]
            BY <1>8, <2>1 DEF Load
        <3>2. Alone /\ call'[c].pc = "enqueue" /\ call'[c].head = turn
            BY <1>0, <3>1 DEF Fields
        <3> HIDE DEF Alone
        <3> QED
            BY <1>8, <2>1, <3>2
               DEF Alone, Load, LooksOnly, Looks, Moves, At, TypeInv, CallsAsk, Key
    <2>2. CASE ~Accepts(c)
        BY <1>1, <1>2, <1>8, <2>2 DEF Load, Refuse, LooksOnly, Looks, Moves, At, TypeInv, CallsAsk, Key
    <2> QED
        BY <2>1, <2>2
<1>9. CASE LoadFails(c)
    BY <1>1, <1>2, <1>9 DEF LoadFails, Refuse, LooksOnly, Looks, Moves, At, TypeInv, CallsAsk, Key
<1>10. CASE Enqueue(c)
    <2>0. At(c, "enqueue") /\ Key(c) \in Runs /\ UNCHANGED <<request, grant, turn>>
        BY <1>10 DEF Enqueue, At, TypeInv, CallsAsk, Key
    <2>1. CASE ~Exists(Key(c)) /\ SlotFree /\ Enqueued(c) /\ Answer(c, "ok")
        BY <1>1, <1>2, <2>0, <2>1 DEF Answer, Enqueues, Moves, Exists
    <2>2. CASE Exists(Key(c)) /\ NotEnqueued /\ Answer(c, "ok")
        BY <1>1, <1>2, <2>0, <2>2 DEF Answer, LooksOnly, Looks, Moves, Exists, NotEnqueued
    <2>3. CASE ~SlotFree /\ NotEnqueued /\ Goto(c, "dupExisting")
        BY <1>1, <1>2, <1>3, <2>0, <2>3 DEF LooksOnly, Looks, Moves, NotEnqueued
    <2> QED
        BY <1>10, <2>1, <2>2, <2>3 DEF Enqueue
<1>11. CASE EnqueueFails(c)
    <2>0. At(c, "enqueue") /\ Key(c) \in Runs /\ UNCHANGED <<request, grant, turn>>
          /\ Leave(c, "forget", "threw")
        BY <1>11 DEF EnqueueFails, Refuse, At, TypeInv, CallsAsk, Key
    <2>1. Moves(c, "enqueue", "forget") /\ Alone
        BY <1>1, <1>2, <2>0 DEF Moves
    <2> QED
        BY <1>11, <2>0, <2>1 DEF EnqueueFails, Enqueues, LooksOnly, Looks, Exists, NotEnqueued
<1>12. CASE DupExisting(c)
    BY <1>1, <1>2, <1>3, <1>12
       DEF DupExisting, Answer, LooksOnly, Looks, Moves, At, Exists, TypeInv, CallsAsk, Key
<1>13. CASE DupLive(c)
    <2>1. CASE LiveRuns = {} /\ MayTryAgain(c)
        <3>1. Alone /\ call'[c].pc = "enqueue" /\ call'[c].head = call[c].head
            BY <1>0, <1>13, <2>1 DEF DupLive, Fields
        <3> HIDE DEF Alone
        <3> QED
            BY <1>13, <3>1 DEF Alone, DupLive, LooksOnly, Looks, Moves, At, TypeInv, CallsAsk, Key
    <2>2. CASE ~(LiveRuns = {} /\ MayTryAgain(c))
        BY <1>1, <1>2, <1>13, <2>2
           DEF DupLive, Refuse, LooksOnly, Looks, Moves, At, TypeInv, CallsAsk, Key
    <2> QED
        BY <2>1, <2>2
<1>14. CASE Forget(c)
    BY <1>1, <1>2, <1>14 DEF Forget, LooksOnly, Looks, Moves, At, Exists, TypeInv, CallsAsk, Key
<1>15. CASE Delete(c)
    BY <1>1, <1>2, <1>15 DEF Delete, Answer, TakesBack, Moves, At, TypeInv, CallsAsk, Key
<1>16. CASE Throws(c)
    BY <1>1, <1>2, <1>16
       DEF Throws, Answer, GivesUp, At, TypeInv, CallsAsk, Key, Holding
<1> QED
    BY <1>4, <1>5, <1>6, <1>7, <1>8, <1>9, <1>10, <1>11, <1>12, <1>13, <1>14, <1>15, <1>16
       DEF Answering

(* An arrival moves one call, which was idle, to its look for the run; and *)
(* it changes only a request no call and no run has.                       *)
LEMMA ArriveSteps ==
    ASSUME TypeInv, NEW c \in Calls, NEW k \in Runs, NEW kind \in Kinds, NEW msg \in Runs,
           Arrive(c, k, kind, msg)
    PROVE  /\ At(c, "idle") /\ call'[c].pc = "existing"
           /\ \A d \in Calls \ {c} : call'[d] = call[d]
           /\ UNCHANGED <<run, grant, turn, ghosts>>
           /\ \A d \in Calls : ~At(d, "idle") => request'[Key(d)] = request[Key(d)]
           /\ \A j \in Runs : wf[j] # "none" => request'[j] = request[j]
<1>1. \A d \in Calls \ {c} : call'[d] = call[d]
    BY DEF Arrive, TypeInv, TypeOK
<1>2. call'[c].pc = "existing"
    BY DEF Arrive, TypeInv, TypeOK
<1>3. \A j \in Runs : request[j].msg \in Runs => request'[j] = request[j]
    <2>1. NoRequest.msg \notin Runs
        BY DEF NoRequest, NoRun, Runs
    <2> QED
        BY <2>1 DEF Arrive, TypeInv, TypeOK
<1> QED
    BY <1>1, <1>2, <1>3 DEF Arrive, TypeInv, CallsAsk, RunsWereAsked, At, Key, Asks

(***************************************************************************)
(* A run that has not ended has its grant                                  *)
(***************************************************************************)

(* A call keeps the grants of the runs it starts, and takes back none of a *)
(* run it can see: what it cannot see is a race (forget's second look).    *)
LEMMA AnsweringGrants ==
    ASSUME TypeInv, GrantInv, NEW c \in Calls, Answering(c)
    PROVE  GrantInv'
<1>0. /\ Key(c) \in Runs /\ call'[c].key = call[c].key
      /\ \A d \in Calls \ {c} : call'[d] = call[d]
      /\ wf \in [Runs -> {"none", "over"} \cup Active]
    BY CallSteps DEF TypeInv, TypeOK
<1>1. CASE LooksOnly(c)
    <2>1. wf' = wf /\ grant' = grant /\ raced' = raced /\ forgot' = forgot
        BY <1>1 DEF LooksOnly, run, ghosts
    <2>2. StartingHasGrant'
        <3> SUFFICES ASSUME NEW k \in Runs \ raced, Starting(k)', wf[k] = "none"
                     PROVE  k \in grant
            BY <2>1 DEF StartingHasGrant
        <3>1. Starting(k)
            BY <1>0, <1>1 DEF Starting, Key, LooksOnly, Looks, Moves, At
        <3> QED
            BY <3>1 DEF GrantInv, StartingHasGrant
    <2>3. DeletingARunRaces'
        BY <1>0, <1>1, <2>1 DEF GrantInv, DeletingARunRaces, Key, LooksOnly, Looks, Moves, At
    <2>4. RunHasGrant'
        BY <2>1 DEF GrantInv, RunHasGrant
    <2> QED
        BY <2>2, <2>3, <2>4 DEF GrantInv
<1>5. CASE GivesUp(c)
    <2>1. wf' = wf /\ grant' = grant /\ raced' = raced /\ forgot' = forgot /\ call'[c].pc = "done"
        BY <1>5 DEF GivesUp, run
    <2> QED
        BY <1>0, <2>1
           DEF GrantInv, StartingHasGrant, DeletingARunRaces, RunHasGrant, Starting, At, Key
<1>2. CASE Saves(c)
    <2>1. /\ wf' = wf /\ raced' = raced /\ forgot' = forgot
          /\ grant' = grant \cup {Key(c)}
        BY <1>2 DEF Saves, run, ghosts
    <2>2. StartingHasGrant'
        <3> SUFFICES ASSUME NEW k \in Runs \ raced, Starting(k)', wf[k] = "none", k # Key(c)
                     PROVE  k \in grant
            BY <2>1 DEF StartingHasGrant
        <3>1. Starting(k)
            BY <1>0 DEF Starting, Key
        <3> QED
            BY <3>1 DEF GrantInv, StartingHasGrant
    <2>3. DeletingARunRaces'
        BY <1>0, <1>2, <2>1 DEF GrantInv, DeletingARunRaces, Key, Saves, Moves, At
    <2>4. RunHasGrant'
        BY <2>1 DEF GrantInv, RunHasGrant
    <2> QED
        BY <2>2, <2>3, <2>4 DEF GrantInv
<1>3. CASE Enqueues(c)
    <2>1. /\ wf' = [wf EXCEPT ![Key(c)] = "ENQUEUED"] /\ grant' = grant /\ forgot' = forgot
          /\ raced' = IF Deleting(Key(c)) THEN raced \cup {Key(c)} ELSE raced
          /\ wf[Key(c)] = "none"
        BY <1>3 DEF Enqueues, Enqueued
    <2>2. Key(c) \in raced \/ Key(c) \in grant
        <3>1. Starting(Key(c))
            BY <1>3 DEF Enqueues, Moves, Starting, At
        <3> QED
            BY <1>0, <2>1, <3>1 DEF GrantInv, StartingHasGrant
    <2>3. StartingHasGrant'
        <3> SUFFICES ASSUME NEW k \in Runs \ raced', Starting(k)', wf'[k] = "none"
                     PROVE  k \in grant
            BY <2>1 DEF StartingHasGrant
        <3>1. k # Key(c) /\ wf[k] = "none" /\ k \notin raced
            BY <1>0, <2>1
        <3>2. Starting(k)
            BY <1>0, <3>1 DEF Starting, Key
        <3> QED
            BY <3>1, <3>2 DEF GrantInv, StartingHasGrant
    <2>4. DeletingARunRaces'
        <3> SUFFICES ASSUME NEW d \in Calls, At(d, "delete")', wf'[Key(d)'] # "none"
                     PROVE  Key(d)' \in raced'
            BY DEF DeletingARunRaces
        <3>1. d # c /\ At(d, "delete") /\ Key(d)' = Key(d)
            BY <1>0, <1>3 DEF Enqueues, Moves, At, Key
        <3>2. CASE Key(d) = Key(c)
            BY <2>1, <3>1, <3>2 DEF Deleting
        <3>3. CASE Key(d) # Key(c)
            <4>1. Key(d) \in Runs
                BY <3>1 DEF TypeInv, CallsAsk, At
            <4> QED
                BY <1>0, <2>1, <3>1, <3>3, <4>1 DEF GrantInv, DeletingARunRaces
        <3> QED
            BY <3>2, <3>3
    <2>5. RunHasGrant'
        BY <1>0, <2>1, <2>2 DEF GrantInv, RunHasGrant
    <2> QED
        BY <2>3, <2>4, <2>5 DEF GrantInv
<1>4. CASE TakesBack(c)
    <2>1. /\ wf' = wf /\ forgot' = forgot /\ grant' = grant \ {Key(c)}
          /\ raced' = IF Starting(Key(c)) THEN raced \cup {Key(c)} ELSE raced
          /\ At(c, "delete") /\ call'[c].pc = "done"
        BY <1>4 DEF TakesBack, Moves, Delete, run
    <2>2. StartingHasGrant'
        <3> SUFFICES ASSUME NEW k \in Runs \ raced', Starting(k)', wf[k] = "none"
                     PROVE  k \in grant'
            BY <2>1 DEF StartingHasGrant
        <3>1. Starting(k)
            BY <1>0, <2>1 DEF Starting, Key
        <3> QED
            BY <2>1, <3>1 DEF GrantInv, StartingHasGrant
    <2>3. DeletingARunRaces'
        BY <1>0, <2>1 DEF GrantInv, DeletingARunRaces, Key, At
    <2>4. RunHasGrant'
        BY <2>1 DEF GrantInv, RunHasGrant, DeletingARunRaces, Active
    <2> QED
        BY <2>2, <2>3, <2>4 DEF GrantInv
<1> QED
    BY <1>1, <1>2, <1>3, <1>4, <1>5, CallSteps

(* A run's begin, its end and its cut-off disturb no other start, and only *)
(* a run that forgot its grant, or is over, loses it.                      *)
LEMMA RunningGrants ==
    ASSUME TypeInv, GrantInv, NEW k \in Runs, Running(k)
    PROVE  GrantInv'
<1>1. /\ call' = call /\ raced' = raced
      /\ \A j \in Runs : wf'[j] = "none" <=> wf[j] = "none"
      /\ \A j \in Runs : wf'[j] \in Active => wf[j] \in Active
      /\ grant \ {k} \subseteq grant' /\ wf[k] # "none"
      /\ forgot \subseteq forgot' /\ (k \in grant' \/ k \in forgot' \/ grant' = grant)
    BY DEF Running, Dequeue, Begin, End, ForgetGrant, Return, CutOff, TypeInv, TypeOK, RunsWereAsked,
           Active, ghosts
<1>2. \A c \in Calls : At(c, "delete") => Key(c) \in Runs
    BY DEF TypeInv, CallsAsk, At
<1>3. StartingHasGrant' /\ DeletingARunRaces'
    BY <1>1, <1>2 DEF GrantInv, StartingHasGrant, DeletingARunRaces, Starting, At, Key
<1>4. RunHasGrant'
    BY <1>1 DEF GrantInv, RunHasGrant
<1> QED
    BY <1>3, <1>4 DEF GrantInv

(* Every step keeps the grants. *)
LEMMA GrantsStep ==
    ASSUME TypeInv, GrantInv, [Next]_vars
    PROVE  GrantInv'
<1>1. CASE UNCHANGED vars
    BY <1>1 DEF vars, run, ghosts, GrantInv, StartingHasGrant, DeletingARunRaces, RunHasGrant,
                Starting, At, Key
<1>2. ASSUME NEW c \in Calls, NEW k \in Runs, NEW kind \in Kinds, NEW msg \in Runs,
             Arrive(c, k, kind, msg)
      PROVE  GrantInv'
    <2>1. /\ \A d \in Calls : call[d].pc \in Holding \/ call'[d].pc \in Holding => call'[d] = call[d]
          /\ wf' = wf /\ grant' = grant /\ raced' = raced /\ forgot' = forgot
        BY <1>2, ArriveSteps DEF run, ghosts, At, Holding
    <2>2. StartingHasGrant'
        BY <2>1 DEF GrantInv, StartingHasGrant, Starting, Key, Holding
    <2>3. DeletingARunRaces'
        BY <2>1 DEF GrantInv, DeletingARunRaces, At, Key, Holding
    <2>4. RunHasGrant'
        BY <2>1 DEF GrantInv, RunHasGrant
    <2> QED
        BY <2>2, <2>3, <2>4 DEF GrantInv
<1> QED
    BY <1>1, <1>2, AnsweringGrants, RunningGrants DEF Next

(* A run that has not ended has the grant its head is written with, unless *)
(* another start with its key took it back while this one enqueued it      *)
(* (RunHasGrant; start and forget, runner.ts).                             *)
THEOREM RunsHaveGrants == Spec => []RunHasGrant
<1>1. Init => GrantInv
    BY DEF Init, GrantInv, StartingHasGrant, DeletingARunRaces, RunHasGrant, Starting, At, Key,
           NoCall, Active
<1>2. GrantInv => RunHasGrant
    BY DEF GrantInv
<1>3. Init => TypeInv
    BY InitTypes
<1>4. TypeInv /\ GrantInv /\ [Next]_vars => TypeInv' /\ GrantInv'
    BY TypesStep, GrantsStep
<1> QED
    BY <1>1, <1>2, <1>3, <1>4, PTL DEF Spec

(***************************************************************************)
(* No grant is left behind by a start that ran nothing                     *)
(***************************************************************************)

(* A call leaves the grant it saved only to its run, or to its own delete. *)
LEMMA AnsweringHeld ==
    ASSUME TypeInv, HeldInv, NEW c \in Calls, Answering(c)
    PROVE  HeldInv'
<1>0. /\ Key(c) \in Runs /\ Key(c)' = Key(c)
      /\ \A d \in Calls \ {c} : call'[d] = call[d]
      /\ wf \in [Runs -> {"none", "over"} \cup Active] /\ grant \subseteq Runs
    BY CallSteps DEF TypeInv, TypeOK, Key
<1>1. \A j \in Runs : wf[j] # "none" => wf'[j] # "none"
    BY <1>0, CallSteps
       DEF LooksOnly, GivesUp, Saves, Enqueues, Enqueued, TakesBack, Delete, run, Active
<1>2. RetriedHasRun'
    <2>1. At(c, "saveRetried")' => wf[Key(c)] # "none"
        BY CallSteps DEF LooksOnly, Looks, GivesUp, Saves, Enqueues, TakesBack, Moves, At
    <2>2. \A d \in Calls : At(d, "saveRetried") => Key(d) \in Runs
        BY DEF TypeInv, CallsAsk, At
    <2> QED
        BY <1>0, <1>1, <2>1, <2>2 DEF HeldInv, RetriedHasRun, At, Key
<1>3. GrantIsHeld'
    <2> SUFFICES ASSUME NEW k \in grant' \ left', wf'[k] = "none"
                 PROVE  \E d \in Calls : Key(d)' = k /\ call'[d].pc \in Holding
        BY DEF GrantIsHeld
    <2>1. CASE Key(c) = k /\ call'[c].pc \in Holding
        BY <1>0, <2>1
    <2>2. CASE Key(c) = k /\ call[c].pc \in Holding /\ call'[c].pc \notin Holding
        <3>1. wf'[k] # "none" \/ TakesBack(c)
            BY <1>0, <1>1, <2>2, CallSteps
               DEF LooksOnly, Looks, GivesUp, Saves, Enqueues, Enqueued, Moves, At, Holding
        <3>2. ~TakesBack(c)
            BY <2>2 DEF TakesBack, Delete
        <3> QED
            BY <3>1, <3>2
    <2>3. CASE ~(Key(c) = k /\ call[c].pc \in Holding) /\ ~(Key(c) = k /\ call'[c].pc \in Holding)
        <3>1. k \in grant \ left
            <4>1. CASE Saves(c)
                <5>1. \/ Moves(c, "saveRetried", "done") \/ Key(c) \in left'
                      \/ Moves(c, "saveGrant", "load") /\ call'[c].pc \in Holding
                    BY <4>1 DEF Saves, Moves, Holding
                <5>2. Moves(c, "saveRetried", "done") => wf[Key(c)] # "none"
                    BY DEF HeldInv, RetriedHasRun, Moves
                <5> QED
                    BY <1>0, <1>1, <2>3, <4>1, <5>1, <5>2 DEF Saves
            <4> QED
                BY <4>1, CallSteps
                   DEF LooksOnly, GivesUp, Enqueues, Enqueued, TakesBack, Delete, ghosts
        <3>2. wf[k] = "none" /\ k \in Runs
            BY <1>0, <1>1, <3>1
        <3>3. PICK d \in Calls : Key(d) = k /\ call[d].pc \in Holding
            BY <3>1, <3>2 DEF HeldInv, GrantIsHeld
        <3> QED
            BY <1>0, <2>3, <3>3 DEF Key
    <2> QED
        BY <2>1, <2>2, <2>3
<1> QED
    BY <1>2, <1>3 DEF HeldInv

(* Every step keeps each waiting grant with a call that holds it. *)
LEMMA HeldStep ==
    ASSUME TypeInv, HeldInv, [Next]_vars
    PROVE  HeldInv'
<1>1. CASE UNCHANGED vars
    BY <1>1 DEF vars, run, ghosts, HeldInv, GrantIsHeld, RetriedHasRun, At, Key
<1>2. ASSUME NEW c \in Calls, NEW k \in Runs, NEW kind \in Kinds, NEW msg \in Runs,
             Arrive(c, k, kind, msg)
      PROVE  HeldInv'
    <2>1. /\ At(c, "idle") /\ call'[c].pc = "existing"
          /\ \A d \in Calls \ {c} : call'[d] = call[d]
          /\ wf' = wf /\ grant' = grant /\ left' = left
        BY <1>2, ArriveSteps DEF run, ghosts
    <2>2. GrantIsHeld'
        BY <2>1 DEF HeldInv, GrantIsHeld, At, Key, Holding
    <2>3. RetriedHasRun'
        BY <2>1 DEF HeldInv, RetriedHasRun, At, Key
    <2> QED
        BY <2>2, <2>3 DEF HeldInv
<1>3. ASSUME NEW k \in Runs, Running(k)
      PROVE  HeldInv'
    <2>1. /\ call' = call /\ grant' \subseteq grant /\ left' = left
          /\ \A j \in Runs : wf'[j] = "none" <=> wf[j] = "none"
        BY <1>3
           DEF Running, Dequeue, Begin, End, ForgetGrant, Return, CutOff, TypeInv, TypeOK, Active, ghosts
    <2>2. \A c \in Calls : At(c, "saveRetried") => Key(c) \in Runs
        BY DEF TypeInv, CallsAsk, At
    <2> QED
        BY <2>1, <2>2 DEF HeldInv, GrantIsHeld, RetriedHasRun, At, Key, TypeInv, TypeOK
<1> QED
    BY <1>1, <1>2, <1>3, AnsweringHeld DEF Next

(* Starts that ran nothing leave no grant behind, by whichever path they   *)
(* were refused or failed, except of a call that threw between the save of *)
(* its grant and the end of its forget (NoGrantLeftBehind; start and its   *)
(* forget, runner.ts).                                                     *)
THEOREM NoGrantIsLeftBehind == Spec => []NoGrantLeftBehind
<1>1. Init => HeldInv
    BY DEF Init, HeldInv, GrantIsHeld, RetriedHasRun, At, NoCall
<1>2. HeldInv => NoGrantLeftBehind
    BY DEF HeldInv, GrantIsHeld, NoGrantLeftBehind, Idle, Holding
<1>3. Init => TypeInv
    BY InitTypes
<1>4. TypeInv /\ HeldInv /\ [Next]_vars => TypeInv' /\ HeldInv'
    BY TypesStep, HeldStep
<1> QED
    BY <1>1, <1>2, <1>3, <1>4, PTL DEF Spec

(***************************************************************************)
(* A run answers the message its turn shows                                *)
(***************************************************************************)

(* A call carries the turn that accepted it to its enqueue, which queues   *)
(* one run at most; unless the turn moved, its run suits the turn.         *)
LEMMA AnsweringTurn ==
    ASSUME TypeInv, TurnInv, NEW c \in Calls, Answering(c)
    PROVE  TurnInv'
<1>0. /\ Key(c) \in Runs /\ Key(c)' = Key(c)
      /\ \A d \in Calls \ {c} : call'[d] = call[d]
      /\ request' = request /\ turn' = turn
      /\ wf \in [Runs -> {"none", "over"} \cup Active]
      /\ Asks(c).kind \in Kinds
    BY CallSteps DEF TypeInv, TypeOK, Key, Asks
<1>1. LoadAccepted'
    <2>1. Accepts(c) => Suits(Asks(c), turn)
        BY <1>0 DEF Accepts, AcceptsTurn, Suits, Kinds
    <2>2. call'[c].pc \in PastLoad => Suits(Asks(c), call'[c].head)
        BY <2>1, CallSteps
           DEF TurnInv, LoadAccepted, LooksOnly, Looks, GivesUp, Saves, Enqueues, TakesBack, Moves,
               At, PastLoad
    <2>3. \A d \in Calls : Asks(d)' = Asks(d)
        BY <1>0 DEF Asks, Key
    <2> QED
        BY <1>0, <2>2, <2>3 DEF TurnInv, LoadAccepted
<1>2. CASE Enqueues(c)
    <2>1. /\ wf' = [wf EXCEPT ![Key(c)] = "ENQUEUED"] /\ SlotFree
          /\ moved' = IF call[c].head # turn THEN moved \cup {Key(c)} ELSE moved
          /\ call[c].pc \in PastLoad /\ beginning' = beginning
        BY <1>2 DEF Enqueues, Enqueued, Moves, At, PastLoad
    <2>2. OneActive'
        BY <1>0, <2>1 DEF OneActive, SlotFree
    <2>3. QueuedSuits'
        <3> SUFFICES ASSUME NEW k \in Runs \ moved', Waits(k)'
                     PROVE  Suits(request[k], turn)
            BY <1>0 DEF QueuedSuits
        <3>1. CASE k = Key(c)
            <4>1. call[c].head = turn
                BY <2>1, <3>1
            <4> QED
                BY <2>1, <3>1, <4>1 DEF TurnInv, LoadAccepted, Asks, Key
        <3>2. CASE k # Key(c)
            BY <1>0, <2>1, <3>2 DEF TurnInv, QueuedSuits, Waits
        <3> QED
            BY <3>1, <3>2
    <2>4. AnswersTheTurn'
        BY <1>0, <2>1 DEF AnswersTheTurn, SlotFree, Active
    <2>5. OwnerBegan'
        BY <1>0, <1>2, <2>1 DEF TurnInv, OwnerBegan, Enqueues
    <2> QED
        BY <1>1, <2>2, <2>3, <2>4, <2>5 DEF TurnInv
<1>3. CASE ~Enqueues(c)
    <2>1. wf' = wf /\ moved' = moved /\ beginning' = beginning
        BY <1>3, CallSteps DEF LooksOnly, GivesUp, Saves, TakesBack, Delete, run, ghosts
    <2> QED
        BY <1>0, <1>1, <2>1 DEF TurnInv, OneActive, QueuedSuits, Waits, OwnerBegan, AnswersTheTurn
<1> QED
    BY <1>2, <1>3

(* A begin, late or not, takes the turn with the message its run was asked *)
(* for, or the one the turn held as it was accepted, and moves every other *)
(* run that waits for the turn.                                            *)
LEMMA RunningTurn ==
    ASSUME TypeInv, TurnInv, NEW k \in Runs, Running(k)
    PROVE  TurnInv'
<1>0. /\ call' = call /\ request' = request /\ moved \subseteq moved'
      /\ \A j \in Runs : wf'[j] \in Active => wf[j] \in Active
      /\ \A j \in Runs : Waits(j)' => Waits(j)
    BY DEF Running, Dequeue, Begin, End, ForgetGrant, Return, CutOff, TypeInv, TypeOK, Active, Waits,
           ghosts
<1>1. OneActive' /\ LoadAccepted'
    BY <1>0 DEF TurnInv, OneActive, LoadAccepted, Asks, Key
<1>2. CASE Begin(k)
    <2>1. /\ k \in beginning /\ wf' = wf /\ beginning' = beginning \ {k}
          /\ turn' = StartTurn(turn, k, request[k].msg, request[k].kind = "edit", NoPoint)
          /\ moved' = moved \cup {j \in Runs \ {k} : Waits(j)}
        BY <1>2 DEF Begin
    <2>2. \A j \in Runs \ moved' : Waits(j) => j = k
        BY <2>1
    <2>3. QueuedSuits'
        <3>1. ~Waits(k)'
            BY <2>1 DEF Waits, TypeInv, RunsWereAsked
        <3> QED
            BY <1>0, <2>2, <3>1 DEF QueuedSuits
    <2>4. AnswersTheTurn'
        <3>1. k \notin moved => turn'.msg = request[k].msg
            BY <2>1 DEF TurnInv, QueuedSuits, Suits, StartTurn, Waits
        <3>2. turn'.owner = k
            BY <2>1 DEF StartTurn
        <3> QED
            BY <1>0, <2>1, <3>1, <3>2 DEF AnswersTheTurn
    <2>5. OwnerBegan'
        BY <2>1 DEF OwnerBegan, StartTurn, TypeInv, RunsWereAsked
    <2> QED
        BY <1>1, <2>3, <2>4, <2>5 DEF TurnInv
<1>3. CASE ~Begin(k)
    <2>1. turn' = turn /\ moved' = moved
        BY <1>3 DEF Running, Dequeue, End, ForgetGrant, Return, CutOff, ghosts
    <2>2. \A j \in Runs : wf'[j] = "PENDING" => wf[j] = "PENDING" \/ Dequeue(j)
        BY <1>3 DEF Running, Dequeue, End, ForgetGrant, Return, CutOff, TypeInv, TypeOK
    <2>3. AnswersTheTurn'
        BY <1>0, <2>1, <2>2 DEF TurnInv, AnswersTheTurn, OwnerBegan, Dequeue
    <2>4. OwnerBegan'
        BY <1>3, <2>1
           DEF TurnInv, OwnerBegan, Running, Dequeue, End, ForgetGrant, Return, CutOff, Active,
               TypeInv, TypeOK
    <2> QED
        BY <1>0, <1>1, <2>1, <2>3, <2>4 DEF TurnInv, QueuedSuits
<1> QED
    BY <1>2, <1>3

(* Every step keeps the runs with the turn they were accepted on. *)
LEMMA TurnStep ==
    ASSUME TypeInv, TurnInv, [Next]_vars
    PROVE  TurnInv'
<1>1. CASE UNCHANGED vars
    BY <1>1 DEF vars, run, ghosts, TurnInv, OneActive, LoadAccepted, QueuedSuits, Waits, OwnerBegan,
                AnswersTheTurn, Asks, Key
<1>2. ASSUME NEW c \in Calls, NEW k \in Runs, NEW kind \in Kinds, NEW msg \in Runs,
             Arrive(c, k, kind, msg)
      PROVE  TurnInv'
    <2>1. /\ At(c, "idle") /\ call'[c].pc = "existing"
          /\ \A d \in Calls \ {c} : call'[d] = call[d]
          /\ wf' = wf /\ moved' = moved /\ turn' = turn /\ beginning' = beginning
          /\ \A d \in Calls : ~At(d, "idle") => request'[Key(d)] = request[Key(d)]
          /\ \A j \in Runs : wf[j] # "none" => request'[j] = request[j]
        BY <1>2, ArriveSteps DEF run, ghosts
    <2>2. LoadAccepted'
        <3> SUFFICES ASSUME NEW d \in Calls, call'[d].pc \in PastLoad
                     PROVE  Suits(Asks(d)', call'[d].head)
            BY DEF LoadAccepted
        <3>1. d # c /\ call'[d] = call[d]
            BY <2>1 DEF PastLoad
        <3>2. Asks(d)' = Asks(d)
            BY <2>1, <3>1 DEF Asks, Key, At, PastLoad
        <3> QED
            BY <3>1, <3>2 DEF TurnInv, LoadAccepted
    <2>3. QueuedSuits' /\ OwnerBegan' /\ AnswersTheTurn'
        <3>1. \A j \in Runs : Waits(j) => wf[j] # "none"
            BY DEF Waits, TypeInv, RunsWereAsked
        <3> QED
            BY <2>1, <3>1 DEF TurnInv, QueuedSuits, Waits, OwnerBegan, AnswersTheTurn
    <2>4. OneActive'
        BY <2>1 DEF TurnInv, OneActive
    <2> QED
        BY <2>2, <2>3, <2>4 DEF TurnInv
<1> QED
    BY <1>1, <1>2, AnsweringTurn, RunningTurn DEF Next

(* A run answers the message its turn shows, unless the turn changed after *)
(* its start read it, while the start or its run waited: the late begin of *)
(* a run that was cut off does that too (AnswersTheTurn; start's check of  *)
(* the retried message against the head's, and begin's startTurn).         *)
THEOREM RunsAnswerTheTurn == Spec => []AnswersTheTurn
<1>1. Init => TurnInv
    BY DEF Init, TurnInv, OneActive, LoadAccepted, QueuedSuits, Waits, OwnerBegan, AnswersTheTurn,
           NoCall, NoTurn, NoRun, Runs, Active, PastLoad
<1>2. TurnInv => AnswersTheTurn
    BY DEF TurnInv
<1>3. Init => TypeInv
    BY InitTypes
<1>4. TypeInv /\ TurnInv /\ [Next]_vars => TypeInv' /\ TurnInv'
    BY TypesStep, TurnStep
<1> QED
    BY <1>1, <1>2, <1>3, <1>4, PTL DEF Spec
=============================================================================
