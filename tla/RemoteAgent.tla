---------------------------- MODULE RemoteAgent ----------------------------
(***************************************************************************)
(* The page's side of a reply that runs on the runner (RemoteAgent,        *)
(* remote-agent.ts): the start asked again with one key until it is        *)
(* answered or given up on, the journal followed and read again, Stop, the *)
(* reply ended on the page, the chat's head read again, and the lookup     *)
(* that follows a run the page finds.  Around it are the runner, by what   *)
(* modules Runner and RunStart show of it, and the network between.        *)
(*                                                                         *)
(* Of a chat only the latest turn counts.  An event between run-started    *)
(* and run-ended stands for a part, a tool's report and a model retry at   *)
(* once: each takes its own way through firedThrough and appliedThrough.   *)
(* A stream that drops resumes after lastEventId, which changes no state   *)
(* here; nor do waits and wakes, for every timer may fire at any time.     *)
(***************************************************************************)
EXTENDS Integers, Sequences, FiniteSets

CONSTANTS
    Chats,
    Other,      \* the key of the reply another device asks for
    MaxKeys,    \* bound: starts with a key of their own
    MaxSeq,     \* bound: turns of a chat
    MaxEvents,  \* bound: events of a run before its run-ended
    MaxAsks,    \* bound: asks of one start
    MaxOpens,   \* bound: times the viewer opens a chat
    MaxFaults,  \* bound: garbled messages, refusals, failed reads, late head writes
    Happens     \* bound: which of OutsideEvents may happen

OutsideEvents == {"edit", "stop", "otherDevice"}

ASSUME RemoteAssumption ==
    /\ Other = 0 /\ Happens \subseteq OutsideEvents
    /\ \A b \in {MaxKeys, MaxSeq, MaxEvents, MaxAsks, MaxOpens, MaxFaults} : b \in Nat

Keys == 0..MaxKeys          \* a run is named by the key of its start
None == -1                  \* no key, no event
Ids == 0..MaxEvents
Ends == {"done", "aborted", "failed"}
\* What a turn shows, an end of Ends aside: "none", "streaming", or "cutoff", a
\* reply read back unfinished, which is an error like "failed".
Status(show) == IF show \in {"failed", "cutoff"} THEN "error" ELSE show

VARIABLES
    (* the page                                                            *)
    chat,    \* store.current
    turn,    \* the latest turn of it
    run,     \* #run, with #live.parts
    back,    \* the head being read again after a run
    lookup,  \* the lookup in flight: #attaching
    next,    \* #attachNext
    over,    \* #ended
    quit,    \* starts stopped before they were answered
    keys,    \* how many keys were made
    (* the runner                                                          *)
    job,     \* the run of each key and its journal
    marks,   \* keys stopped before their run began
    head,    \* the latest turn of each chat, as saved
    (* the network                                                         *)
    starts, answers, stops,
    (* what happened, for the properties and the bounds                    *)
    told,    \* how often the page announced each event of a run
    given,   \* the starts of the open turn given up on, and not answered or stopped since
    seen,    \* the open chat was looked up, or replied in, since it was opened
    odd,     \* "late": a head was let go of before it was read; "again": a run was followed
             \* again that had announced more than was known of it
    opens, faults

page == <<chat, turn, run, back, lookup, next, over, quit, keys>>
runner == <<job, marks, head>>
net == <<starts, answers, stops>>
ghosts == <<told, given, seen, odd, opens, faults>>
vars == <<page, runner, net, ghosts>>

NoTurn == [seq |-> 0, words |-> "said", show |-> "none", kept |-> None, edit |-> FALSE, ended |-> "none",
           asked |-> {}]
NoRun == [phase |-> "none", seq |-> 0, words |-> "said", kind |-> "new", key |-> None, asks |-> 0,
          ours |-> TRUE, stop |-> FALSE, last |-> None, parts |-> <<>>, fired |-> None,
          applied |-> None, retries |-> <<>>]
NoRead == [on |-> FALSE, seq |-> 0, show |-> "none", headWins |-> FALSE, got |-> <<>>]
NoLookup == [phase |-> "none", chat |-> CHOOSE c \in Chats : TRUE, left |-> FALSE, key |-> None, last |-> None]
NoJob == [st |-> "none", chat |-> CHOOSE c \in Chats : TRUE, seq |-> 0, words |-> "said",
          len |-> 0, stop |-> FALSE, end |-> "none", saved |-> TRUE]
NoHead == [seq |-> 0, words |-> "said", by |-> None, state |-> "none"]
RepliedTo == [NoHead EXCEPT !.seq = 1, !.state = "done"]

Opened(h) == [NoTurn EXCEPT !.seq = h.seq, !.words = h.words,
                            !.show = IF h.state = "running" THEN "cutoff" ELSE h.state]

Init ==
    /\ chat \in Chats /\ head \in [Chats -> {NoHead, RepliedTo}]
    /\ turn = Opened(head[chat]) /\ run = NoRun /\ back = NoRead
    /\ lookup = NoLookup /\ next = {} /\ over = {} /\ quit = {} /\ keys = 0
    /\ job = [k \in Keys |-> NoJob] /\ marks = {}
    /\ starts = {} /\ answers = {} /\ stops = {}
    /\ told = [k \in Keys |-> [i \in Ids |-> 0]]
    /\ given = {} /\ seen = TRUE /\ odd = {} /\ opens = 0 /\ faults = 0

running == run.phase # "none"
Again(k, fired) == IF \E i \in Ids : i > fired /\ told[k][i] > 0 THEN {"again"} ELSE {}
Live(k) == job[k].st \in {"queued", "running"}
Fault == faults < MaxFaults /\ faults' = faults + 1

OtherWords(t) == IF t.words = "edited" THEN "again" ELSE "edited"

(***************************************************************************)
(* Plausible slips in the code, each for the definition it is named for.   *)
(* The specification uses none of them: put in that definition's place,    *)
(* each breaks the property it is there for.                               *)
(***************************************************************************)
ForgetsToRebuild(parts, n) == Append(parts, n)                     \* for Applied
AnnouncesResync(r) == [r EXCEPT !.last = None, !.fired = None]     \* for Resynced
FreshKey == keys + 1                                               \* for RetryKey
KeepsKey(t) == [t EXCEPT !.words = OtherWords(t), !.show = "streaming", !.edit = TRUE,
                         !.ended = "none", !.asked = @ \cup {keys + 1}] \* for Edited
HeadAlways(fresh) == {fresh}                                       \* for Carried
OtherChatOnly == {c \in next : c # lookup.chat /\ c = chat}        \* for LookedUpNext
LetsGoAtOnce(r) == run' = NoRun                                    \* for Hold
WaitsForTheHead == FALSE /\ UNCHANGED vars                         \* for LetsGo
StopsKnownRuns(r) == IF r.phase = "following" THEN {r.key} ELSE {} \* for StopOf

-----------------------------------------------------------------------------
(* The viewer: a message, Retry, an edit, Stop.                            *)

Request(r, heard) ==
    [key |-> r.key, chat |-> chat, seq |-> r.seq, words |-> r.words, kind |-> r.kind, heard |-> heard]

(* #start: the reply begins to be asked for, with a key that stays.        *)
Ask(t, kind, key) ==
    /\ turn' = t
    /\ run' = [NoRun EXCEPT !.phase = "asking", !.seq = t.seq, !.words = t.words,
                            !.kind = kind, !.key = key, !.asks = 1]
    /\ starts' = starts \cup {Request(run', TRUE)}
    /\ keys' = IF key > keys THEN key ELSE keys
    /\ keys' <= MaxKeys
    /\ seen' = TRUE
    /\ UNCHANGED <<chat, back, lookup, next, over, quit, runner, answers, stops, told, odd, opens, faults>>

Send ==
    /\ ~running /\ turn.seq < MaxSeq
    /\ given' = {}
    /\ Ask([NoTurn EXCEPT !.seq = turn.seq + 1, !.show = "streaming", !.asked = {keys + 1}],
           "new", keys + 1)

(* Retry of a start given up on asks with that start's key.                *)
RetryKey == IF turn.kept = None THEN keys + 1 ELSE turn.kept

Retry ==
    /\ ~running /\ turn.seq > 0 /\ Status(turn.show) = "error"
    /\ given' = given
    /\ Ask([turn EXCEPT !.kept = None, !.show = "streaming", !.ended = "none",
                        !.asked = @ \cup {RetryKey}],
           IF turn.edit THEN "edit" ELSE "retry", RetryKey)

Edited(t) == [t EXCEPT !.words = OtherWords(t), !.show = "streaming", !.edit = TRUE,
                       !.ended = "none", !.kept = None, !.asked = @ \cup {keys + 1}]

(* edit, where the runner takes edits: each says something else than the   *)
(* turn did.                                                               *)
Edit ==
    /\ "edit" \in Happens /\ ~running /\ turn.seq > 0
    /\ given' = {}
    /\ Ask(Edited(turn), "edit", keys + 1)

StopOf(r) == {r.key}

(* abort: without an answer to the start the reply ends here at once, and  *)
(* is stopped by its key.                                                  *)
Stop ==
    /\ "stop" \in Happens
    /\ stops' = stops \cup StopOf(run)
    /\ \/ /\ run.phase \in {"asking", "pausing"}
          /\ turn' = IF run.ours THEN [turn EXCEPT !.show = "aborted"] ELSE turn
          /\ run' = NoRun
          /\ quit' = quit \cup {run.key}
          /\ given' = given \ {run.key}
       \/ /\ run.phase = "following" /\ ~run.stop
          /\ run' = [run EXCEPT !.stop = TRUE]
          /\ UNCHANGED <<turn, quit, given>>
    /\ UNCHANGED <<chat, back, lookup, next, over, keys, runner, starts, answers,
                   told, seen, odd, opens, faults>>

-----------------------------------------------------------------------------
(* #start's loop.                                                          *)

(* The turn fails here with Retry, and nothing is read again.              *)
Fails(kept) ==
    /\ turn' = IF run.ours THEN [turn EXCEPT !.show = "failed", !.kept = kept] ELSE turn
    /\ run' = NoRun

StartTaken ==
    \E a \in answers :
        /\ run.phase = "asking" /\ a.key = run.key
        /\ answers' = answers \ {a}
        /\ IF a.what = "started"
           THEN /\ run' = [run EXCEPT !.phase = "following"]
                /\ odd' = odd \cup Again(run.key, None)
                /\ turn' = IF run.ours THEN [turn EXCEPT !.edit = FALSE] ELSE turn
           ELSE Fails(turn.kept) /\ UNCHANGED odd                      \* #refused
        /\ given' = IF run.ours THEN {} ELSE given
        /\ UNCHANGED <<chat, back, lookup, next, over, quit, keys, runner, starts, stops,
                       told, seen, opens, faults>>

(* No answer: the request may have arrived, or be on its way still.        *)
NoAnswer ==
    /\ run.phase = "asking"
    /\ answers' = {a \in answers : a.key # run.key}
    /\ starts' = {IF q.key = run.key THEN [q EXCEPT !.heard = FALSE] ELSE q : q \in starts}
    /\ UNCHANGED <<chat, back, lookup, next, over, quit, keys, runner, stops, told, seen, odd, opens, faults>>

AskFails ==
    /\ NoAnswer /\ run.asks < MaxAsks
    /\ run' = [run EXCEPT !.phase = "pausing"]
    /\ UNCHANGED <<turn, given>>

AskAgain ==
    /\ run.phase = "pausing"
    /\ run' = [run EXCEPT !.phase = "asking", !.asks = @ + 1]
    /\ starts' = starts \cup {Request(run, TRUE)}
    /\ UNCHANGED <<chat, turn, back, lookup, next, over, quit, keys, runner, answers, stops, ghosts>>

(* #gaveUp, past START_GIVE_UP_MS: the run it may have started goes on.    *)
GiveUp ==
    /\ NoAnswer
    /\ Fails(run.key)
    /\ given' = IF run.ours THEN given \cup {run.key} ELSE given

(* An answer to a start that was stopped, or left, meanwhile: one that     *)
(* started a run takes the turn's edit for taken, whichever start asked    *)
(* for it.                                                                 *)
LateAnswer ==
    \E a \in answers :
        /\ ~(run.phase = "asking" /\ a.key = run.key)
        /\ answers' = answers \ {a}
        /\ turn' = IF a.what = "started" /\ a.key \in turn.asked
                   THEN [turn EXCEPT !.edit = FALSE] ELSE turn
        /\ stops' = IF a.what = "started" /\ a.key \in quit THEN stops \cup {a.key} ELSE stops
        /\ UNCHANGED <<chat, run, back, lookup, next, over, quit, keys, runner, starts, ghosts>>

-----------------------------------------------------------------------------
(* #follow: the run's journal.                                             *)

(* #finish: the reply shows no more, and the agent stays running until the *)
(* head was read again.                                                    *)
Hold(r) == run' = [NoRun EXCEPT !.phase = "ending", !.ours = r.ours]

Finish(show, ended, headWins) ==
    /\ Hold(run)
    /\ back' = [NoRead EXCEPT !.on = TRUE, !.seq = run.seq, !.show = show, !.headWins = headWins]
    /\ turn' = IF run.ours THEN [turn EXCEPT !.show = show, !.ended = ended] ELSE turn

(* applyRunEvent: run-started sets the parts, every other event adds one.  *)
Applied(parts, n) == IF n = 0 THEN <<>> ELSE Append(parts, n)

Had(n) == n <= run.last

(* #accept and #apply for the next event, unless it is the last, or for    *)
(* one that comes again.                                                   *)
Hear ==
    \E n \in 0..run.last + 1 :
       /\ run.phase = "following" /\ n < job[run.key].len
       /\ IF Had(n) THEN UNCHANGED <<run, told>>
          ELSE /\ run' = [run EXCEPT !.last = n,
                                     !.parts = Applied(@, n),
                                     !.retries = IF n > 0 /\ n > run.applied THEN Append(@, n) ELSE @,
                                     !.fired = IF n > @ THEN n ELSE @,
                                     !.applied = IF n > @ THEN n ELSE @]
               /\ told' = IF n > 0 /\ n > run.fired THEN [told EXCEPT ![run.key][n] = @ + 1] ELSE told
       /\ UNCHANGED <<chat, turn, back, lookup, next, over, quit, keys, runner, net,
                      given, seen, odd, opens, faults>>

(* #settle: run-ended says how the reply ended.                            *)
HearEnd ==
    /\ run.phase = "following" /\ run.last + 1 = job[run.key].len
    /\ job[run.key].end # "none"
    /\ over' = over \cup {run.key}
    /\ Finish(job[run.key].end, job[run.key].end, FALSE)
    /\ UNCHANGED <<chat, lookup, next, quit, keys, runner, net, ghosts>>

Resynced(r) == [r EXCEPT !.last = None]

(* A message that does not fit: the journal is read again from its start.  *)
Garbled ==
    /\ run.phase = "following" /\ Fault
    /\ run' = Resynced(run)
    /\ UNCHANGED <<chat, turn, back, lookup, next, over, quit, keys, runner, net,
                   told, given, seen, odd, opens>>

(* #lost, #denied: the runner refuses the events.                          *)
LosesTrack ==
    /\ run.phase = "following" /\ Fault
    /\ Finish("failed", "none", TRUE)
    /\ UNCHANGED <<chat, lookup, next, over, quit, keys, runner, net, told, given, seen, odd, opens>>

(* Stop was refused, or STOP_GRACE_MS is over.                             *)
StoppedHere ==
    /\ run.phase = "following" /\ run.stop
    /\ Finish("aborted", "none", TRUE)
    /\ UNCHANGED <<chat, lookup, next, over, quit, keys, runner, net, ghosts>>

-----------------------------------------------------------------------------
(* #reread: the head, and what of it the page shows.                       *)

HeadRead ==
    /\ back.on /\ back.got = <<>>
    /\ back' = [back EXCEPT !.got = <<head[chat]>>]
    /\ UNCHANGED <<chat, turn, run, lookup, next, over, quit, keys, runner, net, ghosts>>

(* How the turn read back may show (holdsMore is left open).               *)
Carried(fresh) ==
    IF back.headWins
    THEN {fresh} \cup (IF fresh = "cutoff" THEN {back.show} ELSE {})
    ELSE {IF Status(fresh) # Status(back.show) THEN back.show ELSE fresh}

Release == run' = IF run.phase = "ending" THEN NoRun ELSE [run EXCEPT !.ours = FALSE]

HeadOpens ==
    /\ back.got # <<>>
    /\ LET t == Opened(back.got[1])
       IN IF t.seq = back.seq
          THEN \E show \in Carried(t.show) :
                 turn' = [t EXCEPT !.show = show, !.ended = IF back.headWins THEN "none" ELSE back.show]
          ELSE turn' = t
    /\ Release
    /\ back' = NoRead /\ given' = {}
    /\ UNCHANGED <<chat, lookup, next, over, quit, keys, runner, net, told, seen, odd, opens, faults>>

HeadFails ==
    /\ back.on /\ Fault
    /\ back' = NoRead
    /\ run' = IF run.phase = "ending" THEN NoRun ELSE run
    /\ UNCHANGED <<chat, turn, lookup, next, over, quit, keys, runner, net, told, given, seen, odd, opens>>

(* The read goes on past REREAD_TIMEOUT_MS.                                *)
LetsGo ==
    /\ run.phase = "ending"
    /\ run' = NoRun
    /\ odd' = odd \cup {"late"}
    /\ UNCHANGED <<chat, turn, back, lookup, next, over, quit, keys, runner, net, told, given, seen, opens, faults>>

-----------------------------------------------------------------------------
(* Chats opened, and the runs found in them.                               *)

(* openConversation of a saved chat, and leave() before it: a reply, and a *)
(* read of a head, go no further here.                                     *)
OpenChat ==
    \E c \in Chats :
        /\ opens < MaxOpens /\ opens' = opens + 1
        /\ chat' = c /\ turn' = Opened(head[c])
        /\ run' = NoRun /\ back' = NoRead /\ given' = {}
        /\ IF lookup.phase = "none"
           THEN /\ lookup' = [NoLookup EXCEPT !.phase = "asked", !.chat = c]
                /\ seen' = TRUE /\ next' = next
           ELSE /\ lookup' = [lookup EXCEPT !.left = TRUE]
                /\ seen' = FALSE /\ next' = {c}
        /\ UNCHANGED <<over, quit, keys, runner, net, told, odd, faults>>

(* Runner.lookup: the live run of the chat, and its latest event.          *)
LookUp ==
    /\ lookup.phase = "asked"
    /\ \/ \E k \in Keys :
             /\ Live(k) /\ job[k].chat = lookup.chat
             /\ lookup' = [lookup EXCEPT !.phase = "found", !.key = k, !.last = job[k].len - 1]
       \/ /\ \A k \in Keys : ~(Live(k) /\ job[k].chat = lookup.chat)
          /\ lookup' = [lookup EXCEPT !.phase = "found"]
    /\ UNCHANGED <<chat, turn, run, back, next, over, quit, keys, runner, net, ghosts>>

(* The chat asked for meanwhile, if it is the open one still.              *)
LookedUpNext == {c \in next : (c # lookup.chat \/ lookup.left) /\ c = chat}

(* The end of a lookup: the next one, unless a reply runs.                 *)
LookupOver ==
    /\ next' = {}
    /\ IF LookedUpNext # {} /\ run'.phase = "none"
       THEN /\ lookup' = [NoLookup EXCEPT !.phase = "asked", !.chat = chat]
            /\ seen' = TRUE
       ELSE lookup' = NoLookup /\ seen' = seen

NotOver(k) == k \notin over

MayAttach ==
    /\ ~lookup.left /\ lookup.key # None /\ NotOver(lookup.key)
    /\ ~running /\ chat = lookup.chat
    /\ job[lookup.key].seq \in {turn.seq, turn.seq + 1}

Attach ==
    /\ lookup.phase = "found" /\ MayAttach
    /\ LET k == lookup.key
           t == IF job[k].seq = turn.seq THEN turn
                ELSE [NoTurn EXCEPT !.seq = job[k].seq, !.words = job[k].words]
       IN /\ turn' = [t EXCEPT !.show = "streaming", !.ended = "none"]
          /\ run' = [NoRun EXCEPT !.phase = "following", !.seq = t.seq, !.words = t.words,
                                  !.kind = "found", !.key = k, !.fired = lookup.last]
          /\ odd' = odd \cup Again(k, lookup.last)
          /\ given' = IF t.seq = turn.seq THEN given ELSE {}
    /\ LookupOver
    /\ UNCHANGED <<chat, back, over, quit, keys, runner, net, told, opens, faults>>

(* It names no run to follow, or it fails.                                 *)
LookupEnds ==
    /\ \/ lookup.phase = "found" /\ ~MayAttach /\ UNCHANGED faults
       \/ lookup.phase # "none" /\ Fault
    /\ UNCHANGED run
    /\ LookupOver
    /\ UNCHANGED <<chat, turn, back, over, quit, keys, runner, net, told, given, odd, opens>>

-----------------------------------------------------------------------------
(* The runner.                                                             *)

Accepts(h, q) ==
    /\ q.seq = h.seq + 1 \/ (q.kind # "new" /\ q.seq = h.seq)
    /\ q.kind = "retry" /\ q.seq = h.seq => q.words = h.words

LiveIn(c) == \E k \in Keys : Live(k) /\ job[k].chat = c

Enqueue(q) ==
    job' = [job EXCEPT ![q.key] = [NoJob EXCEPT !.st = "queued", !.chat = q.chat, !.seq = q.seq,
                                                !.words = q.words]]

(* Runner.start: the run this key made, a refusal, or a run.               *)
TakeStart ==
    \E q \in starts :
        /\ starts' = starts \ {q}
        /\ LET made == job[q.key].st # "none"
               takes == ~LiveIn(q.chat) /\ Accepts(head[q.chat], q)
           IN /\ IF ~made /\ takes THEN Enqueue(q) ELSE UNCHANGED job
              /\ answers' = IF ~q.heard THEN answers
                            ELSE answers \cup {[key |-> q.key, what |-> CASE made \/ takes -> "started"
                                                                          [] LiveIn(q.chat) -> "run-active"
                                                                          [] OTHER -> "stale-turn"]}
        /\ UNCHANGED <<page, marks, head, stops, ghosts>>

(* Another device of the viewer's sends, or edits, in a chat.              *)
OtherStarts ==
    /\ "otherDevice" \in Happens
    /\ \E c \in Chats, kind \in {"new", "edit"} :
           LET h == head[c]
               q == [key |-> Other, chat |-> c, kind |-> kind, words |-> "elsewhere",
                     seq |-> IF kind = "edit" THEN h.seq ELSE h.seq + 1]
           IN /\ job[Other].st = "none" /\ ~LiveIn(c) /\ q.seq \in 1..MaxSeq
              /\ Enqueue(q)
              /\ UNCHANGED <<page, marks, head, net, ghosts>>

Begin(k) ==
    /\ job[k].st = "queued"
    /\ job' = [job EXCEPT ![k].st = "running", ![k].len = 1, ![k].stop = k \in marks]
    /\ head' = [head EXCEPT ![job[k].chat] = [seq |-> job[k].seq, words |-> job[k].words, by |-> k,
                                              state |-> "running"]]
    /\ UNCHANGED <<page, marks, net, ghosts>>

Emit(k) ==
    /\ job[k].st = "running" /\ ~job[k].stop /\ job[k].len <= MaxEvents
    /\ job' = [job EXCEPT ![k].len = @ + 1]
    /\ UNCHANGED <<page, marks, head, net, ghosts>>

(* The run journals its end: after the head has it, or, when that save     *)
(* failed, before.                                                         *)
End(k) ==
    \E end \in Ends, saved \in BOOLEAN :
        /\ job[k].st = "running" /\ (end = "aborted" <=> job[k].stop)
        /\ job' = [job EXCEPT ![k].st = "ended", ![k].end = end, ![k].saved = saved]
        /\ IF saved
           THEN head' = [head EXCEPT ![job[k].chat].state = end] /\ UNCHANGED faults
           ELSE Fault /\ UNCHANGED head
        /\ UNCHANGED <<page, marks, net, told, given, seen, odd, opens>>

SaveEnd(k) ==
    /\ ~job[k].saved
    /\ job' = [job EXCEPT ![k].saved = TRUE]
    /\ head' = IF head[job[k].chat].by = k
               THEN [head EXCEPT ![job[k].chat].state = job[k].end] ELSE head
    /\ UNCHANGED <<page, marks, net, ghosts>>

(* Runner.stop and stopByKey, sent again until they arrive.                *)
TakeStop ==
    \E k \in stops :
        /\ stops' = stops \ {k}
        /\ marks' = IF job[k].st \in {"none", "queued"} THEN marks \cup {k} ELSE marks
        /\ job' = IF job[k].st = "running" THEN [job EXCEPT ![k].stop = TRUE] ELSE job
        /\ UNCHANGED <<page, head, starts, answers, ghosts>>
-----------------------------------------------------------------------------
Next ==
    \/ Send \/ Retry \/ Edit \/ Stop
    \/ StartTaken \/ AskFails \/ AskAgain \/ GiveUp \/ LateAnswer
    \/ Hear \/ HearEnd \/ Garbled \/ LosesTrack \/ StoppedHere
    \/ HeadRead \/ HeadOpens \/ HeadFails \/ LetsGo
    \/ OpenChat \/ LookUp \/ Attach \/ LookupEnds
    \/ TakeStart \/ OtherStarts \/ TakeStop
    \/ \E k \in Keys : Begin(k) \/ Emit(k) \/ End(k) \/ SaveEnd(k)

Spec == Init /\ [][Next]_vars

(* The page's timers fire, what arrived is handled, a stop gets through    *)
(* within STOP_ATTEMPTS, and the runner begins what it queued and ends     *)
(* what it is told to stop (Runner).  A start, a lookup, or the read of a  *)
(* head may hang for good.                                                 *)
Fairness ==
    /\ WF_vars(StartTaken) /\ WF_vars(LateAnswer) /\ WF_vars(AskAgain)
    /\ WF_vars(Hear) /\ WF_vars(HearEnd) /\ WF_vars(StoppedHere) /\ WF_vars(LetsGo)
    /\ WF_vars(TakeStop)
    /\ \A k \in Keys : WF_vars(Begin(k)) /\ WF_vars(End(k) /\ job[k].stop)

FairSpec == Spec /\ Fairness
-----------------------------------------------------------------------------
(* The parts a followed reply shows are the journal's up to the latest     *)
(* event read, however often it was read again (#accept, applyRunEvent).   *)
ShownIsTheJournal ==
    run.phase = "following" /\ run.last # None => run.parts = [i \in 1..run.last |-> i]

(* The turn keeps each retry of the journal once, in order                 *)
(* (appliedThrough), and the page announces an event of a run at most once *)
(* (firedThrough), over resyncs and follows of it again, unless a lookup   *)
(* answered before, or a key kept from before, the last was announced      *)
(* followed the run again.                                                 *)
EventsCountOnce ==
    /\ run.retries = [i \in 1..Len(run.retries) |-> i]
    /\ "again" \notin odd => \A k \in Keys, i \in Ids : told[k][i] <= 1

(* How run-ended said a reply ended is how its turn shows it, even when    *)
(* the head read afterwards does not have the end yet (#reread).           *)
SettledEndIsShown == turn.ended # "none" => Status(turn.show) = Status(turn.ended)

(* A reply that is asked for, or followed, has its turn in the chat on the *)
(* page: nothing sent lands on a chat being replaced (#finish), unless the *)
(* reading of it outlived its timeout.                                     *)
SentTurnStays == run.phase \in {"asking", "pausing", "following"} /\ ~run.ours => "late" \in odd

(* The run a start follows answers the words its turn shows: an edit given *)
(* up on or refused, or taken for taken by a late answer, is never         *)
(* followed as a run of the words before it (edit, retry).                 *)
EditIsNotDropped ==
    run.phase = "following" /\ run.kind # "found" /\ run.ours => job[run.key].words = turn.words

(* Retry of an edit the runner has not taken asks for the edit, since the  *)
(* runner's head still holds the old message (#edited).  An answer that    *)
(* comes late, to a start stopped before a second edit, clears #edited all *)
(* the same: the Retry is refused as a stale turn.                         *)
RetryAsksTheEdit ==
    [][\A q \in starts' \ starts :
          q.kind = "retry" /\ q.seq = head[q.chat].seq /\ ~LiveIn(q.chat) => q.words = head[q.chat].words]_vars

(* A start given up on that made a run after all does not stand in the way *)
(* of its own Retry (#unanswered).                                         *)
RetryFindsItsRun ==
    [][\A q \in starts \ starts' : q.heard /\ q.key = run.key /\ job[q.key].st = "none" /\ run.ours
          => \A k \in given \ {q.key} : ~(Live(k) /\ job[k].chat = q.chat)]_vars

(* Once no lookup is on its way the open chat was looked up since it was   *)
(* opened, whatever other chats were opened while one was (reattach).      *)
OpenChatIsLookedUp == lookup.phase = "none" => seen

(* A reply that was stopped, or whose run ended, lets go of the page,      *)
(* whatever hangs (STOP_GRACE_MS, REREAD_TIMEOUT_MS).                      *)
ReplyLetsGo ==
    run.phase = "following" /\ (run.stop \/ job[run.key].st = "ended") ~> ~running

(* The run of a start stopped before its answer ends, though the start may *)
(* arrive after the stop (abort, stopByKey).                               *)
StoppedStartEnds == \A k \in Keys : k \in quit ~> ~Live(k)
=============================================================================
