---------------------------- MODULE RemoteProofs ----------------------------
(***************************************************************************)
(* The page's side of a reply (RemoteAgent), for any number of chats,      *)
(* keys, events, opens and faults, and messages as late as they may be.    *)
(*                                                                         *)
(* Each safety property needs what the page knows of the runner at that    *)
(* moment: which words a key was ever asked with, how far a journal was    *)
(* announced and applied, and what a lookup or a head read that is still   *)
(* on its way was asked for.                                               *)
(***************************************************************************)
EXTENDS RemoteAgent, TLAPS

Words == {"said", "edited", "again", "elsewhere"}
Shows == Ends \cup {"none", "streaming", "cutoff"}
Started == {"asking", "pausing", "following"}
Places == Ids \cup {None}

Turn == [seq : Nat, words : Words, show : Shows, kept : Keys \cup {None}, edit : BOOLEAN,
         ended : Ends \cup {"none"}, asked : SUBSET Nat]
Run == [phase : Started \cup {"none", "ending"}, seq : Nat, words : Words,
        kind : {"new", "retry", "edit", "found"}, key : Keys \cup {None}, asks : Nat,
        ours : BOOLEAN, stop : BOOLEAN, last : Places, parts : Seq(Ids), fired : Places,
        applied : Places, retries : Seq(Ids)]
Saved == [seq : Nat, words : Words, by : Keys \cup {None}, state : Ends \cup {"none", "running"}]
Read == [on : BOOLEAN, seq : Nat, show : Ends \cup {"none"}, headWins : BOOLEAN, got : Seq(Saved)]
Lookup == [phase : {"none", "asked", "found"}, chat : Chats, left : BOOLEAN,
           key : Keys \cup {None}, last : Places]
Job == [st : {"none", "queued", "running", "ended"}, chat : Chats, seq : Nat, words : Words,
        len : 0..(MaxEvents + 1), stop : BOOLEAN, end : Ends \cup {"none"}, saved : BOOLEAN]
Asked == [key : Keys, chat : Chats, seq : Nat, words : Words, kind : {"new", "retry", "edit"},
          heard : BOOLEAN]
Answer == [key : Keys, what : {"started", "run-active", "stale-turn"}]

PageTypes ==
    /\ chat \in Chats /\ turn \in Turn /\ run \in Run /\ back \in Read /\ lookup \in Lookup
    /\ next \subseteq Chats /\ over \subseteq Keys /\ quit \subseteq Keys /\ keys \in Keys
RestTypes ==
    /\ job \in [Keys -> Job] /\ marks \subseteq Keys /\ head \in [Chats -> Saved]
    /\ starts \subseteq Asked /\ answers \subseteq Answer /\ stops \subseteq Keys
    /\ told \in [Keys -> [Ids -> Nat]] /\ given \subseteq Keys /\ seen \in BOOLEAN
    /\ odd \subseteq {"late", "again"} /\ opens \in Nat /\ faults \in Nat
(* A reply that was started has a key; one that ends or is none has not.   *)
(* One that was found is not asked for.                                    *)
RunHasKey ==
    /\ run.phase \in Started <=> run.key # None
    /\ run.phase \in {"asking", "pausing"} => run.kind # "found"
TypeInv == PageTypes /\ RestTypes /\ RunHasKey

(* A head that is read while no reply ends was let go of.                  *)
ReadIsLate == back.on /\ run.phase # "ending" => "late" \in odd
GotIsOn == back.got # <<>> => back.on
ReadInv == ReadIsLate /\ GotIsOn /\ SentTurnStays

(* No end is settled for the turn of a reply that goes on.                 *)
Unsettled == run.phase \in Started /\ run.ours => turn.ended = "none"
EndInv == Unsettled /\ SettledEndIsShown

(* What was applied of the journal is all of it up to an event, which is   *)
(* never behind the event read last.                                       *)
UpTo(n) == [i \in 1..n |-> i]
JournalInv ==
    /\ run.retries = UpTo(run.applied) /\ run.last <= run.applied
    /\ run.last # None => run.parts = UpTo(run.last)

(* Nothing beyond firedThrough was announced of the run that is followed.  *)
ToldOnce == \A k \in Keys, i \in Ids : told[k][i] <= 1
NoneBeyond == run.phase = "following" => \A i \in Ids : i > run.fired => told[run.key][i] = 0
CountInv == "again" \notin odd => ToldOnce /\ NoneBeyond

(* A chat not looked up waits for the lookup of the chat left before it.   *)
LookupInv ==
    ~seen => lookup.phase # "none" /\ lookup.left /\ next = {chat} /\ run.phase = "none"

(* All that was ever asked with key k says w, on its way or made a run.    *)
Says(k, w) ==
    /\ \A q \in starts : q.key = k => q.words = w
    /\ job[k].st # "none" => job[k].words = w
Made(k) == job[k].st # "none"
NetKeys ==
    /\ \A q \in starts : q.key \in 1..keys
    /\ \A a \in answers : a.key \in 1..keys /\ (a.what = "started" => Made(a.key))
    /\ \A k \in Keys : k > keys => ~Made(k)
    /\ lookup.key # None => Made(lookup.key)
PageKeys ==
    /\ turn.kept \in 1..keys \cup {None}
    /\ run.phase \in Started /\ run.kind # "found" => run.key \in 1..keys
AskSays ==
    /\ run.phase \in {"asking", "pausing"} => Says(run.key, run.words) /\ turn.kept = None
    /\ turn.kept # None => Says(turn.kept, turn.words)
FollowSays ==
    /\ run.phase = "following" => Made(run.key)
    /\ run.phase = "following" /\ run.kind # "found" => job[run.key].words = run.words
    /\ run.phase \in Started /\ run.kind # "found" /\ run.ours => run.words = turn.words
WordsInv == NetKeys /\ PageKeys /\ AskSays /\ FollowSays

(* The starts given up on are the one asked for again, or the one whose    *)
(* key was kept.                                                           *)
GivenInv ==
    /\ run.phase \in Started /\ ~run.ours => given = {}
    /\ IF run.phase \in {"asking", "pausing"} THEN given \subseteq {run.key}
       ELSE given \subseteq {turn.kept}

RemoteInv ==
    TypeInv /\ ReadInv /\ EndInv /\ JournalInv /\ CountInv /\ LookupInv /\ WordsInv /\ GivenInv

(***************************************************************************)
(* Type correctness                                                        *)
(***************************************************************************)

LEMMA Bounds ==
    /\ MaxKeys \in Nat /\ MaxSeq \in Nat /\ MaxEvents \in Nat /\ MaxFaults \in Nat
    /\ Other = 0 /\ Other \in Keys /\ 0 \in Ids /\ None \notin Keys /\ None \notin Ids
    /\ None = -1 /\ Keys \subseteq Nat /\ Ids \subseteq Nat
BY RemoteAssumption DEF Keys, Ids, None

(* The records of nothing have the types of their variables.               *)
LEMMA Nothings ==
    /\ NoTurn \in Turn /\ NoRun \in Run /\ NoRead \in Read
    /\ Chats # {} => NoLookup \in Lookup /\ NoJob \in Job
<1>1. <<>> \in Seq(Ids) /\ <<>> \in Seq(Saved)
    OBVIOUS
<1>2. Chats # {} => (CHOOSE d \in Chats : TRUE) \in Chats
    OBVIOUS
<1> QED
    BY <1>1, <1>2, Bounds DEF NoTurn, NoRun, NoRead, NoLookup, NoJob, Turn, Run, Read, Lookup, Job,
        Words, Shows, Ends, Started, Places

(* The head read again.                                                    *)
LEMMA OpenedType == ASSUME NEW h \in Saved PROVE Opened(h) \in Turn
<1> DEFINE show == IF h.state = "running" THEN "cutoff" ELSE h.state
<1>1. show \in Shows /\ h.seq \in Nat /\ h.words \in Words
    BY DEF Saved, Shows
<1>2. Opened(h) = [NoTurn EXCEPT !.seq = h.seq, !.words = h.words, !.show = show]
    BY DEF Opened
<1> HIDE DEF show
<1> QED
    BY <1>1, <1>2, Nothings DEF Turn

LEMMA InitTypes == Init => TypeInv
<1> SUFFICES ASSUME Init PROVE TypeInv
    OBVIOUS
<1>1. Chats # {} /\ 0 \in Keys
    BY Bounds DEF Init
<1>2. NoHead \in Saved /\ RepliedTo \in Saved
    BY DEF NoHead, RepliedTo, Saved, Words, Ends
<1>3. NoRun.phase = "none" /\ NoRun.key = None
    BY DEF NoRun
<1>4. head \in [Chats -> Saved] /\ chat \in Chats
    BY <1>2 DEF Init
<1>5. turn \in Turn
    BY <1>4, OpenedType DEF Init
<1> QED
    BY <1>1, <1>3, <1>4, <1>5, Nothings DEF Init, TypeInv, PageTypes, RestTypes, RunHasKey, Started

(* What is asked with a run's key is a request.                            *)
LEMMA RequestType ==
    ASSUME chat \in Chats, NEW r \in Run, r.key # None, r.kind # "found", NEW heard \in BOOLEAN
    PROVE  Request(r, heard) \in Asked
BY DEF Run, Request, Asked

(* A reply that begins to be asked for.                                    *)
LEMMA AskTypes ==
    ASSUME TypeInv, NEW t \in Turn, NEW kind \in {"new", "retry", "edit"}, NEW key \in Nat,
           given' \subseteq Keys, Ask(t, kind, key)
    PROVE  TypeInv'
<1>1. key \in Keys /\ keys' \in Keys
    BY Bounds DEF Ask, TypeInv, PageTypes, Keys
<1>2. run' = [NoRun EXCEPT !.phase = "asking", !.seq = t.seq, !.words = t.words,
                           !.kind = kind, !.key = key, !.asks = 1]
    BY DEF Ask
<1>3. run' \in Run /\ run'.phase = "asking" /\ run'.key = key /\ run'.kind = kind
    BY <1>1, <1>2, Nothings DEF Run, Turn, Started, NoRun
<1>4. Request(run', TRUE) \in Asked
    <2>1. key # None
        BY <1>1, Bounds
    <2> QED
        BY <1>3, <2>1 DEF Request, Asked, Run, TypeInv, PageTypes
<1>5. starts' \subseteq Asked
    BY <1>4 DEF Ask, TypeInv, RestTypes
<1>6. RunHasKey'
    BY <1>1, <1>3, Bounds DEF RunHasKey, Started
<1> QED
    BY <1>1, <1>3, <1>5, <1>6 DEF Ask, TypeInv, PageTypes, RestTypes, runner

(* The viewer's steps.                                                     *)
LEMMA ViewerTypes == ASSUME TypeInv, Send \/ Retry \/ Edit \/ Stop PROVE TypeInv'
<1> USE DEF TypeInv, PageTypes, RestTypes
<1>0. keys + 1 \in Nat /\ turn.seq + 1 \in Nat /\ turn.kept \in Keys \cup {None}
    BY Bounds DEF Turn
<1>1. CASE Send
    <2>1. [NoTurn EXCEPT !.seq = turn.seq + 1, !.show = "streaming", !.asked = {keys + 1}] \in Turn
        BY <1>0, Nothings DEF Turn, Shows
    <2> QED
        BY <1>0, <1>1, <2>1, AskTypes DEF Send
<1>2. CASE Retry
    <2>1. RetryKey \in Nat
        BY <1>0, Bounds DEF RetryKey
    <2>2. [turn EXCEPT !.kept = None, !.show = "streaming", !.ended = "none",
                         !.asked = @ \cup {RetryKey}] \in Turn
        BY <2>1 DEF Turn, Shows
    <2> QED
        BY <1>2, <2>2, <2>1, AskTypes DEF Retry
<1>3. CASE Edit
    <2>1. Edited(turn) \in Turn
        BY <1>0 DEF Turn, Shows, Words, Edited, OtherWords
    <2> QED
        BY <1>0, <1>3, <2>1, AskTypes DEF Edit
<1>4. CASE Stop
    <2>1. run.phase \in Started
        BY <1>4 DEF Stop, Started
    <2>2. run.key \in Keys
        BY <2>1 DEF RunHasKey, Run
    <2>3. stops' \subseteq Keys
        BY <1>4, <2>2 DEF Stop, StopOf
    <2>4. [turn EXCEPT !.show = "aborted"] \in Turn
        BY DEF Turn, Shows, Ends
    <2>5. [run EXCEPT !.stop = TRUE] \in Run /\ [run EXCEPT !.stop = TRUE].phase = run.phase
          /\ [run EXCEPT !.stop = TRUE].key = run.key /\ [run EXCEPT !.stop = TRUE].kind = run.kind
        BY DEF Run
    <2>6. NoRun.phase = "none" /\ NoRun.key = None
        BY DEF NoRun
    <2>7. CASE run.phase \in {"asking", "pausing"} /\ run' = NoRun
        BY <1>4, <2>2, <2>3, <2>4, <2>6, <2>7, Nothings
        DEF Stop, RunHasKey, Started, runner, ghosts
    <2>8. CASE run' = [run EXCEPT !.stop = TRUE]
        BY <1>4, <2>1, <2>2, <2>3, <2>4, <2>5, <2>8 DEF Stop, RunHasKey, Started, runner, ghosts
    <2> QED
        BY <1>4, <2>7, <2>8 DEF Stop
<1> QED
    BY <1>1, <1>2, <1>3, <1>4

(* A reply that ends on the page leaves its turn as it says.               *)
LEMMA FinishTypes ==
    ASSUME PageTypes, NEW show \in Ends, NEW ended \in Ends \cup {"none"},
           NEW headWins \in BOOLEAN, Finish(show, ended, headWins)
    PROVE  turn' \in Turn /\ run' \in Run /\ back' \in Read /\ RunHasKey'
<1> USE DEF PageTypes
<1>1. turn' \in Turn
    <2>1. [turn EXCEPT !.show = show, !.ended = ended] \in Turn
        BY DEF Turn, Shows
    <2> QED
        BY <2>1 DEF Finish
<1>2. run' = [NoRun EXCEPT !.phase = "ending", !.ours = run.ours]
    BY DEF Finish, Hold
<1>3. run' \in Run /\ run'.phase = "ending" /\ run'.key = None
    BY <1>2, Nothings DEF Run, NoRun
<1>4. back' = [NoRead EXCEPT !.on = TRUE, !.seq = run.seq, !.show = show, !.headWins = headWins]
    BY DEF Finish
<1>5. back' \in Read
    BY <1>4, Nothings DEF Run, Read
<1> QED
    BY <1>1, <1>3, <1>5 DEF RunHasKey, Started

(* The steps of #start's loop.                                             *)
LEMMA FailsTypes ==
    ASSUME PageTypes, NEW kept \in Keys \cup {None}, Fails(kept)
    PROVE  turn' \in Turn /\ run' \in Run /\ RunHasKey'
<1>1. [turn EXCEPT !.show = "failed", !.kept = kept] \in Turn
    BY DEF Turn, Shows, Ends, PageTypes
<1>2. NoRun.phase = "none" /\ NoRun.key = None
    BY DEF NoRun
<1> QED
    BY <1>1, <1>2, Nothings DEF Fails, PageTypes, RunHasKey, Started

LEMMA NoAnswerTypes ==
    ASSUME RestTypes, NoAnswer
    PROVE  starts' \subseteq Asked /\ answers' \subseteq Answer
<1>1. \A q \in starts : [q EXCEPT !.heard = FALSE] \in Asked
    BY DEF Asked, RestTypes
<1> QED
    BY <1>1 DEF NoAnswer, RestTypes

LEMMA AgainType == ASSUME NEW k, NEW fired PROVE Again(k, fired) \subseteq {"again"}
BY DEF Again

LEMMA StartTypes ==
    ASSUME TypeInv, StartTaken \/ AskFails \/ AskAgain \/ GiveUp \/ LateAnswer
    PROVE  TypeInv'
<1> USE DEF TypeInv, PageTypes, RestTypes
<1>1. run.phase \in Started => run.key \in Keys
    BY DEF RunHasKey, Run
<1>2. CASE StartTaken
    <2>1. PICK a \in answers :
              /\ run.phase = "asking" /\ a.key = run.key
              /\ answers' = answers \ {a}
              /\ IF a.what = "started"
                 THEN /\ run' = [run EXCEPT !.phase = "following"]
                      /\ odd' = odd \cup Again(run.key, None)
                      /\ turn' = IF run.ours THEN [turn EXCEPT !.edit = FALSE] ELSE turn
                 ELSE Fails(turn.kept) /\ UNCHANGED odd
              /\ given' = IF run.ours THEN {} ELSE given
              /\ UNCHANGED <<chat, back, lookup, next, over, quit, keys, runner, starts, stops,
                             told, seen, opens, faults>>
        BY <1>2 DEF StartTaken
    <2>2. CASE a.what = "started"
        <3>1. [turn EXCEPT !.edit = FALSE] \in Turn
            BY DEF Turn
        <3>2. run' = [run EXCEPT !.phase = "following"]
            BY <2>1, <2>2
        <3>3. run' \in Run /\ run'.phase = "following" /\ run'.key = run.key
            BY <3>2 DEF Run, Started
        <3>4. RunHasKey'
            BY <1>1, <2>1, <3>3, Bounds DEF RunHasKey, Started
        <3>5. odd' \subseteq {"late", "again"}
            BY <2>1, <2>2, AgainType
        <3> QED
            BY <2>1, <2>2, <3>1, <3>3, <3>4, <3>5 DEF runner
    <2>3. CASE a.what # "started"
        <3>1. turn.kept \in Keys \cup {None}
            BY DEF Turn
        <3>2. turn' \in Turn /\ run' \in Run /\ RunHasKey'
            BY <2>1, <2>3, <3>1, FailsTypes
        <3> QED
            BY <2>1, <2>3, <3>2 DEF runner
    <2> QED
        BY <2>2, <2>3
<1>3. CASE AskFails
    <2>1. run' = [run EXCEPT !.phase = "pausing"]
        BY <1>3 DEF AskFails
    <2>2. run' \in Run /\ run'.phase = "pausing" /\ run'.key = run.key /\ run'.kind = run.kind
        BY <2>1 DEF Run, Started
    <2>3. RunHasKey'
        BY <1>1, <1>3, <2>2, Bounds DEF RunHasKey, Started, AskFails, NoAnswer
    <2> QED
        BY <1>3, <2>2, <2>3, NoAnswerTypes DEF AskFails, NoAnswer, runner
<1>4. CASE AskAgain
    <2>1. run.asks + 1 \in Nat
        BY DEF Run
    <2>2. run' = [run EXCEPT !.phase = "asking", !.asks = run.asks + 1]
        BY <1>4 DEF AskAgain
    <2>3. run' \in Run /\ run'.phase = "asking" /\ run'.key = run.key /\ run'.kind = run.kind
        BY <2>1, <2>2 DEF Run, Started
    <2>4. RunHasKey'
        BY <1>1, <1>4, <2>3, Bounds DEF RunHasKey, Started, AskAgain
    <2>5. Request(run, TRUE) \in Asked
        BY <1>1, <1>4, RequestType DEF RunHasKey, Started, AskAgain
    <2> QED
        BY <1>4, <2>3, <2>4, <2>5 DEF AskAgain, runner, ghosts
<1>5. CASE GiveUp
    <2>1. run.key \in Keys
        BY <1>1, <1>5 DEF GiveUp, NoAnswer, Started
    <2>2. turn' \in Turn /\ run' \in Run /\ RunHasKey'
        BY <1>5, <2>1, FailsTypes DEF GiveUp
    <2> QED
        BY <1>5, <2>1, <2>2, NoAnswerTypes DEF GiveUp, NoAnswer, runner
<1>6. CASE LateAnswer
    <2>1. \A a \in answers : a.key \in Keys
        BY DEF Answer
    <2>2. [turn EXCEPT !.edit = FALSE] \in Turn
        BY DEF Turn
    <2> QED
        BY <1>6, <2>1, <2>2 DEF LateAnswer, runner, ghosts, RunHasKey
<1> QED
    BY <1>2, <1>3, <1>4, <1>5, <1>6

(* The next event of the journal, heard; one that comes again is dropped.  *)
Hears ==
    LET n == run.last + 1
    IN /\ run.phase = "following" /\ n < job[run.key].len
       /\ run' = [run EXCEPT !.last = n,
                             !.parts = Applied(@, n),
                             !.retries = IF n > 0 /\ n > run.applied THEN Append(@, n) ELSE @,
                             !.fired = IF n > @ THEN n ELSE @,
                             !.applied = IF n > @ THEN n ELSE @]
       /\ told' = IF n > 0 /\ n > run.fired THEN [told EXCEPT ![run.key][n] = @ + 1] ELSE told
       /\ UNCHANGED <<chat, turn, back, lookup, next, over, quit, keys, runner, net,
                      given, seen, odd, opens, faults>>

LEMMA HearIs == ASSUME TypeInv, Hear PROVE Hears \/ UNCHANGED vars
<1>1. PICK n \in 0..run.last + 1 :
          /\ run.phase = "following" /\ n < job[run.key].len
          /\ IF Had(n) THEN UNCHANGED <<run, told>>
             ELSE /\ run' = [run EXCEPT !.last = n,
                                        !.parts = Applied(@, n),
                                        !.retries = IF n > 0 /\ n > run.applied THEN Append(@, n) ELSE @,
                                        !.fired = IF n > @ THEN n ELSE @,
                                        !.applied = IF n > @ THEN n ELSE @]
                  /\ told' = IF n > 0 /\ n > run.fired
                             THEN [told EXCEPT ![run.key][n] = @ + 1] ELSE told
          /\ UNCHANGED <<chat, turn, back, lookup, next, over, quit, keys, runner, net,
                         given, seen, odd, opens, faults>>
    BY DEF Hear
<1>2. CASE Had(n)
    BY <1>1, <1>2 DEF vars, page, ghosts
<1>3. CASE ~Had(n)
    <2>1. run.last \in Int
        BY Bounds DEF TypeInv, PageTypes, Run, Places, Ids
    <2>2. n = run.last + 1
        BY <1>3, <2>1 DEF Had
    <2> QED
        BY <1>1, <1>3, <2>2 DEF Hears
<1> QED
    BY <1>2, <1>3

(* The journal followed.                                                   *)
LEMMA FollowTypes ==
    ASSUME TypeInv, Hears \/ HearEnd \/ Garbled \/ LosesTrack \/ StoppedHere
    PROVE  TypeInv'
<1> USE DEF TypeInv, PageTypes, RestTypes
<1>1. run.phase = "following" => run.key \in Keys
    BY DEF RunHasKey, Run, Started
<1>2. CASE Hears
    <2> DEFINE n == run.last + 1
    <2>1. n \in Ids
        <3>1. run.key \in Keys /\ n < job[run.key].len
            BY <1>1, <1>2 DEF Hears
        <3>2. job[run.key].len \in 0..(MaxEvents + 1)
            BY <3>1 DEF Job
        <3>3. run.last \in Ids \cup {None}
            BY DEF Run, Places
        <3>4. run.last \in -1..MaxEvents
            BY <3>3, Bounds DEF Ids
        <3> QED
            BY <3>1, <3>2, <3>4, Bounds DEF Ids
    <2>2. /\ Applied(run.parts, n) \in Seq(Ids)
          /\ Append(run.retries, n) \in Seq(Ids) /\ run.retries \in Seq(Ids)
        BY <2>1 DEF Applied, Run
    <2>3. run' = [run EXCEPT !.last = n,
                             !.parts = Applied(@, n),
                             !.retries = IF n > 0 /\ n > run.applied THEN Append(@, n) ELSE @,
                             !.fired = IF n > @ THEN n ELSE @,
                             !.applied = IF n > @ THEN n ELSE @]
        BY <1>2 DEF Hears
    <2>4. run' \in Run /\ run'.phase = run.phase /\ run'.key = run.key /\ run'.kind = run.kind
        <3> DEFINE parts == Applied(run.parts, n)
                   retries == IF n > 0 /\ n > run.applied THEN Append(run.retries, n) ELSE run.retries
                   fired == IF n > run.fired THEN n ELSE run.fired
                   applied == IF n > run.applied THEN n ELSE run.applied
        <3>1. /\ parts \in Seq(Ids) /\ retries \in Seq(Ids)
              /\ fired \in Places /\ applied \in Places /\ n \in Places
            BY <2>1, <2>2 DEF Run, Places
        <3>2. run' = [run EXCEPT !.last = n, !.parts = parts, !.retries = retries,
                                 !.fired = fired, !.applied = applied]
            BY <2>3 DEF Run
        <3> HIDE DEF n, parts, retries, fired, applied
        <3> QED
            BY <3>1, <3>2 DEF Run
    <2>5. told' \in [Keys -> [Ids -> Nat]]
        BY <1>1, <1>2, <2>1 DEF Hears
    <2>6. RunHasKey'
        BY <2>4 DEF RunHasKey
    <2> QED
        BY <1>2, <2>4, <2>5, <2>6 DEF Hears, runner, net
<1>3. CASE HearEnd
    <2>1. run.key \in Keys /\ job[run.key].end \in Ends
        BY <1>1, <1>3 DEF HearEnd, Job
    <2>2. turn' \in Turn /\ run' \in Run /\ back' \in Read /\ RunHasKey'
        BY <1>3, <2>1, FinishTypes DEF HearEnd
    <2> QED
        BY <1>3, <2>1, <2>2 DEF HearEnd, runner, net, ghosts
<1>4. CASE Garbled
    <2>1. run' = [run EXCEPT !.last = None]
        BY <1>4 DEF Garbled, Resynced
    <2>2. run' \in Run /\ run'.phase = run.phase /\ run'.key = run.key /\ run'.kind = run.kind
        BY <2>1 DEF Run, Places
    <2> QED
        BY <1>4, <2>2 DEF Garbled, Fault, RunHasKey, runner, net
<1>5. CASE LosesTrack
    <2>1. turn' \in Turn /\ run' \in Run /\ back' \in Read /\ RunHasKey'
        BY <1>5, FinishTypes DEF LosesTrack, Ends
    <2> QED
        BY <1>5, <2>1 DEF LosesTrack, Fault, runner, net
<1>6. CASE StoppedHere
    <2>1. turn' \in Turn /\ run' \in Run /\ back' \in Read /\ RunHasKey'
        BY <1>6, FinishTypes DEF StoppedHere, Ends
    <2> QED
        BY <1>6, <2>1 DEF StoppedHere, runner, net, ghosts
<1> QED
    BY <1>2, <1>3, <1>4, <1>5, <1>6

LEMMA ReleaseType ==
    ASSUME PageTypes, RunHasKey, Release
    PROVE  run' \in Run /\ RunHasKey'
<1>1. NoRun.phase = "none" /\ NoRun.key = None
    BY DEF NoRun
<1>2. [run EXCEPT !.ours = FALSE] \in Run /\ [run EXCEPT !.ours = FALSE].phase = run.phase
      /\ [run EXCEPT !.ours = FALSE].key = run.key /\ [run EXCEPT !.ours = FALSE].kind = run.kind
    BY DEF Run, PageTypes
<1> QED
    BY <1>1, <1>2, Nothings DEF Release, RunHasKey, Started

(* What a turn may show once it was read back.                             *)
LEMMA CarriedType ==
    ASSUME PageTypes, NEW fresh \in Shows
    PROVE  Carried(fresh) \subseteq Shows
BY DEF Carried, PageTypes, Read, Shows

LEMMA HeadTypes == ASSUME TypeInv, HeadRead \/ HeadOpens \/ HeadFails \/ LetsGo PROVE TypeInv'
<1> USE DEF TypeInv, PageTypes, RestTypes
<1>0. NoRun.phase = "none" /\ NoRun.key = None
    BY DEF NoRun
<1>1. CASE HeadRead
    <2>1. <<head[chat]>> \in Seq(Saved)
        OBVIOUS
    <2>2. back' \in Read
        BY <1>1, <2>1 DEF HeadRead, Read
    <2> QED
        BY <1>1, <2>2 DEF HeadRead, RunHasKey, runner, net, ghosts
<1>2. CASE HeadOpens
    <2> DEFINE t == Opened(back.got[1])
    <2>1. back.got[1] \in Saved
        <3>1. back.got \in Seq(Saved) /\ back.got # <<>>
            BY <1>2 DEF HeadOpens, Read
        <3> QED
            BY <3>1
    <2>2. t \in Turn
        BY <2>1, OpenedType
    <2>3. turn' \in Turn
        <3>1. CASE t.seq = back.seq
            <4>1. PICK show \in Carried(t.show) :
                      turn' = [t EXCEPT !.show = show,
                                        !.ended = IF back.headWins THEN "none" ELSE back.show]
                BY <1>2, <3>1 DEF HeadOpens
            <4>2. show \in Shows
                BY <2>2, CarriedType DEF Turn
            <4>3. (IF back.headWins THEN "none" ELSE back.show) \in Ends \cup {"none"}
                BY DEF Read
            <4> QED
                BY <2>2, <4>1, <4>2, <4>3 DEF Turn
        <3> QED
            BY <1>2, <2>2, <3>1 DEF HeadOpens
    <2>4. run' \in Run /\ RunHasKey'
        BY <1>2, ReleaseType DEF HeadOpens
    <2> QED
        BY <1>2, <2>3, <2>4, Nothings DEF HeadOpens, runner, net
<1>3. CASE HeadFails
    BY <1>0, <1>3, Nothings DEF HeadFails, Fault, RunHasKey, Started, runner, net
<1>4. CASE LetsGo
    BY <1>0, <1>4, Nothings DEF LetsGo, RunHasKey, Started, runner, net
<1> QED
    BY <1>1, <1>2, <1>3, <1>4

(* Chats opened and looked up.                                             *)
LEMMA LookupOverTypes ==
    ASSUME TypeInv, LookupOver
    PROVE  lookup' \in Lookup /\ next' \subseteq Chats /\ seen' \in BOOLEAN
<1>1. Chats # {} /\ chat \in Chats /\ seen \in BOOLEAN
    BY DEF TypeInv, PageTypes, RestTypes
<1>2. [NoLookup EXCEPT !.phase = "asked", !.chat = chat] \in Lookup
    BY <1>1, Nothings DEF Lookup
<1> QED
    BY <1>1, <1>2, Nothings DEF LookupOver

LEMMA LookupTypes == ASSUME TypeInv, OpenChat \/ LookUp \/ Attach \/ LookupEnds PROVE TypeInv'
<1> USE DEF TypeInv, PageTypes, RestTypes
<1>0. NoRun.phase = "none" /\ NoRun.key = None
    BY DEF NoRun
<1>1. CASE OpenChat
    <2>1. PICK c \in Chats :
              /\ opens < MaxOpens /\ opens' = opens + 1
              /\ chat' = c /\ turn' = Opened(head[c])
              /\ run' = NoRun /\ back' = NoRead /\ given' = {}
              /\ IF lookup.phase = "none"
                 THEN /\ lookup' = [NoLookup EXCEPT !.phase = "asked", !.chat = c]
                      /\ seen' = TRUE /\ next' = next
                 ELSE /\ lookup' = [lookup EXCEPT !.left = TRUE]
                      /\ seen' = FALSE /\ next' = {c}
              /\ UNCHANGED <<over, quit, keys, runner, net, told, odd, faults>>
        BY <1>1 DEF OpenChat
    <2>2. turn' \in Turn
        BY <2>1, OpenedType
    <2>3. /\ [NoLookup EXCEPT !.phase = "asked", !.chat = c] \in Lookup
          /\ [lookup EXCEPT !.left = TRUE] \in Lookup
        BY Nothings DEF Lookup
    <2>4. RunHasKey'
        BY <1>0, <2>1 DEF RunHasKey, Started
    <2>5. lookup' \in Lookup /\ next' \subseteq Chats /\ seen' \in BOOLEAN
        BY <2>1, <2>3
    <2>6. run' \in Run /\ back' \in Read /\ opens' \in Nat
        BY <2>1, Nothings
    <2> QED
        BY <2>1, <2>2, <2>4, <2>5, <2>6 DEF runner, net
<1>2. CASE LookUp
    <2>1. lookup' \in Lookup
        <3>1. \A k \in Keys : job[k].len - 1 \in Places
            <4> SUFFICES ASSUME NEW k \in Keys PROVE job[k].len - 1 \in Places
                OBVIOUS
            <4>1. job[k].len \in 0..(MaxEvents + 1)
                BY DEF Job
            <4> QED
                BY <4>1, Bounds DEF Places, Ids, None
        <3>2. \A k \in Keys : [lookup EXCEPT !.phase = "found", !.key = k, !.last = job[k].len - 1]
                                  \in Lookup
            BY <3>1 DEF Lookup
        <3>3. [lookup EXCEPT !.phase = "found"] \in Lookup
            BY DEF Lookup
        <3> QED
            BY <1>2, <3>2, <3>3 DEF LookUp
    <2> QED
        BY <1>2, <2>1 DEF LookUp, RunHasKey, runner, net, ghosts
<1>3. CASE Attach
    <2> DEFINE k == lookup.key
               t == IF job[k].seq = turn.seq THEN turn
                    ELSE [NoTurn EXCEPT !.seq = job[k].seq, !.words = job[k].words]
    <2>1. k \in Keys /\ lookup.last \in Places
        BY <1>3 DEF Attach, MayAttach, Lookup
    <2>2. t \in Turn
        BY <2>1, Nothings DEF Turn, Job
    <2>3. turn' = [t EXCEPT !.show = "streaming", !.ended = "none"]
        BY <1>3 DEF Attach
    <2>4. run' = [NoRun EXCEPT !.phase = "following", !.seq = t.seq, !.words = t.words,
                               !.kind = "found", !.key = k, !.fired = lookup.last]
          /\ odd' = odd \cup Again(k, lookup.last)
          /\ given' = IF t.seq = turn.seq THEN given ELSE {}
        BY <1>3 DEF Attach
    <2>5. odd' \subseteq {"late", "again"} /\ given' \subseteq Keys
        BY <2>4, AgainType
    <2>6. turn' \in Turn
        BY <2>2, <2>3 DEF Turn, Shows
    <2>7. t.seq \in Nat /\ t.words \in Words
        BY <2>2 DEF Turn
    <2> HIDE DEF t
    <2>8. run' \in Run /\ run'.phase = "following" /\ run'.key = k
        BY <2>1, <2>4, <2>7, Nothings DEF Run, Started
    <2>9. RunHasKey'
        BY <2>1, <2>8, Bounds DEF RunHasKey, Started
    <2> QED
        BY <1>3, <2>5, <2>6, <2>8, <2>9, LookupOverTypes DEF Attach, runner, net
<1>4. CASE LookupEnds
    <2>1. faults' \in Nat
        BY <1>4 DEF LookupEnds, Fault
    <2> QED
        BY <1>4, <2>1, LookupOverTypes DEF LookupEnds, RunHasKey, runner, net
<1> QED
    BY <1>1, <1>2, <1>3, <1>4

(* The runner's steps.                                                     *)
LEMMA EnqueueTypes ==
    ASSUME TypeInv, NEW q \in Asked, Enqueue(q)
    PROVE  job' \in [Keys -> Job]
<1>1. NoJob \in Job
    BY Nothings DEF TypeInv, PageTypes
<1>2. [NoJob EXCEPT !.st = "queued", !.chat = q.chat, !.seq = q.seq, !.words = q.words] \in Job
    BY <1>1 DEF Job, Asked
<1> QED
    BY <1>2 DEF Enqueue, TypeInv, RestTypes

LEMMA RunnerTypes ==
    ASSUME TypeInv,
           \/ TakeStart \/ OtherStarts \/ TakeStop
           \/ \E k \in Keys : Begin(k) \/ Emit(k) \/ End(k) \/ SaveEnd(k)
    PROVE  TypeInv'
<1> USE DEF TypeInv, PageTypes, RestTypes
<1>1. CASE TakeStart
    <2>1. PICK q \in starts :
              /\ starts' = starts \ {q}
              /\ LET made == job[q.key].st # "none"
                     takes == ~LiveIn(q.chat) /\ Accepts(head[q.chat], q)
                 IN /\ IF ~made /\ takes THEN Enqueue(q) ELSE UNCHANGED job
                    /\ answers' = IF ~q.heard THEN answers
                                  ELSE answers \cup {[key |-> q.key,
                                                      what |-> CASE made \/ takes -> "started"
                                                                 [] LiveIn(q.chat) -> "run-active"
                                                                 [] OTHER -> "stale-turn"]}
              /\ UNCHANGED <<page, marks, head, stops, ghosts>>
        BY <1>1 DEF TakeStart
    <2>2. job' \in [Keys -> Job]
        BY <2>1, EnqueueTypes
    <2>3. answers' \subseteq Answer
        BY <2>1 DEF Answer, Asked
    <2> QED
        BY <2>1, <2>2, <2>3 DEF page, ghosts, RunHasKey
<1>2. CASE OtherStarts
    <2>1. PICK c \in Chats, kind \in {"new", "edit"} :
              LET h == head[c]
                  q == [key |-> Other, chat |-> c, kind |-> kind, words |-> "elsewhere",
                        seq |-> IF kind = "edit" THEN h.seq ELSE h.seq + 1]
              IN Enqueue(q) /\ UNCHANGED <<page, marks, head, net, ghosts>>
        BY <1>2 DEF OtherStarts
    <2> DEFINE seq == IF kind = "edit" THEN head[c].seq ELSE head[c].seq + 1
               j == [NoJob EXCEPT !.st = "queued", !.chat = c, !.seq = seq, !.words = "elsewhere"]
    <2>2. seq \in Nat
        BY DEF Saved
    <2>3. job' = [job EXCEPT ![Other] = j]
        BY <2>1 DEF Enqueue
    <2> HIDE DEF seq
    <2>4. j \in Job
        BY <2>2, Nothings DEF Job, Words
    <2> HIDE DEF j
    <2> QED
        BY <2>1, <2>3, <2>4 DEF page, net, ghosts, RunHasKey
<1>3. CASE TakeStop
    <2>1. \A k \in Keys : [job[k] EXCEPT !.stop = TRUE] \in Job
        BY DEF Job
    <2> QED
        BY <1>3, <2>1 DEF TakeStop, page, ghosts, RunHasKey
<1>4. ASSUME NEW k \in Keys, Begin(k) PROVE TypeInv'
    <2> DEFINE stop == k \in marks
               j == [job[k] EXCEPT !.st = "running", !.len = 1, !.stop = stop]
    <2>1. j \in Job
        <3>1. stop \in BOOLEAN /\ 1 \in 0..(MaxEvents + 1)
            BY Bounds
        <3> HIDE DEF stop
        <3> QED
            BY <3>1 DEF Job
    <2>2. job[k].chat \in Chats
          /\ [seq |-> job[k].seq, words |-> job[k].words, by |-> k, state |-> "running"] \in Saved
        BY DEF Job, Saved
    <2>3. job' = [job EXCEPT ![k] = j]
        BY <1>4 DEF Begin
    <2> HIDE DEF j
    <2> QED
        <3>1. job' \in [Keys -> Job]
            BY <2>1, <2>3
        <3>2. head' \in [Chats -> Saved]
            BY <1>4, <2>2 DEF Begin
        <3> QED
            BY <1>4, <3>1, <3>2 DEF Begin, page, net, ghosts, RunHasKey
<1>5. ASSUME NEW k \in Keys, Emit(k) PROVE TypeInv'
    <2>1. job[k].len + 1 \in 0..(MaxEvents + 1)
        BY <1>5, Bounds DEF Emit, Job
    <2>2. [job[k] EXCEPT !.len = job[k].len + 1] \in Job
        BY <2>1 DEF Job
    <2> QED
        BY <1>5, <2>2 DEF Emit, page, net, ghosts, RunHasKey
<1>6. ASSUME NEW k \in Keys, End(k) PROVE TypeInv'
    <2>1. PICK end \in Ends, saved \in BOOLEAN :
              /\ job' = [job EXCEPT ![k].st = "ended", ![k].end = end, ![k].saved = saved]
              /\ IF saved
                 THEN head' = [head EXCEPT ![job[k].chat].state = end] /\ UNCHANGED faults
                 ELSE Fault /\ UNCHANGED head
              /\ UNCHANGED <<page, marks, net, told, given, seen, odd, opens>>
        BY <1>6 DEF End
    <2> DEFINE j == [job[k] EXCEPT !.st = "ended", !.end = end, !.saved = saved]
    <2>2. j \in Job
        BY DEF Job
    <2>3. job' = [job EXCEPT ![k] = j]
        BY <2>1
    <2>4. job[k].chat \in Chats /\ \A c \in Chats : [head[c] EXCEPT !.state = end] \in Saved
        BY DEF Saved, Job
    <2> HIDE DEF j
    <2> QED
        <3>1. job' \in [Keys -> Job]
            BY <2>2, <2>3
        <3>2. [head EXCEPT ![job[k].chat].state = end] \in [Chats -> Saved]
            BY <2>4
        <3>3. head' \in [Chats -> Saved]
            BY <2>1, <3>2
        <3>4. faults' \in Nat
            BY <2>1 DEF Fault
        <3> QED
            BY <2>1, <3>1, <3>3, <3>4 DEF page, net, RunHasKey
<1>7. ASSUME NEW k \in Keys, SaveEnd(k) PROVE TypeInv'
    <2>1. [job[k] EXCEPT !.saved = TRUE] \in Job /\ job[k].end \in Ends \cup {"none"}
        BY DEF Job
    <2>2. \A c \in Chats : [head[c] EXCEPT !.state = job[k].end] \in Saved
        BY <2>1 DEF Saved
    <2> QED
        BY <1>7, <2>1, <2>2 DEF SaveEnd, page, net, ghosts, RunHasKey
<1> QED
    BY <1>1, <1>2, <1>3, <1>4, <1>5, <1>6, <1>7

LEMMA TypesStep == TypeInv /\ [Next]_vars => TypeInv'
<1> SUFFICES ASSUME TypeInv, [Next]_vars PROVE TypeInv'
    OBVIOUS
<1>1. CASE UNCHANGED vars
    BY <1>1 DEF vars, page, runner, net, ghosts, TypeInv, PageTypes, RestTypes, RunHasKey
<1> QED
    BY <1>1, HearIs, ViewerTypes, StartTypes, FollowTypes, HeadTypes, LookupTypes, RunnerTypes DEF Next

(***************************************************************************)
(* What the steps leave alone                                              *)
(***************************************************************************)

(* The runner's steps and late answers change nothing on the page, but     *)
(* that an edit was taken.                                                 *)
Elsewhere ==
    \/ LateAnswer \/ TakeStart \/ OtherStarts \/ TakeStop \/ UNCHANGED vars
    \/ \E k \in Keys : Begin(k) \/ Emit(k) \/ End(k) \/ SaveEnd(k)

LEMMA PageStays ==
    ASSUME Elsewhere
    PROVE  /\ UNCHANGED <<chat, run, back, lookup, next, keys, told, given, seen, odd>>
           /\ turn' \in {turn, [turn EXCEPT !.edit = FALSE]}
BY DEF Elsewhere, LateAnswer, TakeStart, OtherStarts, TakeStop, Begin, Emit, End, SaveEnd,
    page, ghosts, vars

(* What a reply is as it begins to be asked for.                           *)
LEMMA AskedRun ==
    ASSUME NEW t, NEW kind, NEW key, Ask(t, kind, key)
    PROVE  /\ run'.phase = "asking" /\ run'.key = key /\ run'.kind = kind /\ run'.ours
           /\ run'.words = t.words /\ run'.last = None /\ run'.fired = None /\ run'.applied = None
           /\ run'.retries = <<>> /\ turn' = t
BY DEF Ask, NoRun

LEMMA NoRunIs ==
    /\ NoRun.phase = "none" /\ NoRun.key = None /\ NoRun.ours /\ NoRun.last = None
    /\ NoRun.applied = None /\ NoRun.fired = None /\ NoRun.retries = <<>> /\ NoRun.parts = <<>>
BY DEF NoRun

(* What a reply is as it ends on the page.                                 *)
LEMMA FinishedRun ==
    ASSUME NEW show, NEW ended, NEW headWins, Finish(show, ended, headWins)
    PROVE  /\ run'.phase = "ending" /\ run'.ours = run.ours /\ run'.key = None
           /\ run'.last = None /\ run'.applied = None /\ run'.retries = <<>>
BY DEF Finish, Hold, NoRun

(***************************************************************************)
(* The head read after a reply                                             *)
(***************************************************************************)

(* The start's and the journal's steps leave ours, but for a new reply.    *)
LEMMA RunGoesOn ==
    ASSUME TypeInv, StartTaken \/ AskFails \/ AskAgain \/ GiveUp \/ Hears \/ Garbled \/ Stop
    PROVE  /\ run' = NoRun \/ (run'.phase \in Started /\ run'.ours = run.ours)
           /\ run.phase \in Started
<1> USE DEF TypeInv, PageTypes
<1>1. CASE StartTaken
    BY <1>1 DEF StartTaken, Fails, Run, Started
<1>2. CASE AskFails
    BY <1>2 DEF AskFails, NoAnswer, Run, Started
<1>3. CASE AskAgain
    BY <1>3 DEF AskAgain, Run, Started
<1>4. CASE GiveUp
    BY <1>4 DEF GiveUp, NoAnswer, Fails, Started
<1>5. CASE Hears
    <2>1. run'.phase = run.phase /\ run'.ours = run.ours
        BY <1>5 DEF Hears, Run
    <2> QED
        BY <1>5, <2>1 DEF Hears, Started
<1>6. CASE Garbled
    BY <1>6 DEF Garbled, Resynced, Run, Started
<1>7. CASE Stop
    BY <1>7 DEF Stop, Run, Started
<1> QED
    BY <1>1, <1>2, <1>3, <1>4, <1>5, <1>6, <1>7

(* None of them touches the read, nor forgets what was late.               *)
LEMMA ReadStays ==
    ASSUME StartTaken \/ AskFails \/ AskAgain \/ GiveUp \/ Hears \/ Garbled \/ Stop
    PROVE  back' = back /\ odd \subseteq odd'
BY DEF StartTaken, AskFails, AskAgain, GiveUp, Hears, Garbled, Stop, NoAnswer, ghosts

LEMMA AskReads ==
    ASSUME ReadInv, ~running, NEW t, NEW kind, NEW key, Ask(t, kind, key)
    PROVE  ReadInv'
<1>1. run'.ours /\ run'.phase = "asking"
    BY AskedRun
<1> QED
    BY <1>1 DEF ReadInv, ReadIsLate, GotIsOn, SentTurnStays, Ask, running

LEMMA FinishReads ==
    ASSUME TypeInv, NEW show, NEW ended, NEW headWins, Finish(show, ended, headWins)
    PROVE  ReadInv'
<1>1. run'.phase = "ending"
    BY FinishedRun
<1>2. back'.on
    BY DEF Finish, NoRead
<1> QED
    BY <1>1, <1>2 DEF ReadInv, ReadIsLate, GotIsOn, SentTurnStays

LEMMA ReadStep == TypeInv /\ ReadInv /\ [Next]_vars => ReadInv'
<1> SUFFICES ASSUME TypeInv, ReadInv, [Next]_vars PROVE ReadInv'
    OBVIOUS
<1> USE DEF ReadInv, ReadIsLate, GotIsOn, SentTurnStays
<1>1. NoRead.on = FALSE /\ NoRead.got = <<>>
    BY DEF NoRead
<1>2. CASE Elsewhere
    BY <1>2, PageStays
<1>3. CASE Send \/ Retry \/ Edit
    BY <1>3, AskReads DEF Send, Retry, Edit
<1>4. CASE StartTaken \/ AskFails \/ AskAgain \/ GiveUp \/ Hears \/ Garbled \/ Stop
    BY <1>4, RunGoesOn, ReadStays, NoRunIs DEF Started
<1>5. CASE HearEnd \/ LosesTrack \/ StoppedHere
    BY <1>5, FinishReads DEF HearEnd, LosesTrack, StoppedHere
<1>6. CASE HeadRead
    <2>1. back'.on
        BY <1>6 DEF HeadRead, TypeInv, PageTypes, Read
    <2> QED
        BY <1>6, <2>1 DEF HeadRead, TypeInv, PageTypes, Read, ghosts
<1>7. CASE HeadOpens
    <2>1. run.phase # "ending" => "late" \in odd
        BY <1>7 DEF HeadOpens
    <2>2. run.phase # "ending" => run'.phase = run.phase
        BY <1>7 DEF HeadOpens, Release, TypeInv, PageTypes, Run
    <2> QED
        BY <1>1, <1>7, <2>1, <2>2, NoRunIs DEF HeadOpens, Release
<1>8. CASE HeadFails \/ LetsGo
    BY <1>1, <1>8, NoRunIs DEF HeadFails, LetsGo
<1>9. CASE OpenChat
    BY <1>1, <1>9, NoRunIs DEF OpenChat
<1>10. CASE LookUp \/ LookupEnds
    BY <1>10 DEF LookUp, LookupEnds, ghosts
<1>11. CASE Attach
    <2>1. run'.phase = "following" /\ run'.ours /\ odd \subseteq odd'
        BY <1>11 DEF Attach, NoRun
    <2> QED
        BY <1>11, <2>1 DEF Attach, MayAttach, running
<1> QED
    BY <1>2, <1>3, <1>4, <1>5, <1>6, <1>7, <1>8, <1>9, <1>10, <1>11, HearIs DEF Next, Elsewhere

(***************************************************************************)
(* The end a turn shows                                                    *)
(***************************************************************************)

(* Statuses that agree with an end are what a read head may show of it.    *)
LEMMA CarriedAgrees ==
    ASSUME ~back.headWins, NEW fresh, NEW show \in Carried(fresh)
    PROVE  Status(show) = Status(back.show)
BY DEF Carried

LEMMA EndStep == TypeInv /\ EndInv /\ [Next]_vars => EndInv'
<1> SUFFICES ASSUME TypeInv, EndInv, [Next]_vars PROVE EndInv'
    OBVIOUS
<1> USE DEF EndInv, Unsettled, SettledEndIsShown
<1>0. turn \in Turn /\ run \in Run
    BY DEF TypeInv, PageTypes
<1>1. CASE Elsewhere
    <2>1. turn'.ended = turn.ended /\ turn'.show = turn.show /\ run' = run
        BY <1>0, <1>1, PageStays DEF Turn
    <2> QED
        BY <2>1
<1>2. CASE Send
    <2>1. turn' = [NoTurn EXCEPT !.seq = turn.seq + 1, !.show = "streaming", !.asked = {keys + 1}]
        BY <1>2, AskedRun DEF Send
    <2>2. turn'.ended = "none"
        BY <2>1 DEF NoTurn
    <2> QED
        BY <2>2
<1>3. CASE Retry
    <2>1. turn' = [turn EXCEPT !.kept = None, !.show = "streaming", !.ended = "none",
                         !.asked = @ \cup {RetryKey}]
        BY <1>3, AskedRun DEF Retry
    <2>2. turn'.ended = "none"
        BY <1>0, <2>1 DEF Turn
    <2> QED
        BY <2>2
<1>4. CASE Edit
    <2>1. turn' = Edited(turn)
        BY <1>4, AskedRun DEF Edit
    <2>2. turn'.ended = "none"
        BY <1>0, <2>1 DEF Edited, Turn
    <2> QED
        BY <2>2
<1>5. CASE StartTaken
    <2>1. turn'.ended = turn.ended /\ (turn'.show = turn.show \/ run.ours)
        BY <1>0, <1>5 DEF StartTaken, Fails, Turn
    <2> QED
        BY <1>5, <2>1, RunGoesOn, NoRunIs DEF Started
<1>6. CASE AskFails \/ AskAgain \/ Garbled \/ Hears
    <2>1. turn' = turn
        BY <1>6 DEF AskFails, AskAgain, Garbled, Hears
    <2> QED
        BY <1>6, <2>1, RunGoesOn, NoRunIs DEF Started
<1>7. CASE GiveUp
    <2>1. turn'.ended = turn.ended /\ (turn'.show = turn.show \/ run.ours)
        BY <1>0, <1>7 DEF GiveUp, Fails, Turn
    <2> QED
        BY <1>7, <2>1, RunGoesOn, NoRunIs DEF Started
<1>8. CASE Stop
    <2>1. turn'.ended = turn.ended /\ (turn'.show = turn.show \/ run.ours)
        BY <1>0, <1>8 DEF Stop, Turn
    <2> QED
        BY <1>8, <2>1, RunGoesOn, NoRunIs DEF Started
<1>9. ASSUME NEW show, NEW ended, NEW headWins, Finish(show, ended, headWins),
             ended \in {show, "none"}
      PROVE  EndInv'
    <2>1. run'.phase = "ending"
        BY <1>9, FinishedRun
    <2>2. turn' = turn \/ (turn'.show = show /\ turn'.ended = ended)
        BY <1>0, <1>9 DEF Finish, Turn
    <2> QED
        BY <1>9, <2>1, <2>2 DEF Started
<1>10. CASE HearEnd \/ LosesTrack \/ StoppedHere
    BY <1>9, <1>10 DEF HearEnd, LosesTrack, StoppedHere
<1>11. CASE HeadRead
    BY <1>11 DEF HeadRead
<1>12. CASE HeadOpens
    <2> DEFINE t == Opened(back.got[1])
    <2>1. t.ended = "none"
        BY DEF Opened, NoTurn
    <2>2. t \in Turn
        <3>1. back.got[1] \in Saved
            <4>1. back.got \in Seq(Saved) /\ back.got # <<>>
                BY <1>12 DEF HeadOpens, Read, TypeInv, PageTypes
            <4> QED
                BY <4>1
        <3> QED
            BY <3>1, OpenedType
    <2>3. SettledEndIsShown'
        <3>1. CASE t.seq = back.seq
            <4>1. PICK show \in Carried(t.show) :
                      turn' = [t EXCEPT !.show = show,
                                        !.ended = IF back.headWins THEN "none" ELSE back.show]
                BY <1>12, <3>1 DEF HeadOpens
            <4>2. turn'.show = show /\ turn'.ended = IF back.headWins THEN "none" ELSE back.show
                BY <2>2, <4>1 DEF Turn
            <4> QED
                BY <4>2, CarriedAgrees
        <3>2. CASE t.seq # back.seq
            BY <1>12, <2>1, <3>2 DEF HeadOpens
        <3> QED
            BY <3>1, <3>2
    <2>4. ~(run'.phase \in Started /\ run'.ours)
        BY <1>0, <1>12, NoRunIs DEF HeadOpens, Release, Run, Started
    <2> QED
        BY <2>3, <2>4
<1>13. CASE HeadFails \/ LetsGo
    BY <1>13, NoRunIs DEF HeadFails, LetsGo, Started
<1>14. CASE OpenChat
    <2>1. turn'.ended = "none"
        BY <1>14 DEF OpenChat, Opened, NoTurn
    <2> QED
        BY <2>1
<1>15. CASE LookUp \/ LookupEnds
    BY <1>15 DEF LookUp, LookupEnds
<1>16. CASE Attach
    <2>1. turn'.ended = "none"
        BY <1>0, <1>16 DEF Attach, Turn, NoTurn
    <2> QED
        BY <2>1
<1> QED
    BY <1>1, <1>2, <1>3, <1>4, <1>5, <1>6, <1>7, <1>8, <1>10, <1>11, <1>12, <1>13, <1>14, <1>15,
       <1>16, HearIs DEF Next, Elsewhere

(***************************************************************************)
(* The journal read and read again                                         *)
(***************************************************************************)

LEMMA UpToGrows ==
    /\ UpTo(None) = <<>> /\ UpTo(0) = <<>>
    /\ \A n \in Nat : Append(UpTo(n), n + 1) = UpTo(n + 1) /\ Len(UpTo(n)) = n
<1>1. 1..None = {} /\ 1..0 = {}
    BY DEF None
<1>2. UpTo(None) = <<>> /\ UpTo(0) = <<>>
    BY <1>1 DEF UpTo
<1>3. ASSUME NEW n \in Nat PROVE Append(UpTo(n), n + 1) = UpTo(n + 1) /\ Len(UpTo(n)) = n
    <2>1. UpTo(n) \in Seq(Nat) /\ Len(UpTo(n)) = n
        BY DEF UpTo
    <2>2. Append(UpTo(n), n + 1) = [i \in 1..(n + 1) |-> IF i <= n THEN UpTo(n)[i] ELSE n + 1]
        BY <2>1
    <2>3. \A i \in 1..(n + 1) : (IF i <= n THEN UpTo(n)[i] ELSE n + 1) = i
        BY DEF UpTo
    <2> QED
        BY <2>1, <2>2, <2>3 DEF UpTo
<1> QED
    BY <1>2, <1>3

(* Where nothing of a journal was read.                                    *)
Unread(r) == r.last = None /\ r.applied = None /\ r.retries = <<>>

LEMMA UnreadIsSound == Unread(run') => JournalInv'
BY UpToGrows DEF Unread, JournalInv, None

LEMMA HearsNext == ASSUME TypeInv, JournalInv, Hears PROVE JournalInv'
<1> DEFINE n == run.last + 1
<1>1. run \in Run
    BY DEF TypeInv, PageTypes
<1>2. run.last \in -1..MaxEvents /\ run.applied \in -1..MaxEvents /\ n \in Nat
    BY <1>1, Bounds DEF Run, Places, Ids
<1>3. /\ run'.last = n
      /\ run'.parts = Applied(run.parts, n)
      /\ run'.retries = IF n > 0 /\ n > run.applied THEN Append(run.retries, n) ELSE run.retries
      /\ run'.applied = IF n > run.applied THEN n ELSE run.applied
    BY <1>1 DEF Hears, Run
<1>4. run'.last <= run'.applied
    BY <1>2, <1>3
<1>5. run'.parts = UpTo(n)
    <2>1. CASE n = 0
        BY <1>3, <2>1, UpToGrows DEF Applied
    <2>2. CASE n # 0
        <3>1. run.last \in Nat /\ run.parts = UpTo(run.last)
            BY <1>2, <2>2, Bounds DEF JournalInv
        <3> QED
            BY <1>3, <2>2, <3>1, UpToGrows DEF Applied
    <2> QED
        BY <2>1, <2>2
<1>6. run'.retries = UpTo(run'.applied)
    <2>1. run.retries = UpTo(run.applied) /\ run.last <= run.applied
        BY DEF JournalInv
    <2>2. CASE n > run.applied
        <3>1. n = run.applied + 1
            BY <1>2, <2>1, <2>2
        <3>2. CASE n = 0
            <4>1. run.applied = None /\ run'.applied = 0 /\ run'.retries = run.retries
                BY <1>2, <1>3, <2>2, <3>1, <3>2, Bounds
            <4> QED
                BY <2>1, <4>1, UpToGrows
        <3>3. CASE n # 0
            <4>1. run.applied \in Nat /\ run'.applied = run.applied + 1
                  /\ run'.retries = Append(run.retries, run.applied + 1)
                BY <1>2, <1>3, <2>2, <3>1, <3>3
            <4> QED
                BY <2>1, <4>1, UpToGrows
        <3> QED
            BY <3>2, <3>3
    <2>3. CASE ~(n > run.applied)
        BY <1>3, <2>1, <2>3
    <2> QED
        BY <2>2, <2>3
<1> QED
    BY <1>3, <1>4, <1>5, <1>6 DEF JournalInv

LEMMA JournalStep == TypeInv /\ JournalInv /\ [Next]_vars => JournalInv'
<1> SUFFICES ASSUME TypeInv, JournalInv, [Next]_vars PROVE JournalInv'
    OBVIOUS
<1>0. run \in Run
    BY DEF TypeInv, PageTypes
<1>1. Unread(NoRun)
    BY NoRunIs DEF Unread
<1>2. CASE Elsewhere \/ HeadRead \/ LookUp \/ LookupEnds
    <2>1. run' = run
        BY <1>2, PageStays DEF HeadRead, LookUp, LookupEnds
    <2> QED
        BY <2>1 DEF JournalInv
<1>3. CASE Send \/ Retry \/ Edit
    <2>1. Unread(run')
        BY <1>3, AskedRun DEF Send, Retry, Edit, Unread
    <2> QED
        BY <2>1, UnreadIsSound
<1>4. CASE HearEnd \/ LosesTrack \/ StoppedHere
    <2>1. Unread(run')
        BY <1>4, FinishedRun DEF HearEnd, LosesTrack, StoppedHere, Unread
    <2> QED
        BY <2>1, UnreadIsSound
<1>5. CASE Hears
    BY <1>5, HearsNext
<1>6. CASE Garbled
    <2>1. run'.last = None /\ run'.applied = run.applied /\ run'.retries = run.retries
        BY <1>0, <1>6 DEF Garbled, Resynced, Run
    <2>2. run.applied \in -1..MaxEvents /\ None = -1
        BY <1>0, Bounds DEF Run, Places, Ids
    <2> QED
        BY <2>1, <2>2 DEF JournalInv
<1>7. CASE Attach
    <2>1. Unread(run')
        BY <1>7 DEF Attach, NoRun, Unread
    <2> QED
        BY <2>1, UnreadIsSound
<1>8. CASE \/ StartTaken \/ AskFails \/ AskAgain \/ GiveUp \/ Stop
           \/ HeadOpens \/ HeadFails \/ LetsGo \/ OpenChat
    <2>1. \/ run' = NoRun
          \/ /\ run'.last = run.last /\ run'.applied = run.applied
             /\ run'.retries = run.retries /\ run'.parts = run.parts
        BY <1>0, <1>8 DEF StartTaken, AskFails, AskAgain, GiveUp, Stop, HeadOpens, HeadFails, LetsGo,
            OpenChat, Fails, Release, Run
    <2> QED
        BY <1>1, <2>1, UnreadIsSound DEF JournalInv
<1> QED
    BY <1>2, <1>3, <1>4, <1>5, <1>6, <1>7, <1>8, HearIs DEF Next, Elsewhere

(***************************************************************************)
(* What was announced                                                      *)
(***************************************************************************)

(* A journal followed as announced up to `fired` is, or was so before.     *)
LEMMA FollowsFrom ==
    ASSUME TypeInv, CountInv, run'.phase = "following", run'.key \in Keys, told' = told,
           odd' = odd \cup Again(run'.key, run'.fired)
    PROVE  CountInv'
<1> SUFFICES ASSUME "again" \notin odd' PROVE ToldOnce' /\ NoneBeyond'
    BY DEF CountInv
<1>1. "again" \notin odd /\ "again" \notin Again(run'.key, run'.fired)
    OBVIOUS
<1>2. \A i \in Ids : i > run'.fired => ~(told[run'.key][i] > 0)
    BY <1>1 DEF Again
<1>3. \A i \in Ids : told[run'.key][i] \in Nat
    BY DEF TypeInv, RestTypes
<1>4. NoneBeyond'
    BY <1>2, <1>3 DEF NoneBeyond
<1> QED
    BY <1>1, <1>4 DEF CountInv, ToldOnce

LEMMA CountStep == TypeInv /\ CountInv /\ [Next]_vars => CountInv'
<1> SUFFICES ASSUME TypeInv, CountInv, [Next]_vars PROVE CountInv'
    OBVIOUS
<1>0. run \in Run /\ told \in [Keys -> [Ids -> Nat]]
      /\ (run.phase \in Started => run.key \in Keys)
    BY DEF TypeInv, PageTypes, RestTypes, RunHasKey, Run
<1>1. ASSUME told' = told, odd \subseteq odd',
             run'.phase = "following"
                 => run.phase = "following" /\ run'.key = run.key /\ run'.fired = run.fired
      PROVE  CountInv'
    BY <1>1 DEF CountInv, ToldOnce, NoneBeyond
<1>2. CASE Elsewhere \/ HeadRead \/ LookUp \/ LookupEnds
    <2>1. run' = run /\ told' = told /\ odd' = odd
        BY <1>2, PageStays DEF HeadRead, LookUp, LookupEnds, ghosts
    <2> QED
        BY <1>1, <2>1
<1>3. CASE Send \/ Retry \/ Edit
    <2>1. run'.phase = "asking"
        BY <1>3, AskedRun DEF Send, Retry, Edit
    <2>2. told' = told /\ odd' = odd
        BY <1>3 DEF Send, Retry, Edit, Ask
    <2> QED
        BY <1>1, <2>1, <2>2
<1>4. CASE HearEnd \/ LosesTrack \/ StoppedHere
    <2>1. run'.phase = "ending"
        BY <1>4, FinishedRun DEF HearEnd, LosesTrack, StoppedHere
    <2>2. told' = told /\ odd' = odd
        BY <1>4 DEF HearEnd, LosesTrack, StoppedHere, ghosts
    <2> QED
        BY <1>1, <2>1, <2>2
<1>5. CASE Hears
    <2> DEFINE n == run.last + 1
    <2>1. run.key \in Keys /\ n < job[run.key].len
        BY <1>0, <1>5 DEF Hears, Started
    <2>2. n \in Ids /\ run.fired \in -1..MaxEvents
        <3>1. job[run.key].len \in 0..(MaxEvents + 1)
            BY <2>1 DEF TypeInv, RestTypes, Job
        <3>2. run.last \in -1..MaxEvents /\ run.fired \in -1..MaxEvents
            BY <1>0, Bounds DEF Run, Places, Ids
        <3> QED
            BY <2>1, <3>1, <3>2, Bounds DEF Ids
    <2>3. /\ run'.phase = "following" /\ run.phase = "following" /\ run'.key = run.key
          /\ run'.fired = IF n > run.fired THEN n ELSE run.fired
          /\ odd' = odd
          /\ told' = IF n > 0 /\ n > run.fired THEN [told EXCEPT ![run.key][n] = @ + 1] ELSE told
        BY <1>0, <1>5 DEF Hears, Run
    <2> SUFFICES ASSUME "again" \notin odd' PROVE ToldOnce' /\ NoneBeyond'
        BY DEF CountInv
    <2>4. ToldOnce /\ NoneBeyond
        BY <2>3 DEF CountInv
    <2>5. CASE n > 0 /\ n > run.fired
        <3>1. told[run.key][n] = 0
            BY <2>2, <2>3, <2>4, <2>5 DEF NoneBeyond
        <3>2. \A k \in Keys, i \in Ids :
                  told'[k][i] = IF k = run.key /\ i = n THEN 1 ELSE told[k][i]
            BY <1>0, <2>1, <2>2, <2>3, <2>5, <3>1
        <3>3. ToldOnce'
            BY <2>4, <3>2 DEF ToldOnce
        <3>4. \A i \in Ids : i > n => i # n /\ i > run.fired
            BY <2>2, <2>5, Bounds DEF Ids
        <3> QED
            BY <2>1, <2>3, <2>4, <2>5, <3>2, <3>3, <3>4 DEF NoneBeyond
    <2>6. CASE ~(n > 0 /\ n > run.fired)
        <3>1. \A i \in Ids : i > run'.fired => i > run.fired
            BY <2>2, <2>3, Bounds DEF Ids
        <3> QED
            BY <2>3, <2>4, <2>6, <3>1 DEF ToldOnce, NoneBeyond
    <2> QED
        BY <2>5, <2>6
<1>6. CASE Garbled \/ Stop \/ AskFails \/ AskAgain \/ GiveUp
    <2>1. told' = told /\ odd' = odd
        BY <1>6 DEF Garbled, Stop, AskFails, AskAgain, GiveUp, NoAnswer, ghosts
    <2>2. \/ run'.phase # "following"
          \/ run.phase = "following" /\ run'.key = run.key /\ run'.fired = run.fired
        BY <1>0, <1>6, NoRunIs
        DEF Garbled, Resynced, Stop, AskFails, AskAgain, GiveUp, NoAnswer, Fails, Run
    <2> QED
        BY <1>1, <2>1, <2>2
<1>7. CASE HeadOpens \/ HeadFails \/ LetsGo \/ OpenChat
    <2>1. told' = told /\ odd \subseteq odd'
        BY <1>7 DEF HeadOpens, HeadFails, LetsGo, OpenChat
    <2>2. \/ run'.phase # "following"
          \/ run.phase = "following" /\ run'.key = run.key /\ run'.fired = run.fired
        BY <1>0, <1>7, NoRunIs DEF HeadOpens, HeadFails, LetsGo, OpenChat, Release, Run
    <2> QED
        BY <1>1, <2>1, <2>2
<1>8. CASE StartTaken
    <2>1. told' = told
        BY <1>8 DEF StartTaken
    <2>2. CASE run'.phase = "following"
        <3>1. /\ run' = [run EXCEPT !.phase = "following"] /\ run.phase = "asking"
              /\ odd' = odd \cup Again(run.key, None)
            BY <1>8, <2>2, NoRunIs DEF StartTaken, Fails
        <3>2. run'.key = run.key /\ run'.key \in Keys
            BY <1>0, <3>1 DEF Run, Started
        <3>3. CASE "again" \in odd'
            BY <3>3 DEF CountInv
        <3>4. CASE "again" \notin odd'
            <4>1. "again" \notin odd /\ "again" \notin Again(run.key, None)
                BY <3>1, <3>4
            <4>2. \A i \in Ids : i > None => ~(told[run.key][i] > 0)
                BY <4>1 DEF Again
            <4>3. \A i \in Ids : i > None
                BY Bounds DEF Ids, None
            <4>4. \A i \in Ids : told[run.key][i] = 0
                BY <1>0, <3>2, <4>2, <4>3
            <4> QED
                BY <2>1, <3>2, <4>1, <4>4 DEF CountInv, ToldOnce, NoneBeyond
        <3> QED
            BY <3>3, <3>4
    <2>3. CASE run'.phase # "following"
        <3>1. odd \subseteq odd'
            BY <1>8 DEF StartTaken
        <3> QED
            BY <1>1, <2>1, <2>3, <3>1
    <2> QED
        BY <2>2, <2>3
<1>9. CASE Attach
    <2>1. run'.phase = "following" /\ run'.key = lookup.key /\ run'.fired = lookup.last
        BY <1>9 DEF Attach, NoRun
    <2>2. lookup.key \in Keys
        BY <1>9 DEF Attach, MayAttach, TypeInv, PageTypes, Lookup
    <2>3. told' = told /\ odd' = odd \cup Again(lookup.key, lookup.last)
        BY <1>9 DEF Attach
    <2> QED
        BY <2>1, <2>2, <2>3, FollowsFrom
<1> QED
    BY <1>2, <1>3, <1>4, <1>5, <1>6, <1>7, <1>8, <1>9, HearIs DEF Next, Elsewhere

(***************************************************************************)
(* The open chat is looked up                                              *)
(***************************************************************************)

LEMMA LookupStep == TypeInv /\ LookupInv /\ [Next]_vars => LookupInv'
<1> SUFFICES ASSUME TypeInv, LookupInv, [Next]_vars PROVE LookupInv'
    OBVIOUS
<1> USE DEF LookupInv
<1>0. lookup \in Lookup
    BY DEF TypeInv, PageTypes
<1>1. ASSUME seen' = seen, lookup' = lookup, next' = next, chat' = chat,
             run.phase = "none" => run'.phase = "none"
      PROVE  LookupInv'
    BY <1>1
<1>2. CASE Elsewhere \/ HeadRead
    <2>1. UNCHANGED <<chat, run, lookup, next, seen>>
        BY <1>2, PageStays DEF HeadRead, ghosts
    <2> QED
        BY <2>1
<1>3. CASE Send \/ Retry \/ Edit
    BY <1>3 DEF Send, Retry, Edit, Ask
<1>4. CASE StartTaken \/ AskFails \/ AskAgain \/ GiveUp \/ Hears \/ Garbled \/ Stop
    <2>1. run.phase # "none"
        BY <1>4, RunGoesOn DEF Started
    <2>2. UNCHANGED <<chat, lookup, next, seen>>
        BY <1>4 DEF StartTaken, AskFails, AskAgain, GiveUp, Hears, Garbled, Stop, NoAnswer, ghosts
    <2> QED
        BY <2>1, <2>2
<1>5. CASE HearEnd \/ LosesTrack \/ StoppedHere
    BY <1>5 DEF HearEnd, LosesTrack, StoppedHere, ghosts
<1>6. CASE HeadOpens \/ HeadFails \/ LetsGo
    <2>1. run.phase = "none" => run'.phase = "none"
        BY <1>6, NoRunIs DEF HeadOpens, HeadFails, LetsGo, Release, TypeInv, PageTypes, Run
    <2> QED
        BY <1>6, <2>1 DEF HeadOpens, HeadFails, LetsGo
<1>7. CASE OpenChat
    <2>1. [lookup EXCEPT !.left = TRUE].left /\ [lookup EXCEPT !.left = TRUE].phase = lookup.phase
        BY <1>0 DEF Lookup
    <2> QED
        BY <1>7, <2>1, NoRunIs DEF OpenChat
<1>8. CASE LookUp
    <2>1. lookup'.phase = "found" /\ lookup'.left = lookup.left
        BY <1>0, <1>8 DEF LookUp, Lookup
    <2> QED
        BY <1>8, <2>1 DEF LookUp, ghosts
<1>9. CASE Attach
    <2>1. seen
        BY <1>9 DEF Attach, MayAttach
    <2> QED
        BY <1>9, <2>1 DEF Attach, LookupOver
<1>10. CASE LookupEnds
    <2>1. ~seen => LookedUpNext # {} /\ run'.phase = "none"
        BY <1>10 DEF LookupEnds, LookedUpNext
    <2> QED
        BY <1>10, <2>1 DEF LookupEnds, LookupOver
<1> QED
    BY <1>2, <1>3, <1>4, <1>5, <1>6, <1>7, <1>8, <1>9, <1>10, HearIs DEF Next, Elsewhere

(***************************************************************************)
(* The words a key was asked with                                          *)
(***************************************************************************)

(* The words that run's key is asked with, while it is.                    *)
MaySay(k, w) == run.phase \in {"asking", "pausing"} /\ k = run.key => w = run.words

(* A step after which a key that was used still says what it said.         *)
KeepsWord ==
    /\ keys' = keys
    /\ \A k \in Keys : Made(k) => Made(k)' /\ job'[k].words = job[k].words
    /\ \A k \in 1..keys : \A w \in Words : Says(k, w) /\ MaySay(k, w) => Says(k, w)'
    /\ NetKeys'

(* The runs keep their words, and no start is on its way that was not.     *)
RunsKept == \A k \in Keys : (Made(k)' <=> Made(k)) /\ job'[k].words = job[k].words
StartsKept == \A q \in starts' : \E p \in starts : p.key = q.key /\ p.words = q.words

LEMMA NetKeeps ==
    ASSUME TypeInv, WordsInv, keys' = keys, RunsKept, StartsKept, answers' \subseteq answers,
           lookup'.key \in Keys \cup {None},
           lookup'.key \notin {None, lookup.key} => Made(lookup'.key)
    PROVE  KeepsWord
<1> USE DEF RunsKept, StartsKept
<1>1. keys \in Nat /\ 1..keys \subseteq Keys
    BY Bounds DEF TypeInv, PageTypes, Keys
<1>2. ASSUME NEW k \in 1..keys, NEW w \in Words, Says(k, w) PROVE Says(k, w)'
    BY <1>1, <1>2 DEF Says, Made
<1>3. NetKeys'
    <2>1. \A q \in starts' : q.key \in 1..keys'
        BY DEF WordsInv, NetKeys
    <2>2. \A a \in answers' : a.key \in 1..keys' /\ (a.what = "started" => Made(a.key)')
        BY <1>1 DEF WordsInv, NetKeys
    <2>3. \A k \in Keys : k > keys' => ~Made(k)'
        BY DEF WordsInv, NetKeys
    <2>4. lookup'.key # None => job'[lookup'.key].st # "none"
        BY DEF WordsInv, NetKeys, Made
    <2> QED
        BY <2>1, <2>2, <2>3, <2>4 DEF NetKeys, Made
<1> QED
    BY <1>2, <1>3 DEF KeepsWord

LEMMA EnqueueKeeps ==
    ASSUME TypeInv, WordsInv, NEW q \in Asked, Enqueue(q), ~Made(q.key)
    PROVE  /\ \A k \in Keys : Made(k)' <=> Made(k) \/ k = q.key
           /\ \A k \in Keys : Made(k) => job'[k].words = job[k].words
           /\ job'[q.key].words = q.words
BY DEF Enqueue, Made, NoJob, Asked, TypeInv, RestTypes

LEMMA StartKeeps == ASSUME TypeInv, WordsInv, TakeStart PROVE KeepsWord
<1>1. PICK q \in starts :
          /\ starts' = starts \ {q}
          /\ LET made == job[q.key].st # "none"
                 takes == ~LiveIn(q.chat) /\ Accepts(head[q.chat], q)
             IN /\ IF ~made /\ takes THEN Enqueue(q) ELSE UNCHANGED job
                /\ answers' = IF ~q.heard THEN answers
                              ELSE answers \cup {[key |-> q.key,
                                                  what |-> CASE made \/ takes -> "started"
                                                             [] LiveIn(q.chat) -> "run-active"
                                                             [] OTHER -> "stale-turn"]}
          /\ UNCHANGED <<page, marks, head, stops, ghosts>>
    BY DEF TakeStart
<1>2. q \in Asked /\ q.key \in 1..keys /\ q.key \in Keys /\ keys \in Nat /\ 1..keys \subseteq Keys
    BY Bounds DEF TypeInv, PageTypes, RestTypes, WordsInv, NetKeys, Keys, Asked
<1>3. /\ \A k \in Keys : Made(k) => Made(k)' /\ job'[k].words = job[k].words
      /\ \A k \in Keys : Made(k)' /\ ~Made(k) => k = q.key /\ job'[k].words = q.words
    BY <1>1, <1>2, EnqueueKeeps DEF Made
<1>4. ASSUME NEW k \in 1..keys, NEW w \in Words, Says(k, w) PROVE Says(k, w)'
    <2>1. \A p \in starts' : p.key = k => p.words = w
        BY <1>1, <1>4 DEF Says
    <2>2. Made(k)' => job'[k].words = w
        BY <1>2, <1>3, <1>4 DEF Says, Made
    <2> QED
        BY <2>1, <2>2 DEF Says, Made
<1>5. ASSUME NEW a \in answers' PROVE a.key \in 1..keys /\ (a.what = "started" => Made(a.key)')
    <2>1. CASE a \in answers
        BY <1>2, <1>3, <2>1 DEF WordsInv, NetKeys
    <2>2. CASE a \notin answers
        <3>1. a.key = q.key
            BY <1>1, <1>5, <2>2
        <3>2. a.what = "started" => Made(q.key) \/ Enqueue(q)
            BY <1>1, <1>5, <2>2 DEF Made
        <3> QED
            BY <1>2, <1>3, <3>1, <3>2, EnqueueKeeps
    <2> QED
        BY <2>1, <2>2
<1>6. NetKeys'
    <2>1. \A k \in Keys : k > keys => ~Made(k)'
        BY <1>2, <1>3 DEF WordsInv, NetKeys
    <2>2. lookup.key # None => job'[lookup.key].st # "none"
        BY <1>3 DEF WordsInv, NetKeys, Made, TypeInv, PageTypes, Lookup
    <2>3. \A p \in starts' : p.key \in 1..keys
        BY <1>1 DEF WordsInv, NetKeys
    <2>4. keys' = keys /\ lookup' = lookup
        BY <1>1 DEF page
    <2> QED
        BY <1>5, <2>1, <2>2, <2>3, <2>4 DEF NetKeys, Made
<1> QED
    BY <1>1, <1>3, <1>4, <1>6 DEF KeepsWord, page

LEMMA OtherKeeps == ASSUME TypeInv, WordsInv, OtherStarts PROVE KeepsWord
<1>1. PICK c \in Chats, kind \in {"new", "edit"} :
          LET h == head[c]
              q == [key |-> Other, chat |-> c, kind |-> kind, words |-> "elsewhere",
                    seq |-> IF kind = "edit" THEN h.seq ELSE h.seq + 1]
          IN Enqueue(q) /\ UNCHANGED <<page, marks, head, net, ghosts>>
    BY DEF OtherStarts
<1>2. job[Other].st = "none"
    BY DEF OtherStarts
<1>3. \A k \in Keys : k # Other => job'[k] = job[k]
    BY <1>1 DEF Enqueue, TypeInv, RestTypes
<1>4. keys \in Nat /\ 1..keys \subseteq Keys /\ Other = 0
    BY Bounds DEF TypeInv, PageTypes, Keys
<1>5. \A k \in Keys : Made(k) => Made(k)' /\ job'[k].words = job[k].words
    BY <1>2, <1>3 DEF Made
<1>6. \A k \in 1..keys : k \in Keys /\ k # Other
    BY <1>4
<1>7. UNCHANGED <<starts, answers, lookup, keys>>
    BY <1>1 DEF page, net
<1>8. NetKeys'
    <2>1. \A a \in answers : a.key \in 1..keys /\ (a.what = "started" => Made(a.key)')
        BY <1>5, <1>6 DEF WordsInv, NetKeys
    <2>2. \A k \in Keys : k > keys => ~Made(k)'
        BY <1>3, <1>4 DEF WordsInv, NetKeys, Made
    <2>3. lookup.key # None => job'[lookup.key].st # "none"
        BY <1>5 DEF WordsInv, NetKeys, Made, TypeInv, PageTypes, Lookup
    <2> QED
        BY <1>7, <2>1, <2>2, <2>3 DEF WordsInv, NetKeys, Made
<1>9. \A k \in 1..keys : \A w \in Words : Says(k, w) => Says(k, w)'
    BY <1>3, <1>6, <1>7 DEF Says
<1> QED
    BY <1>5, <1>7, <1>8, <1>9 DEF KeepsWord

(* A run's steps leave its words.                                          *)
LEMMA RunsKeepWords ==
    ASSUME TypeInv, TakeStop \/ \E k \in Keys : Begin(k) \/ Emit(k) \/ End(k) \/ SaveEnd(k)
    PROVE  RunsKept
<1> USE DEF RunsKept, Made, TypeInv, RestTypes
<1>0. \A k \in Keys : job[k] \in Job
    OBVIOUS
<1>1. CASE TakeStop
    BY <1>0, <1>1 DEF TakeStop, Job
<1>2. ASSUME NEW k \in Keys, Begin(k) PROVE RunsKept
    BY <1>0, <1>2 DEF Begin, Job
<1>3. ASSUME NEW k \in Keys, Emit(k) PROVE RunsKept
    BY <1>0, <1>3 DEF Emit, Job
<1>4. ASSUME NEW k \in Keys, End(k) PROVE RunsKept
    <2>1. PICK end \in Ends, saved \in BOOLEAN :
              job' = [job EXCEPT ![k].st = "ended", ![k].end = end, ![k].saved = saved]
        BY <1>4 DEF End
    <2>2. job[k].st = "running"
        BY <1>4 DEF End
    <2>3. job'[k] = [job[k] EXCEPT !.st = "ended", !.end = end, !.saved = saved]
        BY <2>1
    <2>4. job'[k].st = "ended" /\ job'[k].words = job[k].words
        BY <1>0, <2>3 DEF Job
    <2>5. \A j \in Keys : j # k => job'[j] = job[j]
        BY <2>1
    <2> QED
        BY <2>2, <2>4, <2>5
<1>5. ASSUME NEW k \in Keys, SaveEnd(k) PROVE RunsKept
    BY <1>0, <1>5 DEF SaveEnd, Job
<1> QED
    BY <1>1, <1>2, <1>3, <1>4, <1>5

(* What a step may make of the page's turn and run, so that they agree.    *)
TurnAgrees ==
    \/ turn'.kept = None
    \/ /\ turn'.words = turn.words
       /\ \/ turn'.kept = turn.kept
          \/ /\ run.phase \in {"asking", "pausing"} /\ run.ours
             /\ turn'.kept = run.key /\ run'.phase \notin Started
SameRun ==
    /\ run.phase \in Started /\ run'.key = run.key /\ run'.kind = run.kind /\ run'.words = run.words
    /\ run'.ours => run.ours /\ turn'.words = turn.words
    /\ run'.phase \in {"asking", "pausing"} => run.phase \in {"asking", "pausing"}
    /\ run'.phase = "following" => run.phase = "following" \/ Made(run.key)
FoundRun ==
    /\ run'.phase = "following" /\ run'.kind = "found" /\ run'.key = lookup.key /\ lookup.key # None
RunAgrees == run'.phase \notin Started \/ SameRun \/ FoundRun

LEMMA WordsAgree ==
    ASSUME TypeInv, WordsInv, KeepsWord, TurnAgrees, RunAgrees
    PROVE  WordsInv'
<1>1. /\ keys \in Nat /\ 1..keys \subseteq Keys /\ keys' = keys
      /\ run \in Run /\ turn \in Turn /\ None \notin Keys
    BY Bounds DEF TypeInv, PageTypes, Keys, KeepsWord
<1>2. run.phase \in {"asking", "pausing"} =>
          run.key \in 1..keys /\ Says(run.key, run.words) /\ run.words \in Words
    BY <1>1 DEF WordsInv, PageKeys, AskSays, TypeInv, RunHasKey, Started, Run
<1>3. turn.kept # None => turn.kept \in 1..keys /\ Says(turn.kept, turn.words) /\ turn.words \in Words
    BY <1>1 DEF WordsInv, PageKeys, AskSays, Turn
<1>4. NetKeys'
    BY DEF KeepsWord
<1>5. run'.phase \in Started /\ run'.kind # "found" => SameRun
    BY DEF RunAgrees, FoundRun
<1>6. PageKeys'
    <2>1. turn'.kept \in 1..keys \cup {None}
        BY <1>2, <1>3 DEF TurnAgrees
    <2>2. SameRun /\ run'.kind # "found" => run'.key \in 1..keys
        BY DEF SameRun, WordsInv, PageKeys
    <2> QED
        BY <1>1, <1>5, <2>1, <2>2 DEF PageKeys
<1>7. \A k \in 1..keys : \A w \in Words : Says(k, w) /\ MaySay(k, w) => Says(k, w)'
    BY DEF KeepsWord
<1>8. ASSUME run'.phase \in {"asking", "pausing"}
      PROVE  /\ \A q \in starts' : q.key = run'.key => q.words = run'.words
             /\ job'[run'.key].st # "none" => job'[run'.key].words = run'.words
    <2>1. /\ run.phase \in {"asking", "pausing"}
          /\ run'.key = run.key /\ run'.words = run.words
        BY <1>8 DEF RunAgrees, SameRun, FoundRun, Started
    <2>2. /\ \A q \in starts' : q.key = run.key => q.words = run.words
          /\ job'[run.key].st # "none" => job'[run.key].words = run.words
        BY <1>2, <1>7, <2>1 DEF Says, MaySay
    <2> QED
        BY <2>1, <2>2
<1>9. ASSUME turn'.kept # None
      PROVE  /\ \A q \in starts' : q.key = turn'.kept => q.words = turn'.words
             /\ job'[turn'.kept].st # "none" => job'[turn'.kept].words = turn'.words
    <2>1. CASE turn'.kept = turn.kept /\ turn'.words = turn.words
        <3>1. /\ \A q \in starts' : q.key = turn.kept => q.words = turn.words
              /\ job'[turn.kept].st # "none" => job'[turn.kept].words = turn.words
            <4>1. MaySay(turn.kept, turn.words)
                BY <1>9, <2>1 DEF MaySay, WordsInv, AskSays
            <4> QED
                BY <1>3, <1>7, <1>9, <2>1, <4>1 DEF Says
        <3> QED
            BY <2>1, <3>1
    <2>2. CASE /\ run.phase \in {"asking", "pausing"} /\ run.ours
               /\ turn'.kept = run.key /\ turn'.words = turn.words
        <3>1. /\ \A q \in starts' : q.key = run.key => q.words = run.words
              /\ job'[run.key].st # "none" => job'[run.key].words = run.words
            BY <1>2, <1>7, <2>2 DEF Says, MaySay
        <3>2. run.words = turn.words
            BY <2>2 DEF WordsInv, FollowSays, TypeInv, RunHasKey, Started
        <3> QED
            BY <2>2, <3>1, <3>2
    <2> QED
        BY <1>9, <2>1, <2>2 DEF TurnAgrees
<1>10. AskSays'
    <2>1. run'.phase \in {"asking", "pausing"} => turn'.kept = None
        BY DEF RunAgrees, SameRun, FoundRun, TurnAgrees, WordsInv, AskSays, Started
    <2> QED
        BY <1>8, <1>9, <2>1 DEF AskSays, Says
<1>11. ASSUME run'.phase = "following" PROVE job'[run'.key].st # "none"
    <2>1. CASE SameRun
        <3>1. Made(run.key) /\ run.key \in Keys
            BY <1>1, <1>11, <2>1 DEF SameRun, WordsInv, FollowSays, TypeInv, RunHasKey, Run
        <3> QED
            BY <2>1, <3>1 DEF SameRun, KeepsWord, Made
    <2>2. CASE FoundRun
        <3>1. Made(lookup.key) /\ lookup.key \in Keys
            BY <2>2 DEF FoundRun, WordsInv, NetKeys, TypeInv, PageTypes, Lookup
        <3> QED
            BY <2>2, <3>1 DEF FoundRun, KeepsWord, Made
    <2> QED
        BY <1>11, <2>1, <2>2 DEF RunAgrees, Started
<1>12. ASSUME run'.phase = "following", run'.kind # "found" PROVE job'[run'.key].words = run'.words
    <2>1. SameRun
        BY <1>5, <1>12 DEF Started
    <2>2. run.key \in Keys /\ Made(run.key) /\ run.kind # "found"
        BY <1>1, <1>12, <2>1 DEF SameRun, WordsInv, FollowSays, TypeInv, RunHasKey, Run
    <2>3. job[run.key].words = run.words
        BY <1>2, <2>1, <2>2 DEF SameRun, WordsInv, FollowSays, Says, Made, Started
    <2> QED
        BY <2>1, <2>2, <2>3 DEF SameRun, KeepsWord
<1>13. ASSUME run'.phase \in Started, run'.kind # "found", run'.ours PROVE run'.words = turn'.words
    <2>1. SameRun
        BY <1>5, <1>13
    <2> QED
        BY <1>13, <2>1 DEF SameRun, WordsInv, FollowSays
<1>14. FollowSays'
    BY <1>11, <1>12, <1>13 DEF FollowSays, Made
<1> QED
    BY <1>4, <1>6, <1>10, <1>14 DEF WordsInv

(* A start asks with a key that is new, or was asked with its words.       *)
LEMMA AskAgrees ==
    ASSUME TypeInv, WordsInv, NEW t \in Turn, t.kept = None, NEW kind \in {"new", "retry", "edit"},
           NEW key \in Nat, key = keys + 1 \/ (key \in 1..keys /\ Says(key, t.words)),
           Ask(t, kind, key)
    PROVE  WordsInv'
<1>1. /\ keys \in Nat /\ 1..keys \subseteq Keys /\ 0 \notin 1..keys /\ None \notin 1..keys
      /\ keys + 1 > keys /\ keys + 1 \notin 1..keys
    BY Bounds DEF TypeInv, PageTypes, Keys
<1>2. /\ run'.phase = "asking" /\ run'.key = key /\ run'.kind = kind
      /\ run'.words = t.words /\ turn' = t
    BY AskedRun
<1>3. /\ starts' = starts \cup {Request(run', TRUE)}
      /\ keys' = (IF key > keys THEN key ELSE keys) /\ keys' <= MaxKeys
      /\ UNCHANGED <<job, answers, lookup>>
    BY DEF Ask, runner
<1>4. Request(run', TRUE).key = key /\ Request(run', TRUE).words = t.words
    BY <1>2 DEF Request
<1>5. keys' \in Nat /\ keys <= keys' /\ key \in 1..keys' /\ key \in Keys
    BY <1>1, <1>3, Bounds DEF Keys
<1>6. key = keys + 1 => ~Made(key) /\ \A q \in starts : q.key # key
    BY <1>1, <1>5 DEF WordsInv, NetKeys
<1>7. /\ \A q \in starts' : q.key = key => q.words = t.words
      /\ job'[key].st # "none" => job'[key].words = t.words
    BY <1>3, <1>4, <1>6 DEF Says, Made
<1>8. NetKeys'
    <2>1. ASSUME NEW q \in starts' PROVE q.key \in 1..keys'
        <3>1. CASE q \in starts
            <4>1. q.key \in 1..keys
                BY <3>1 DEF WordsInv, NetKeys
            <4> QED
                BY <1>1, <1>5, <4>1
        <3>2. CASE q = Request(run', TRUE)
            BY <1>4, <1>5, <3>2
        <3> QED
            BY <1>3, <3>1, <3>2
    <2>2. \A a \in answers' : a.key \in 1..keys' /\ (a.what = "started" => Made(a.key))
        BY <1>1, <1>3, <1>5 DEF WordsInv, NetKeys
    <2>3. \A k \in Keys : k > keys' => ~Made(k)
        BY <1>1, <1>5, Bounds DEF WordsInv, NetKeys, Keys
    <2>4. lookup.key # None => Made(lookup.key)
        BY DEF WordsInv, NetKeys
    <2> QED
        BY <1>3, <2>1, <2>2, <2>3, <2>4 DEF NetKeys, Made
<1>9. PageKeys'
    BY <1>2, <1>5 DEF PageKeys
<1>10. AskSays'
    BY <1>2, <1>7 DEF AskSays, Says
<1>11. FollowSays'
    BY <1>2 DEF FollowSays
<1> QED
    BY <1>8, <1>9, <1>10, <1>11 DEF WordsInv

LEMMA AskingAgrees == ASSUME TypeInv, WordsInv, Send \/ Retry \/ Edit PROVE WordsInv'
<1>0. turn \in Turn /\ keys + 1 \in Nat /\ turn.seq + 1 \in Nat
    BY Bounds DEF TypeInv, PageTypes, Turn
<1>1. CASE Send
    <2> DEFINE t == [NoTurn EXCEPT !.seq = turn.seq + 1, !.show = "streaming", !.asked = {keys + 1}]
    <2>1. t \in Turn
        BY <1>0, Nothings DEF Turn, Shows
    <2>2. t.kept = None
        BY DEF NoTurn
    <2>3. Ask(t, "new", keys + 1)
        BY <1>1 DEF Send
    <2> HIDE DEF t
    <2> QED
        BY <1>0, <2>1, <2>2, <2>3, AskAgrees
<1>2. CASE Retry
    <2> DEFINE t == [turn EXCEPT !.kept = None, !.show = "streaming", !.ended = "none",
                         !.asked = @ \cup {RetryKey}]
               kind == IF turn.edit THEN "edit" ELSE "retry"
    <2>1. turn.kept # None => turn.kept \in 1..keys /\ Says(turn.kept, turn.words)
        BY DEF WordsInv, PageKeys, AskSays
    <2>2. RetryKey \in Nat
        BY <1>0, <2>1 DEF RetryKey
    <2>3. t \in Turn /\ t.kept = None /\ t.words = turn.words
        BY <1>0, <2>2 DEF Turn, Shows
    <2>4. Ask(t, kind, RetryKey)
        BY <1>2 DEF Retry
    <2>5. kind \in {"new", "retry", "edit"}
        OBVIOUS
    <2>6. RetryKey = keys + 1 \/ (RetryKey \in 1..keys /\ Says(RetryKey, t.words))
        BY <2>3, <2>1 DEF RetryKey
    <2> HIDE DEF t, kind
    <2> QED
        BY <2>3, <2>4, <2>5, <2>6, <2>2, AskAgrees
<1>3. CASE Edit
    <2>1. Edited(turn) \in Turn /\ Edited(turn).kept = None
        BY <1>0 DEF Turn, Shows, Words, Edited, OtherWords
    <2>2. Ask(Edited(turn), "edit", keys + 1)
        BY <1>3 DEF Edit
    <2> QED
        BY <1>0, <2>1, <2>2, AskAgrees
<1> QED
    BY <1>1, <1>2, <1>3

LEMMA WordsStep == TypeInv /\ WordsInv /\ [Next]_vars => WordsInv'
<1> SUFFICES ASSUME TypeInv, WordsInv, [Next]_vars PROVE WordsInv'
    OBVIOUS
<1>0. /\ run \in Run /\ turn \in Turn /\ lookup \in Lookup
      /\ lookup.key \in Keys \cup {None}
      /\ (job' = job => RunsKept) /\ (starts' \subseteq starts => StartsKept)
      /\ NoRun.phase \notin Started
    BY DEF TypeInv, PageTypes, Lookup, RunsKept, StartsKept, Made, NoRun, Started
<1>1. ASSUME job' = job, starts' = starts, answers' \subseteq answers, lookup' = lookup, keys' = keys
      PROVE  KeepsWord
    BY <1>0, <1>1, NetKeeps
<1>2. ASSUME KeepsWord, turn' \in {turn, [turn EXCEPT !.edit = FALSE]}, run' = run PROVE WordsInv'
    <2>1. turn'.kept = turn.kept /\ turn'.words = turn.words
        BY <1>0, <1>2 DEF Turn
    <2> QED
        BY <1>2, <2>1, WordsAgree DEF TurnAgrees, RunAgrees, SameRun
<1>3. CASE UNCHANGED vars \/ LateAnswer \/ HeadRead
    <2>1. KeepsWord
        BY <1>1, <1>3 DEF LateAnswer, HeadRead, vars, page, runner, net
    <2> QED
        BY <1>2, <1>3, <2>1, PageStays DEF Elsewhere, HeadRead
<1>4. CASE TakeStart
    BY <1>2, <1>4, StartKeeps, PageStays DEF Elsewhere
<1>5. CASE OtherStarts
    BY <1>2, <1>5, OtherKeeps, PageStays DEF Elsewhere
<1>6. CASE TakeStop \/ \E k \in Keys : Begin(k) \/ Emit(k) \/ End(k) \/ SaveEnd(k)
    <2>1. RunsKept
        BY <1>6, RunsKeepWords
    <2>2. starts' = starts /\ answers' = answers
        BY <1>6 DEF TakeStop, Begin, Emit, End, SaveEnd, net
    <2>3. keys' = keys /\ lookup' = lookup /\ run' = run /\ turn' \in {turn, [turn EXCEPT !.edit = FALSE]}
        BY <1>6, PageStays DEF Elsewhere
    <2> QED
        BY <1>0, <1>2, <2>1, <2>2, <2>3, NetKeeps
<1>7. CASE LookUp
    <2>1. \/ \E k \in Keys : lookup'.key = k /\ Made(k)
          \/ lookup'.key = lookup.key
        BY <1>0, <1>7 DEF LookUp, Lookup, Live, Made
    <2>2. KeepsWord
        BY <1>0, <1>7, <2>1, NetKeeps DEF LookUp, runner, net
    <2> QED
        BY <1>2, <1>7, <2>2 DEF LookUp
<1>8. CASE Send \/ Retry \/ Edit
    BY <1>8, AskingAgrees
<1>9. CASE StartTaken
    <2>1. PICK a \in answers :
              /\ run.phase = "asking" /\ a.key = run.key
              /\ IF a.what = "started"
                 THEN /\ run' = [run EXCEPT !.phase = "following"]
                      /\ turn' = IF run.ours THEN [turn EXCEPT !.edit = FALSE] ELSE turn
                 ELSE Fails(turn.kept)
        BY <1>9 DEF StartTaken
    <2>2. KeepsWord
        BY <1>1, <1>9 DEF StartTaken, runner
    <2>3. TurnAgrees
        BY <1>0, <2>1 DEF TurnAgrees, Fails, Turn
    <2>4. CASE a.what = "started"
        <3>1. Made(run.key)
            BY <2>1, <2>4 DEF WordsInv, NetKeys
        <3>2. SameRun
            BY <1>0, <2>1, <2>4, <3>1 DEF SameRun, Run, Turn, Started
        <3> QED
            BY <2>2, <2>3, <3>2, WordsAgree DEF RunAgrees
    <2>5. CASE a.what # "started"
        BY <1>0, <2>1, <2>2, <2>3, <2>5, WordsAgree DEF RunAgrees, Fails
    <2> QED
        BY <2>4, <2>5
<1>10. CASE AskFails \/ GiveUp
    <2>1. StartsKept
        <3>1. \A q \in starts : [q EXCEPT !.heard = FALSE].key = q.key
                                /\ [q EXCEPT !.heard = FALSE].words = q.words
            BY DEF TypeInv, RestTypes, Asked
        <3>2. starts' = {IF q.key = run.key THEN [q EXCEPT !.heard = FALSE] ELSE q : q \in starts}
            BY <1>10 DEF AskFails, GiveUp, NoAnswer
        <3> QED
            BY <3>1, <3>2 DEF StartsKept
    <2>2. KeepsWord
        BY <1>0, <1>10, <2>1, NetKeeps DEF AskFails, GiveUp, NoAnswer, runner
    <2>3. TurnAgrees
        BY <1>0, <1>10 DEF TurnAgrees, AskFails, GiveUp, NoAnswer, Fails, Turn
    <2>4. RunAgrees
        BY <1>0, <1>10 DEF RunAgrees, SameRun, AskFails, GiveUp, NoAnswer, Fails, Run, Started
    <2> QED
        BY <2>2, <2>3, <2>4, WordsAgree
<1>11. CASE AskAgain
    <2>1. /\ run.phase = "pausing" /\ run' = [run EXCEPT !.phase = "asking", !.asks = @ + 1]
          /\ starts' = starts \cup {Request(run, TRUE)} /\ turn' = turn
        BY <1>11 DEF AskAgain
    <2>2. /\ run.key \in 1..keys /\ Says(run.key, run.words)
        BY <2>1 DEF WordsInv, PageKeys, AskSays, TypeInv, RunHasKey, Started
    <2>3. Request(run, TRUE).key = run.key /\ Request(run, TRUE).words = run.words
        BY DEF Request
    <2>4. KeepsWord
        <3>1. UNCHANGED <<job, answers, lookup, keys>>
            BY <1>11 DEF AskAgain, runner
        <3>2. \A q \in starts' : q.key \in 1..keys
            BY <2>1, <2>2, <2>3 DEF WordsInv, NetKeys
        <3>3. NetKeys'
            BY <3>1, <3>2 DEF WordsInv, NetKeys, Made
        <3>4. \A k \in 1..keys : \A w \in Words : Says(k, w) /\ MaySay(k, w) => Says(k, w)'
            BY <2>1, <2>2, <2>3, <3>1 DEF Says, MaySay
        <3> QED
            BY <3>1, <3>3, <3>4 DEF KeepsWord, Made
    <2>5. SameRun
        BY <1>0, <2>1 DEF SameRun, Run, Started
    <2> QED
        BY <2>1, <2>4, <2>5, WordsAgree DEF TurnAgrees, RunAgrees
<1>12. CASE Stop \/ Hears \/ Garbled
    <2>1. KeepsWord
        BY <1>1, <1>12 DEF Stop, Hears, Garbled, runner, net
    <2>2. TurnAgrees
        BY <1>0, <1>12 DEF TurnAgrees, Stop, Hears, Garbled, Turn
    <2>3. RunAgrees
        BY <1>0, <1>12 DEF RunAgrees, SameRun, Stop, Hears, Garbled, Resynced, Run, Started
    <2> QED
        BY <2>1, <2>2, <2>3, WordsAgree
<1>13. CASE HearEnd \/ LosesTrack \/ StoppedHere
    <2>1. KeepsWord
        BY <1>1, <1>13 DEF HearEnd, LosesTrack, StoppedHere, runner, net
    <2>2. TurnAgrees
        BY <1>0, <1>13 DEF TurnAgrees, HearEnd, LosesTrack, StoppedHere, Finish, Turn
    <2>3. run'.phase \notin Started
        BY <1>13, FinishedRun DEF HearEnd, LosesTrack, StoppedHere, Started
    <2> QED
        BY <2>1, <2>2, <2>3, WordsAgree DEF RunAgrees
<1>14. CASE HeadOpens
    <2>1. KeepsWord
        BY <1>1, <1>14 DEF HeadOpens, runner, net
    <2>2. turn'.kept = None
        BY <1>14 DEF HeadOpens, Opened, NoTurn
    <2>3. RunAgrees
        BY <1>0, <1>14 DEF RunAgrees, SameRun, HeadOpens, Release, Run, Started
    <2> QED
        BY <2>1, <2>2, <2>3, WordsAgree DEF TurnAgrees
<1>15. CASE HeadFails \/ LetsGo
    <2>1. KeepsWord
        BY <1>1, <1>15 DEF HeadFails, LetsGo, runner, net
    <2>2. turn' = turn /\ (run' = run \/ run' = NoRun)
        BY <1>15 DEF HeadFails, LetsGo
    <2>3. CASE run' = NoRun
        BY <1>0, <2>1, <2>2, <2>3, WordsAgree DEF TurnAgrees, RunAgrees
    <2> QED
        BY <1>2, <2>1, <2>2, <2>3
<1>16. CASE OpenChat \/ LookupEnds \/ Attach
    <2>1. lookup'.key \in {None, lookup.key}
        <3>1. [lookup EXCEPT !.left = TRUE].key = lookup.key
            BY <1>0 DEF Lookup
        <3>2. NoLookup.key = None /\ \A c : [NoLookup EXCEPT !.phase = "asked", !.chat = c].key = None
            BY DEF NoLookup
        <3>3. CASE OpenChat
            BY <3>1, <3>2, <3>3 DEF OpenChat
        <3>4. CASE LookupEnds \/ Attach
            BY <3>2, <3>4 DEF LookupEnds, Attach, LookupOver
        <3> QED
            BY <1>16, <3>3, <3>4
    <2>2. KeepsWord
        BY <1>0, <1>16, <2>1, NetKeeps DEF OpenChat, LookupEnds, Attach, runner, net
    <2>3. CASE OpenChat
        <3>1. turn'.kept = None /\ run' = NoRun
            BY <2>3 DEF OpenChat, Opened, NoTurn
        <3> QED
            BY <1>0, <2>2, <3>1, WordsAgree DEF TurnAgrees, RunAgrees
    <2>4. CASE LookupEnds
        BY <1>2, <2>2, <2>4 DEF LookupEnds
    <2>5. CASE Attach
        <3>1. TurnAgrees
            BY <1>0, <2>5 DEF TurnAgrees, Attach, Turn, NoTurn
        <3>2. FoundRun
            BY <2>5 DEF FoundRun, Attach, MayAttach, NoRun
        <3> QED
            BY <2>2, <3>1, <3>2, WordsAgree DEF RunAgrees
    <2> QED
        BY <1>16, <2>3, <2>4, <2>5
<1> QED
    BY <1>3, <1>4, <1>5, <1>6, <1>7, <1>8, <1>9, <1>10, <1>11, <1>12, <1>13, <1>14, <1>15, <1>16,
       HearIs
    DEF Next

(***************************************************************************)
(* The starts given up on                                                  *)
(***************************************************************************)

LEMMA GivenStep == TypeInv /\ GivenInv /\ [Next]_vars => GivenInv'
<1> SUFFICES ASSUME TypeInv, GivenInv, [Next]_vars PROVE GivenInv'
    OBVIOUS
<1> USE DEF GivenInv
<1>0. /\ run \in Run /\ turn \in Turn /\ given \subseteq Keys /\ None \notin Keys
      /\ NoRun.phase = "none"
    BY Bounds, NoRunIs DEF TypeInv, PageTypes, RestTypes
<1>1. ASSUME given' = {} PROVE GivenInv'
    BY <1>1
<1>2. CASE Elsewhere \/ HeadRead \/ LookUp \/ LookupEnds
    <2>1. UNCHANGED <<given, run>> /\ turn'.kept = turn.kept
        BY <1>0, <1>2, PageStays DEF HeadRead, LookUp, LookupEnds, ghosts, Turn
    <2> QED
        BY <2>1
<1>3. CASE Send \/ Edit \/ HeadOpens \/ OpenChat
    BY <1>1, <1>3 DEF Send, Edit, HeadOpens, OpenChat
<1>4. CASE Retry
    <2>1. given' = given /\ run'.phase = "asking" /\ run'.ours /\ run'.key = RetryKey
        BY <1>4, AskedRun DEF Retry
    <2>2. given \subseteq {turn.kept}
        BY <1>4 DEF Retry, running
    <2> QED
        BY <1>0, <2>1, <2>2 DEF RetryKey
<1>5. CASE Stop
    <2>1. CASE run.phase \in {"asking", "pausing"} /\ given' = given \ {run.key}
        BY <1>1, <2>1
    <2>2. CASE run.phase = "following" /\ run' = [run EXCEPT !.stop = TRUE] /\ UNCHANGED <<turn, given>>
        <3>1. run'.phase = "following" /\ run'.ours = run.ours
            BY <1>0, <2>2 DEF Run
        <3> QED
            BY <2>2, <3>1 DEF Started
    <2> QED
        BY <1>5, <2>1, <2>2 DEF Stop
<1>6. CASE StartTaken
    <2>1. given' = IF run.ours THEN {} ELSE given
        BY <1>6 DEF StartTaken
    <2>2. run.phase \in Started
        BY <1>6 DEF StartTaken, Started
    <2> QED
        BY <1>1, <2>1, <2>2
<1>7. CASE AskFails \/ AskAgain
    <2>1. /\ run.phase \in {"asking", "pausing"} /\ run'.phase \in {"asking", "pausing"}
          /\ run'.ours = run.ours /\ run'.key = run.key /\ given' = given
        BY <1>0, <1>7 DEF AskFails, AskAgain, NoAnswer, Run, ghosts
    <2> QED
        BY <2>1 DEF Started
<1>8. CASE GiveUp
    <2>1. run.phase = "asking" /\ run'.phase = "none"
        BY <1>0, <1>8 DEF GiveUp, NoAnswer, Fails
    <2>2. CASE run.ours
        <3>1. turn'.kept = run.key /\ given' = given \cup {run.key}
            BY <1>0, <1>8, <2>2 DEF GiveUp, Fails, Turn
        <3> QED
            BY <2>1, <3>1 DEF Started
    <2>3. CASE ~run.ours
        BY <1>1, <1>8, <2>1, <2>3 DEF GiveUp, Started
    <2> QED
        BY <2>2, <2>3
<1>9. CASE Hears \/ Garbled
    <2>1. /\ run.phase = "following" /\ run'.phase = "following" /\ run'.ours = run.ours
          /\ UNCHANGED <<turn, given>>
        BY <1>0, <1>9 DEF Hears, Garbled, Resynced, Run
    <2> QED
        BY <2>1 DEF Started
<1>10. CASE HearEnd \/ LosesTrack \/ StoppedHere
    <2>1. run'.phase = "ending"
        BY <1>10, FinishedRun DEF HearEnd, LosesTrack, StoppedHere
    <2>2. run.phase = "following" /\ given' = given /\ turn'.kept = turn.kept
        BY <1>0, <1>10 DEF HearEnd, LosesTrack, StoppedHere, Finish, Turn, ghosts
    <2> QED
        BY <2>1, <2>2 DEF Started
<1>11. CASE HeadFails \/ LetsGo
    <2>1. UNCHANGED <<turn, given>> /\ (run' = run \/ (run.phase = "ending" /\ run'.phase = "none"))
        BY <1>0, <1>11 DEF HeadFails, LetsGo
    <2> QED
        BY <2>1 DEF Started
<1>12. CASE Attach
    <2>1. run'.phase = "following" /\ run'.ours /\ run.phase = "none"
        BY <1>12 DEF Attach, MayAttach, NoRun, running
    <2>2. given' = {} \/ (given' = given /\ turn'.kept = turn.kept)
        BY <1>0, <1>12 DEF Attach, Turn
    <2> QED
        BY <1>1, <2>1, <2>2 DEF Started
<1> QED
    BY <1>2, <1>3, <1>4, <1>5, <1>6, <1>7, <1>8, <1>9, <1>10, <1>11, <1>12, HearIs DEF Next, Elsewhere

(***************************************************************************)
(* The invariant, and what follows of it                                   *)
(***************************************************************************)

LEMMA InitRemote == Init => RemoteInv
<1> SUFFICES ASSUME Init PROVE RemoteInv
    OBVIOUS
<1>0. turn.ended = "none" /\ turn.kept = None
    BY DEF Init, Opened, NoTurn
<1>1. /\ run.phase = "none" /\ turn.ended = "none" /\ turn.kept = None /\ ~back.on /\ back.got = <<>>
      /\ lookup.key = None /\ seen /\ given = {} /\ starts = {} /\ answers = {}
    BY <1>0, NoRunIs DEF Init, NoRead, NoLookup
<1>2. \A k \in Keys : ~Made(k) /\ \A i \in Ids : told[k][i] = 0
    BY DEF Init, Made, NoJob
<1>3. JournalInv
    BY UpToGrows, NoRunIs DEF Init, JournalInv, None
<1>4. CountInv
    BY <1>1, <1>2 DEF CountInv, ToldOnce, NoneBeyond
<1>5. WordsInv
    BY <1>1, <1>2 DEF WordsInv, NetKeys, PageKeys, AskSays, FollowSays, Started
<1> QED
    BY <1>1, <1>3, <1>4, <1>5, InitTypes
    DEF RemoteInv, ReadInv, ReadIsLate, GotIsOn, SentTurnStays, EndInv, Unsettled, SettledEndIsShown,
        LookupInv, GivenInv, Started

LEMMA RemoteInvariant == Spec => []RemoteInv
<1>1. RemoteInv /\ [Next]_vars => RemoteInv'
    BY TypesStep, ReadStep, EndStep, JournalStep, CountStep, LookupStep, WordsStep, GivenStep
    DEF RemoteInv
<1> QED
    BY <1>1, InitRemote, PTL DEF Spec

(* Nothing the viewer sends lands on a chat that is replaced by the head   *)
(* read after a reply, unless that read outlived its timeout (#finish).    *)
THEOREM SentStays == Spec => []SentTurnStays
<1>1. RemoteInv => SentTurnStays
    BY DEF RemoteInv, ReadInv
<1> QED
    BY <1>1, RemoteInvariant, PTL

(* The end the journal told is what the turn shows, whatever head is read  *)
(* afterwards (#reread).                                                   *)
THEOREM EndIsShown == Spec => []SettledEndIsShown
<1>1. RemoteInv => SettledEndIsShown
    BY DEF RemoteInv, EndInv
<1> QED
    BY <1>1, RemoteInvariant, PTL

(* The parts shown are the journal's up to the event read last, however    *)
(* often it was read again from its start (#accept, applyRunEvent).        *)
THEOREM PartsAreTheJournal == Spec => []ShownIsTheJournal
<1>1. RemoteInv => ShownIsTheJournal
    BY DEF RemoteInv, JournalInv, ShownIsTheJournal, UpTo
<1> QED
    BY <1>1, RemoteInvariant, PTL

(* Each retry is kept, and each event announced, once, over resyncs and    *)
(* runs followed again (appliedThrough, firedThrough).                     *)
THEOREM EventsCount == Spec => []EventsCountOnce
<1>1. RemoteInv => EventsCountOnce
    <2> SUFFICES ASSUME RemoteInv PROVE EventsCountOnce
        OBVIOUS
    <2>1. run.retries = UpTo(run.applied) /\ run.applied \in -1..MaxEvents
        BY Bounds DEF RemoteInv, JournalInv, TypeInv, PageTypes, Run, Places, Ids
    <2>2. run.retries = UpTo(Len(run.retries))
        <3>1. CASE run.applied = -1
            BY <2>1, <3>1, UpToGrows DEF None
        <3>2. CASE run.applied # -1
            <4>1. run.applied \in Nat
                BY <2>1, <3>2
            <4>2. Len(UpTo(run.applied)) = run.applied
                BY <4>1, UpToGrows
            <4> QED
                BY <2>1, <4>2
        <3> QED
            BY <3>1, <3>2
    <2> QED
        BY <2>2 DEF UpTo, EventsCountOnce, RemoteInv, CountInv, ToldOnce
<1> QED
    BY <1>1, RemoteInvariant, PTL

(* The chat that is open when no lookup is on its way was looked up, or    *)
(* replied in, since it was opened (reattach, #attachNext).                *)
THEOREM ChatIsLookedUp == Spec => []OpenChatIsLookedUp
<1>1. RemoteInv => OpenChatIsLookedUp
    BY DEF RemoteInv, LookupInv, OpenChatIsLookedUp
<1> QED
    BY <1>1, RemoteInvariant, PTL

(* A reply that is followed answers the words its turn shows, also those   *)
(* of an edit whose start was given up on, refused or raced (edit, retry). *)
THEOREM EditStays == Spec => []EditIsNotDropped
<1>1. RemoteInv => EditIsNotDropped
    BY DEF RemoteInv, WordsInv, FollowSays, EditIsNotDropped, Started
<1> QED
    BY <1>1, RemoteInvariant, PTL

(* A Retry that is taken as a new start is refused by no run of a start    *)
(* given up on before it: it asks with that start's key (#unanswered).     *)
THEOREM RetryFinds == Spec => RetryFindsItsRun
<1>1. ASSUME RemoteInv, NEW q \in starts, q.key = run.key, ~Made(q.key), run.ours
      PROVE  given \subseteq {q.key}
    <2>1. q.key # None
        <3>1. q \in Asked
            BY <1>1 DEF RemoteInv, TypeInv, RestTypes
        <3> QED
            BY <3>1, Bounds DEF Asked
    <2>2. run.phase \in Started
        BY <1>1, <2>1 DEF RemoteInv, TypeInv, RunHasKey
    <2>3. run.phase # "following"
        BY <1>1 DEF RemoteInv, WordsInv, FollowSays
    <2> QED
        BY <1>1, <2>2, <2>3 DEF RemoteInv, GivenInv, Started
<1>2. RemoteInv /\ [Next]_vars =>
          [\A q \in starts \ starts' :
              q.heard /\ q.key = run.key /\ job[q.key].st = "none" /\ run.ours
                  => \A k \in given \ {q.key} : ~(Live(k) /\ job[k].chat = q.chat)]_vars
    BY <1>1 DEF Made
<1> QED
    BY <1>2, RemoteInvariant, PTL DEF Spec, RetryFindsItsRun
=============================================================================
