-------------------------- MODULE RecoveryProofs ---------------------------
(***************************************************************************)
(* Proofs about the paid workflows under a reply's steps                   *)
(* (WorkflowRecovery), for any askers, steps, bounds and faults.           *)
(*                                                                         *)
(* None of the four safety properties is inductive.  They need that the    *)
(* kept workflows are those of their steps, one of each, that a workflow   *)
(* is in one place at most until it is answered, that a cancel was sent    *)
(* for whatever is waited for to be cancelled, and that the asker a        *)
(* workflow was posted by still listens for its own Stop while it or the   *)
(* kept entries have the workflow.                                         *)
(***************************************************************************)
EXTENDS WorkflowRecovery, TLAPS

Phases == {"idle", "posting", "posted", "streaming", "waiting", "reading", "pausing", "cancelling",
           "over"}
Entry == [step : Steps, id : Workflows]
Workflow == [st : {"none", "live", "succeeded", "ended"}, step : Steps, by : Askers]
Asker == [pc : Phases, step : Steps, id : Workflows \cup {None}, aborted : BOOLEAN,
          late : BOOLEAN]

Kept(w) == \E c \in ToSet(cut) : c.id = w
Active(a, w) == Id(a) = w /\ asker[a].pc \in {"reading", "pausing", "posted", "streaming"}

TypeInv ==
    /\ asker \in [Askers -> Asker]
    /\ wf \in [Workflows -> Workflow]
    /\ cut \in Seq(Entry)
    /\ hears \subseteq Askers \X Workflows
    /\ cancels \subseteq Workflows
    /\ excused \subseteq Workflows
    /\ taken \subseteq Workflows /\ unnamed \subseteq Workflows
    /\ answers \in [Workflows -> Nat]
    /\ faults \in Nat

(* cut is a map: a step has one entry.                                     *)
Keyed(entries) == \A i, j \in 1..Len(entries) : entries[i].step = entries[j].step => i = j

(* A kept workflow was posted for the step it is kept under.               *)
CutIsPosted == \A c \in ToSet(cut) : wf[c.id].st # "none" /\ wf[c.id].step = c.step

(* An asker has to do with a workflow where the code has its id.           *)
AskerIsRight ==
    \A a \in Askers :
        /\ asker[a].pc \in {"reading", "pausing", "cancelling", "posted", "streaming"} => Id(a) # None
        /\ asker[a].pc \in {"idle", "waiting", "over"} => Id(a) = None
        /\ Id(a) # None => wf[Id(a)].st # "none" /\ wf[Id(a)].step = asker[a].step
        /\ asker[a].pc \in {"posted", "streaming"} => ~asker[a].aborted /\ wf[Id(a)].by = a

PostedForStep == \A w \in Workflows : wf[w].st # "none" => wf[w].step = asker[wf[w].by].step

(* Until it is answered a workflow is streamed or read by one asker, or    *)
(* kept; then it is neither.                                               *)
InOnePlace ==
    /\ \A w \in Workflows : \A a, b \in Askers : Active(a, w) /\ Active(b, w) => a = b
    /\ \A w \in Workflows : \A a \in Askers : Active(a, w) => ~Kept(w) /\ answers[w] = 0
    /\ \A w \in Workflows : Kept(w) \/ wf[w].st = "none" => answers[w] = 0

(* What an asker waits to see cancelled was sent a cancel.                 *)
CancelWasSent ==
    \A a \in Askers : At(a, "cancelling") /\ IsLive(Id(a)) => Id(a) \in cancels \cup excused

(* A live workflow nobody cancelled or took over is with the asker that    *)
(* posted it, or kept, and that asker's Stop still reaches it.             *)
HasIt(a, w) == Holds(a, w) \/ (Kept(w) /\ ~asker[a].aborted)
Hears(a, w) ==
    \/ asker[a].pc \in {"posted", "streaming"} /\ Id(a) = w
    \/ asker[a].aborted \/ <<a, w>> \in hears

PosterHears ==
    \A w \in Workflows : IsLive(w) /\ w \notin cancels \cup excused \cup taken \cup unnamed
        => HasIt(wf[w].by, w) /\ Hears(wf[w].by, w)

RecoveryInv ==
    /\ TypeInv /\ Keyed(cut) /\ CutIsPosted /\ AskerIsRight /\ PostedForStep
    /\ InOnePlace /\ AnsweredOnce /\ CancelWasSent /\ NeverTwoAtOnce /\ NoneIsLost /\ PosterHears
-----------------------------------------------------------------------------
(* What a sequence without one of its places holds.                        *)
LEMMA RemovedAt ==
    ASSUME NEW s \in Seq(Entry), NEW i \in 1..Len(s)
    PROVE  /\ RemoveAt(s, i) \in Seq(Entry)
           /\ Len(RemoveAt(s, i)) = Len(s) - 1
           /\ \A j \in 1..(Len(s) - 1) : RemoveAt(s, i)[j] = IF j < i THEN s[j] ELSE s[j + 1]
<1> DEFINE u == SubSeq(s, 1, i - 1)
           v == SubSeq(s, i + 1, Len(s))
<1>1. u \in Seq(Entry) /\ Len(u) = i - 1 /\ \A j \in 1..(i - 1) : u[j] = s[j]
    OBVIOUS
<1>2. v \in Seq(Entry) /\ Len(v) = Len(s) - i /\ \A j \in 1..(Len(s) - i) : v[j] = s[i + j]
    OBVIOUS
<1>3. RemoveAt(s, i) = u \o v
    BY DEF RemoveAt
<1> HIDE DEF u, v
<1>0. u \in Seq(Entry) /\ v \in Seq(Entry)
    BY <1>1, <1>2
<1>4. /\ u \o v \in Seq(Entry)
      /\ Len(u \o v) = Len(u) + Len(v)
      /\ \A j \in 1..(Len(u) + Len(v)) : (u \o v)[j] = IF j <= Len(u) THEN u[j] ELSE v[j - Len(u)]
    BY <1>0
<1>5. ASSUME NEW j \in 1..(Len(s) - 1)
      PROVE  (u \o v)[j] = IF j < i THEN s[j] ELSE s[j + 1]
    <2>1. CASE j < i
        BY <1>1, <1>2, <1>4, <2>1
    <2>2. CASE ~(j < i)
        <3>1. j - (i - 1) \in 1..(Len(s) - i)
            BY <2>2
        <3>2. v[j - (i - 1)] = s[i + (j - (i - 1))]
            BY <1>2, <3>1
        <3>3. (u \o v)[j] = v[j - (i - 1)]
            BY <1>1, <1>2, <1>4, <2>2
        <3>4. i + (j - (i - 1)) = j + 1
            OBVIOUS
        <3> QED
            BY <2>2, <3>2, <3>3, <3>4
    <2> QED
        BY <2>1, <2>2
<1> QED
    BY <1>1, <1>2, <1>3, <1>4, <1>5

(* Deleting a step's entry leaves those of the other steps.                *)
LEMMA WithoutLeaves ==
    ASSUME NEW s \in Seq(Entry), Keyed(s), NEW step \in Steps
    PROVE  /\ Without(s, step) \in Seq(Entry)
           /\ Keyed(Without(s, step))
           /\ ToSet(Without(s, step)) = {c \in ToSet(s) : c.step # step}
<1> DEFINE at == {i \in 1..Len(s) : s[i].step = step}
           k == CHOOSE i \in at : TRUE
           t == RemoveAt(s, k)
<1>1. CASE at = {}
    <2>1. Without(s, step) = s
        BY <1>1 DEF Without
    <2>2. \A c \in ToSet(s) : c.step # step
        BY <1>1 DEF ToSet
    <2> QED
        BY <2>1, <2>2
<1>2. CASE at # {}
    <2>1. k \in at
        BY <1>2
    <2>2. Without(s, step) = t
        BY <1>2 DEF Without
    <2>3. /\ t \in Seq(Entry)
          /\ Len(t) = Len(s) - 1
          /\ \A j \in 1..(Len(s) - 1) : t[j] = IF j < k THEN s[j] ELSE s[j + 1]
        BY <2>1, RemovedAt
    <2>4. k \in 1..Len(s) /\ s[k].step = step
        BY <2>1
    <2> HIDE DEF t, k, at
    <2>5. \A i \in 1..Len(s) : i # k => s[i].step # step
        BY <2>4 DEF Keyed
    <2>6. Keyed(t)
        <3> SUFFICES ASSUME NEW i \in 1..Len(t), NEW j \in 1..Len(t), t[i].step = t[j].step
                     PROVE  i = j
            BY DEF Keyed
        <3>1. /\ t[i] = IF i < k THEN s[i] ELSE s[i + 1]
              /\ t[j] = IF j < k THEN s[j] ELSE s[j + 1]
            BY <2>3
        <3> QED
            BY <2>3, <2>4, <3>1 DEF Keyed
    <2>7. ToSet(t) \subseteq {c \in ToSet(s) : c.step # step}
        <3> SUFFICES ASSUME NEW j \in 1..Len(t)
                     PROVE  t[j] \in ToSet(s) /\ t[j].step # step
            BY <2>3 DEF ToSet
        <3>1. PICK i \in 1..Len(s) : i # k /\ t[j] = s[i]
            BY <2>3, <2>4
        <3> QED
            BY <2>5, <3>1 DEF ToSet
    <2>8. ASSUME NEW c \in ToSet(s), c.step # step
          PROVE  c \in ToSet(t)
        <3>1. PICK i \in 1..Len(s) : s[i] = c
            BY DEF ToSet
        <3>2. CASE i < k
            BY <2>3, <2>4, <3>1, <3>2 DEF ToSet
        <3>3. CASE i > k
            <4>1. i - 1 \in 1..Len(t) /\ t[i - 1] = s[i]
                BY <2>3, <2>4, <3>3
            <4> QED
                BY <2>3, <3>1, <4>1 DEF ToSet
        <3> QED
            BY <2>4, <2>8, <3>1, <3>2, <3>3
    <2> QED
        BY <2>2, <2>3, <2>6, <2>7, <2>8
<1> QED
    BY <1>1, <1>2

(* remember keeps the new entry, and drops none but the step's own and the *)
(* oldest.                                                                 *)
LEMMA RememberKeeps ==
    ASSUME cut \in Seq(Entry), Keyed(cut), NEW step \in Steps, NEW w \in Workflows
    PROVE  LET e == [step |-> step, id |-> w]
               kept == Remember(step, w)
           IN /\ kept \in Seq(Entry)
              /\ Keyed(kept)
              /\ ToSet(kept) \subseteq {c \in ToSet(cut) : c.step # step} \cup {e}
              /\ e \in ToSet(kept)
              /\ \A c \in ToSet(cut) : c \in ToSet(kept) \/ c.id \in Dropped(step, w) \/ c.id = w
<1> DEFINE e == [step |-> step, id |-> w]
           s == Without(cut, step)
           t == Append(s, e)
           kept == Remember(step, w)
<1>1. s \in Seq(Entry) /\ Keyed(s) /\ ToSet(s) = {c \in ToSet(cut) : c.step # step}
    BY WithoutLeaves
<1>2. kept = IF Len(t) > KeepMax THEN Tail(t) ELSE t
    BY DEF Remember
<1>3. e \in Entry /\ e.step = step
    BY DEF Entry
<1> HIDE DEF e, s
<1>4. /\ t \in Seq(Entry) /\ Len(t) = Len(s) + 1 /\ t[Len(t)] = e
      /\ \A i \in 1..Len(s) : t[i] = s[i]
    BY <1>1, <1>3
<1> HIDE DEF t
<1>5. \A i \in 1..Len(s) : s[i].step # step
    BY <1>1 DEF ToSet
<1>6. Keyed(t)
    BY <1>1, <1>3, <1>4, <1>5 DEF Keyed
<1>7. ToSet(t) \subseteq ToSet(s) \cup {e}
    BY <1>1, <1>4 DEF ToSet
<1>8. CASE Len(t) > KeepMax
    <2> DEFINE r == Tail(t)
    <2>1. /\ r \in Seq(Entry) /\ Len(r) = Len(t) - 1
          /\ \A i \in 1..Len(r) : r[i] = t[i + 1]
        BY <1>4
    <2>2. Len(r) >= 1
        BY <1>4, <1>8, <2>1, RecoveryAssumption
    <2>3. kept = r
        BY <1>2, <1>8
    <2> HIDE DEF r, kept
    <2>4. Keyed(r)
        BY <1>4, <1>6, <2>1 DEF Keyed
    <2>5. ToSet(r) \subseteq ToSet(t)
        BY <1>4, <2>1 DEF ToSet
    <2>6. e \in ToSet(r)
        BY <1>4, <2>1, <2>2 DEF ToSet
    <2> QED
        BY <1>1, <1>7, <2>1, <2>3, <2>4, <2>5, <2>6 DEF Dropped, kept, e
<1>9. CASE ~(Len(t) > KeepMax)
    <2>1. kept = t
        BY <1>2, <1>9
    <2>2. e \in ToSet(t)
        BY <1>4 DEF ToSet
    <2> QED
        BY <1>1, <1>4, <1>6, <1>7, <2>1, <2>2 DEF Dropped, e
<1> QED
    BY <1>8, <1>9

(* The initial states.                                                     *)
LEMMA InitRecovery == Init => RecoveryInv
<1> SUFFICES ASSUME Init PROVE RecoveryInv
    OBVIOUS
<1>1. NoWorkflow \in Workflow
    BY RecoveryAssumption DEF NoWorkflow, Workflow
<1>2. \A a \in Askers : asker[a] \in Asker /\ asker[a].pc = "idle" /\ Id(a) = None
    BY DEF Init, Asker, Phases, Id
<1>3. TypeInv
    BY <1>1, <1>2 DEF Init, TypeInv
<1>4. ToSet(cut) = {} /\ Keyed(cut)
    BY DEF Init, ToSet, Keyed
<1>5. \A w \in Workflows : wf[w].st = "none" /\ answers[w] = 0
    BY DEF Init, NoWorkflow
<1>6. CutIsPosted /\ AskerIsRight /\ PostedForStep
    BY <1>2, <1>4, <1>5 DEF CutIsPosted, AskerIsRight, PostedForStep
<1>7. InOnePlace /\ AnsweredOnce
    BY <1>2, <1>4, <1>5 DEF InOnePlace, AnsweredOnce, Active, Kept
<1>8. CancelWasSent /\ NeverTwoAtOnce
    BY <1>2 DEF CancelWasSent, NeverTwoAtOnce, At
<1>9. NoneIsLost /\ PosterHears
    BY <1>5 DEF NoneIsLost, PosterHears, IsLive, Live
<1> QED
    BY <1>3, <1>4, <1>6, <1>7, <1>8, <1>9 DEF RecoveryInv

LEMMA NotNone == \A w \in Workflows : w # None
BY RecoveryAssumption DEF Workflows, None

(* Where an asker goes, and what it keeps.                                 *)
LEMMA GoesTo ==
    ASSUME TypeInv, NEW a \in Askers, NEW pc \in Phases, Goto(a, pc)
    PROVE  /\ asker' \in [Askers -> Asker]
           /\ asker'[a].pc = pc
           /\ asker'[a].id = IF pc \in {"over", "waiting"} THEN None ELSE asker[a].id
           /\ asker'[a].step = asker[a].step /\ asker'[a].aborted = asker[a].aborted
           /\ \A b \in Askers : b # a => asker'[b] = asker[b]
<1>1. asker \in [Askers -> Asker] /\ asker[a] \in Asker
    BY DEF TypeInv
<1> QED
    BY <1>1 DEF Goto, Asker

LEMMA AbortsTo ==
    ASSUME TypeInv, NEW a \in Askers, Abort(a)
    PROVE  /\ asker' \in [Askers -> Asker]
           /\ asker'[a].pc = IF asker[a].pc \in {"posted", "streaming", "waiting"}
                            THEN "over" ELSE asker[a].pc
           /\ asker'[a].id = IF asker[a].pc \in {"posted", "streaming", "waiting"}
                            THEN None ELSE asker[a].id
           /\ asker'[a].step = asker[a].step /\ asker'[a].aborted
           /\ \A b \in Askers : b # a => asker'[b] = asker[b]
<1>1. asker \in [Askers -> Asker] /\ asker[a] \in Asker
    BY DEF TypeInv
<1>2. /\ asker' = [asker EXCEPT ![a].aborted = TRUE, ![a].pc = Stopped(a),
                               ![a].id = IF Stopped(a) = "over" THEN None ELSE @]
      /\ asker[a].pc # "over"
    BY DEF Abort
<1> QED
    BY <1>1, <1>2 DEF Asker, Phases, Stopped

(* The entry of a step that is kept is its only one.                       *)
LEMMA OneEntry ==
    ASSUME Keyed(cut), NEW c \in ToSet(cut), NEW d \in ToSet(cut), c.step = d.step
    PROVE  c = d
BY DEF Keyed, ToSet

(* Every kept entry has its type.                                          *)
LEMMA EntriesAreTyped ==
    ASSUME TypeInv, NEW c \in ToSet(cut)
    PROVE  c \in Entry /\ c.id \in Workflows /\ c.step \in Steps
<1>1. cut \in Seq(Entry)
    BY DEF TypeInv
<1>2. PICK i \in DOMAIN cut : c = cut[i]
    BY DEF ToSet
<1>3. c \in Entry
    BY <1>1, <1>2
<1> QED
    BY <1>3 DEF Entry

(* The types, and that cut is a map, through every step.                   *)
LEMMA TypesStep ==
    ASSUME TypeInv, Keyed(cut), AskerIsRight, [Next]_vars
    PROVE  TypeInv' /\ Keyed(cut')
<1>0. asker \in [Askers -> Asker] /\ \A a \in Askers : asker[a] \in Asker
    BY DEF TypeInv
<1>1. CASE UNCHANGED vars
    BY <1>1 DEF TypeInv, Keyed, vars
<1>2. ASSUME NEW a \in Askers, Ask(a) PROVE TypeInv' /\ Keyed(cut')
    <2>1. asker[a].step \in Steps
        BY <1>0 DEF Asker
    <2>2. /\ Without(cut, asker[a].step) \in Seq(Entry)
          /\ Keyed(Without(cut, asker[a].step))
        BY <2>1, WithoutLeaves DEF TypeInv
    <2>3. \A c \in ToSet(cut) : c.id \in Workflows
        BY EntriesAreTyped
    <2>4. asker' \in [Askers -> Asker]
        BY <1>0, <1>2, <2>3 DEF Ask, EntriesOf, Asker, Phases
    <2>5. cut' \in Seq(Entry) /\ Keyed(cut')
        BY <1>2, <2>2 DEF Ask, Take, TypeInv
    <2>6. excused' \subseteq Workflows /\ taken' \subseteq Workflows /\ faults' \in Nat
        BY <1>2, <2>3 DEF Ask, EntriesOf, Fault, TypeInv
    <2> QED
        BY <1>2, <2>4, <2>5, <2>6 DEF Ask, TypeInv
<1>3. ASSUME NEW a \in Askers, ReadFails(a) \/ StreamCut(a) PROVE TypeInv' /\ Keyed(cut')
    <2>1. asker[a].step \in Steps /\ Id(a) \in Workflows
        BY <1>0, <1>3 DEF Asker, ReadFails, StreamCut, At, AskerIsRight, Id
    <2>2. /\ Remember(asker[a].step, Id(a)) \in Seq(Entry)
          /\ Keyed(Remember(asker[a].step, Id(a)))
        BY <2>1, RememberKeeps DEF TypeInv
    <2>3. Dropped(asker[a].step, Id(a)) \subseteq Workflows
        BY EntriesAreTyped DEF Dropped
    <2>4. asker' \in [Askers -> Asker]
        BY <1>3, GoesTo DEF ReadFails, StreamCut, Phases
    <2>5. cut' \in Seq(Entry) /\ Keyed(cut')
        BY <1>3, <2>2 DEF ReadFails, StreamCut, TypeInv
    <2> QED
        BY <1>3, <2>1, <2>3, <2>4, <2>5 DEF ReadFails, StreamCut, ListensTo, TypeInv
<1>4. ASSUME NEW a \in Askers, ReadOver(a) \/ StreamEnds(a) PROVE TypeInv' /\ Keyed(cut')
    <2>1. asker' \in [Askers -> Asker]
        BY <1>4, GoesTo DEF ReadOver, StreamEnds, Phases
    <2>2. answers' \in [Workflows -> Nat]
        BY <1>4 DEF ReadOver, StreamEnds, TypeInv
    <2> QED
        BY <1>4, <2>1, <2>2 DEF ReadOver, StreamEnds, TypeInv
<1>5. ASSUME NEW a \in Askers,
             \/ ReadRefused(a) \/ ReadLive(a) \/ PauseEnds(a) \/ Headers(a)
             \/ CancelReturns(a) \/ GivesUp(a) \/ PostAborted(a)
      PROVE  TypeInv' /\ Keyed(cut')
    <2>1. asker' \in [Askers -> Asker]
        BY <1>5, GoesTo
        DEF ReadRefused, ReadLive, PauseEnds, Headers, AfterDeadline, CancelReturns, GivesUp,
            PostAborted, Phases
    <2>2. ReadRefused(a) \/ ReadLive(a) \/ PauseEnds(a) \/ Headers(a) => Id(a) \in Workflows
        BY <1>0 DEF ReadRefused, ReadLive, PauseEnds, Headers, At, AskerIsRight, Asker, Id
    <2> QED
        BY <1>5, <2>1, <2>2
        DEF ReadRefused, ReadLive, PauseEnds, Headers, CancelReturns, GivesUp, PostAborted, Fault,
            TypeInv
<1>9. ASSUME NEW a \in Askers, TimeIsUp(a) PROVE TypeInv' /\ Keyed(cut')
    <2>1. asker' \in [Askers -> Asker]
        BY <1>0, <1>9 DEF TimeIsUp, Asker
    <2> QED
        BY <1>9, <2>1 DEF TimeIsUp, TypeInv
<1>6. ASSUME NEW a \in Askers, Post(a) PROVE TypeInv' /\ Keyed(cut')
    <2>1. asker' \in [Askers -> Asker]
        <3>1. PICK w \in Workflows : asker' = [asker EXCEPT ![a].pc = "posted", ![a].id = w]
            BY <1>6 DEF Post
        <3>2. [asker[a] EXCEPT !.pc = "posted", !.id = w] \in Asker
            BY <1>0 DEF Asker, Phases
        <3> QED
            BY <1>0, <3>1, <3>2
    <2>2. wf' \in [Workflows -> Workflow]
        BY <1>0, <1>6 DEF Post, Asker, Workflow, TypeInv
    <2> QED
        BY <1>6, <2>1, <2>2 DEF Post, Fault, TypeInv
<1>7. ASSUME NEW a \in Askers, Abort(a) PROVE TypeInv' /\ Keyed(cut')
    <2>1. asker[a].step \in Steps /\ asker[a].pc \in Phases
        BY <1>0 DEF Asker
    <2>3. asker' \in [Askers -> Asker]
        BY <1>7, AbortsTo
    <2>4. cut' \in Seq(Entry) /\ Keyed(cut')
        BY <1>7, <2>1, WithoutLeaves DEF Abort, TypeInv
    <2>5. At(a, "streaming") \/ At(a, "posted") => Id(a) \in Workflows
        BY <1>0 DEF At, AskerIsRight, Asker, Id
    <2>6. cancels' \subseteq Workflows /\ unnamed' \subseteq Workflows
        BY <1>7, <2>5, EntriesAreTyped DEF Abort, TypeInv
    <2> QED
        BY <1>7, <2>3, <2>4, <2>6 DEF Abort, TypeInv
<1>8. ASSUME NEW w \in Workflows, Finish(w) \/ TakeCancel(w) PROVE TypeInv' /\ Keyed(cut')
    <2>1. wf \in [Workflows -> Workflow] /\ wf[w] \in Workflow
        BY DEF TypeInv
    <2>2. wf' \in [Workflows -> Workflow]
        BY <1>8, <2>1 DEF Finish, TakeCancel, Workflow
    <2> QED
        BY <1>8, <2>2 DEF Finish, TakeCancel, Fault, TypeInv
<1> QED
    BY <1>1, <1>2, <1>3, <1>4, <1>5, <1>6, <1>7, <1>8, <1>9 DEF Next, Recover

(* A recovery that is refused, overdue or over, a step given up, a request *)
(* not made, or whose answer names nothing: what the asker held is         *)
(* cancelled, excused or of no use.                                        *)
LEMMA LetsGo ==
    ASSUME RecoveryInv, TypeInv', Keyed(cut'), NEW a \in Askers,
           \/ ReadRefused(a) \/ (ReadLive(a) /\ Deadline(a)) \/ CancelReturns(a)
           \/ GivesUp(a) \/ PostAborted(a) \/ (Headers(a) /\ ~Goto(a, "streaming"))
    PROVE  RecoveryInv'
<1>1. PICK pc \in Phases :
        /\ Goto(a, pc)
        /\ \/ ReadRefused(a) /\ pc = "posting"
           \/ ReadLive(a) /\ Deadline(a) /\ pc = "cancelling"
           \/ CancelReturns(a) /\ pc = "posting"
           \/ (GivesUp(a) \/ PostAborted(a)) /\ pc = "over"
           \/ Headers(a) /\ ~Goto(a, "streaming") /\ pc = "waiting"
    BY DEF ReadRefused, ReadLive, AfterDeadline, CancelReturns, GivesUp, PostAborted, Headers, Phases
<1>2. /\ asker'[a].pc = pc
      /\ asker'[a].id = IF pc \in {"over", "waiting"} THEN None ELSE asker[a].id
      /\ asker'[a].step = asker[a].step /\ asker'[a].aborted = asker[a].aborted
      /\ \A b \in Askers : b # a => asker'[b] = asker[b]
    BY <1>1, GoesTo DEF RecoveryInv
<1>3. /\ UNCHANGED <<wf, cut, hears, taken, unnamed, answers>>
      /\ cancels \subseteq cancels' /\ excused \subseteq excused'
    BY DEF ReadRefused, ReadLive, CancelReturns, GivesUp, PostAborted, Headers
<1>4. /\ Id(a) # None /\ pc = "cancelling" => Id(a) \in cancels'
      /\ Id(a) # None /\ pc = "posting" => ~IsLive(Id(a)) \/ Id(a) \in excused'
      /\ \A w \in Workflows : Holds(a, w) /\ w \notin excused' => pc \notin {"over", "waiting"}
      /\ pc = "cancelling" => Id(a) # None
      /\ asker[a].pc \in {"posted", "streaming"} => Id(a) \in excused'
      /\ pc \in {"posting", "cancelling", "over", "waiting"}
    <2>1. Id(a) # None /\ At(a, "cancelling") => ~IsLive(Id(a)) \/ Id(a) \in cancels \cup excused
        BY DEF RecoveryInv, CancelWasSent
    <2>2. At(a, "reading") => Id(a) # None
        BY DEF RecoveryInv, AskerIsRight, At
    <2>3. CASE ReadRefused(a) /\ pc = "posting"
        BY <2>3 DEF ReadRefused, At
    <2>4. CASE ReadLive(a) /\ Deadline(a) /\ pc = "cancelling"
        BY <2>2, <2>4 DEF ReadLive, At
    <2>5. CASE CancelReturns(a) /\ pc = "posting"
        BY <2>1, <2>5 DEF CancelReturns, At
    <2>6. CASE (GivesUp(a) \/ PostAborted(a)) /\ pc = "over"
        BY <2>6 DEF GivesUp, PostAborted, At, Holds
    <2>7. CASE Headers(a) /\ ~Goto(a, "streaming") /\ pc = "waiting"
        BY <2>7 DEF Headers, At, Holds
    <2> QED
        BY <1>1, <2>3, <2>4, <2>5, <2>6, <2>7
<1>5. CutIsPosted' /\ PostedForStep'
    BY <1>2, <1>3 DEF RecoveryInv, CutIsPosted, PostedForStep, TypeInv, Workflow
<1>6. AskerIsRight'
    BY <1>2, <1>3, <1>4 DEF RecoveryInv, AskerIsRight, Id, None
<1>7. InOnePlace' /\ AnsweredOnce'
    BY <1>2, <1>3, <1>4 DEF RecoveryInv, InOnePlace, AnsweredOnce, Active, Kept, Id
<1>8. CancelWasSent' /\ NeverTwoAtOnce'
    BY <1>2, <1>3, <1>4 DEF RecoveryInv, CancelWasSent, NeverTwoAtOnce, At, Id, IsLive
<1>9. NoneIsLost'
    <2> SUFFICES ASSUME NEW w \in Workflows, IsLive(w)', w \notin excused' \cup cancels' \cup unnamed', ~Kept(w)'
                 PROVE  \E b \in Askers : Holds(b, w)'
        BY DEF NoneIsLost, Kept
    <2>1. PICK b \in Askers : Holds(b, w)
        BY <1>3 DEF RecoveryInv, NoneIsLost, IsLive, Kept
    <2>2. b # a
        BY <1>2, <1>3, <1>4, <2>1, NotNone DEF Holds, IsLive
    <2> QED
        BY <1>2, <2>1, <2>2 DEF Holds, Id
<1>10. PosterHears'
    <2> SUFFICES ASSUME NEW w \in Workflows, IsLive(w)', w \notin cancels' \cup excused' \cup taken' \cup unnamed'
                 PROVE  HasIt(wf[w].by, w)' /\ Hears(wf[w].by, w)'
        BY DEF PosterHears
    <2> DEFINE b == wf[w].by
    <2>1. b \in Askers
        BY DEF RecoveryInv, TypeInv, Workflow
    <2>2. HasIt(b, w) /\ Hears(b, w)
        BY <1>3 DEF RecoveryInv, PosterHears, IsLive
    <2>3. Holds(b, w) => b # a
        BY <1>2, <1>3, <1>4, NotNone DEF Holds, IsLive
    <2> QED
        BY <1>2, <1>3, <1>4, <2>1, <2>2, <2>3 DEF HasIt, Hears, Holds, Kept, Id, At
<1> QED
    BY <1>5, <1>6, <1>7, <1>8, <1>9, <1>10 DEF RecoveryInv

(* An answer given, or found to be over: its workflow runs no more.        *)
LEMMA IsAnswered ==
    ASSUME RecoveryInv, TypeInv', Keyed(cut'), NEW a \in Askers, ReadOver(a) \/ StreamEnds(a)
    PROVE  RecoveryInv'
<1>1. PICK pc \in {"posting", "over"} :
        /\ Goto(a, pc)
        /\ \/ answers' = answers
           \/ pc = "over" /\ answers' = [answers EXCEPT ![Id(a)] = @ + 1]
    BY DEF ReadOver, StreamEnds
<1>2. /\ asker'[a].pc = pc
      /\ asker'[a].id = IF pc = "over" THEN None ELSE asker[a].id
      /\ asker'[a].step = asker[a].step /\ asker'[a].aborted = asker[a].aborted
      /\ \A b \in Askers : b # a => asker'[b] = asker[b]
    BY <1>1, GoesTo DEF RecoveryInv, Phases
<1>3. UNCHANGED <<wf, cut, hears, cancels, excused, taken, unnamed>>
    BY DEF ReadOver, StreamEnds
<1>4. Id(a) \in Workflows /\ Active(a, Id(a)) /\ ~IsLive(Id(a)) /\ wf[Id(a)].st # "none"
    BY DEF ReadOver, StreamEnds, At, RecoveryInv, AskerIsRight, TypeInv, Asker, Id, Active, IsLive, Live
<1>6. CutIsPosted' /\ PostedForStep'
    BY <1>2, <1>3 DEF RecoveryInv, CutIsPosted, PostedForStep, TypeInv, Workflow
<1>7. AskerIsRight'
    BY <1>2, <1>3, <1>4 DEF RecoveryInv, AskerIsRight, Id, None
<1>8. InOnePlace' /\ AnsweredOnce'
    <2>1. answers[Id(a)] = 0 /\ ~Kept(Id(a)) /\ \A b \in Askers : b # a => ~Active(b, Id(a))
        BY <1>4 DEF RecoveryInv, InOnePlace
    <2>2. \A w \in Workflows : answers'[w] = answers[w] \/ (pc = "over" /\ w = Id(a) /\ answers'[w] = 1)
        BY <1>1, <1>4, <2>1 DEF RecoveryInv, TypeInv
    <2>3. \A w \in Workflows : \A b \in Askers : Active(b, w)' => Active(b, w) /\ b # a
        BY <1>2 DEF Active, Id
    <2>4. \A w \in Workflows : Kept(w)' <=> Kept(w)
        BY <1>3 DEF Kept
    <2>5. AnsweredOnce'
        BY <2>2 DEF RecoveryInv, AnsweredOnce
    <2>6. InOnePlace'
        BY <1>3, <1>4, <2>1, <2>2, <2>3, <2>4 DEF RecoveryInv, InOnePlace
    <2> QED
        BY <2>5, <2>6
<1>9. CancelWasSent' /\ NeverTwoAtOnce'
    BY <1>2, <1>3, <1>4 DEF RecoveryInv, CancelWasSent, NeverTwoAtOnce, At, Id, IsLive
<1>10. NoneIsLost'
    BY <1>2, <1>3, <1>4 DEF RecoveryInv, NoneIsLost, Holds, IsLive, Id, At
<1>11. PosterHears'
    <2> SUFFICES ASSUME NEW w \in Workflows, IsLive(w)', w \notin cancels' \cup excused' \cup taken' \cup unnamed'
                 PROVE  HasIt(wf[w].by, w)' /\ Hears(wf[w].by, w)'
        BY DEF PosterHears
    <2> DEFINE b == wf[w].by
    <2>1. b \in Askers
        BY DEF RecoveryInv, TypeInv, Workflow
    <2>2. HasIt(b, w) /\ Hears(b, w)
        BY <1>3 DEF RecoveryInv, PosterHears, IsLive
    <2>3. w # Id(a)
        BY <1>3, <1>4 DEF IsLive
    <2> QED
        BY <1>2, <1>3, <2>1, <2>2, <2>3 DEF HasIt, Hears, Holds, Kept, Id, At
<1> QED
    BY <1>6, <1>7, <1>8, <1>9, <1>10, <1>11 DEF RecoveryInv

(* The orchestrator's steps: a workflow only stops.                        *)
LEMMA WorkflowsStop ==
    ASSUME RecoveryInv, TypeInv', Keyed(cut'), NEW w \in Workflows, Finish(w) \/ TakeCancel(w)
    PROVE  RecoveryInv'
<1>1. /\ UNCHANGED <<asker, cut, hears, taken, unnamed, answers>>
      /\ excused \subseteq excused' /\ cancels \ {w} \subseteq cancels'
    BY DEF Finish, TakeCancel
<1>2. wf[w] \in Workflow /\ wf \in [Workflows -> Workflow]
    BY DEF RecoveryInv, TypeInv
<1>3. \A v \in Workflows : /\ wf'[v].step = wf[v].step /\ wf'[v].by = wf[v].by
                           /\ wf'[v].st = "none" <=> wf[v].st = "none"
                           /\ wf'[v].st = "live" => wf[v].st = "live"
    BY <1>2 DEF Finish, TakeCancel, Workflow, IsLive, Live
<1>4. w \in cancels => w \in cancels' \/ w \in excused' \/ wf'[w].st # "live"
    BY <1>2 DEF Finish, TakeCancel, IsLive, Live, Workflow
<1>5. \A c \in ToSet(cut) : c.id \in Workflows
    BY EntriesAreTyped DEF RecoveryInv
<1>6. \A a \in Askers : Id(a) \in Workflows \cup {None}
    BY DEF RecoveryInv, TypeInv, Asker, Id
<1>7. CutIsPosted' /\ PostedForStep'
    BY <1>1, <1>3, <1>5 DEF RecoveryInv, CutIsPosted, PostedForStep
<1>8. AskerIsRight'
    BY <1>1, <1>3, <1>6 DEF RecoveryInv, AskerIsRight, Id
<1>9. InOnePlace' /\ AnsweredOnce'
    BY <1>1, <1>3 DEF RecoveryInv, InOnePlace, AnsweredOnce, Active, Kept, Id
<1>10. CancelWasSent' /\ NeverTwoAtOnce'
    BY <1>1, <1>3, <1>4, <1>6 DEF RecoveryInv, CancelWasSent, NeverTwoAtOnce, At, Id, IsLive, Live, AskerIsRight
<1>11. NoneIsLost'
    BY <1>1, <1>3, <1>4 DEF RecoveryInv, NoneIsLost, Holds, IsLive, Live, Id
<1>12. PosterHears'
    BY <1>1, <1>3, <1>4 DEF RecoveryInv, PosterHears, HasIt, Hears, Holds, Kept, IsLive, Live, Id, At
<1> QED
    BY <1>7, <1>8, <1>9, <1>10, <1>11, <1>12 DEF RecoveryInv

(* A workflow cut off, or whose read did not get through, is kept: in      *)
(* place of an older one of its step, or of the oldest.                    *)
LEMMA IsKept ==
    ASSUME RecoveryInv, TypeInv', Keyed(cut'), NEW a \in Askers,
           Goto(a, "waiting"), ~asker[a].aborted, Active(a, Id(a)), Id(a) # None,
           cut' = Remember(asker[a].step, Id(a)),
           excused' = excused \cup Dropped(asker[a].step, Id(a)),
           hears \subseteq hears',
           asker[a].pc \in {"posted", "streaming"} => <<a, Id(a)>> \in hears',
           UNCHANGED <<wf, cancels, taken, unnamed, answers>>
    PROVE  RecoveryInv'
<1>0. Id(a) \in Workflows /\ asker[a].step \in Steps
    BY DEF RecoveryInv, TypeInv, Asker, Id
<1> PICK w0 \in Workflows : w0 = Id(a)
    BY <1>0
<1> DEFINE e == [step |-> asker[a].step, id |-> w0]
<1>1. /\ ToSet(cut') \subseteq {c \in ToSet(cut) : c.step # asker[a].step} \cup {e}
      /\ e \in ToSet(cut')
      /\ \A c \in ToSet(cut) : c \in ToSet(cut') \/ c.id \in excused' \/ c.id = w0
    BY <1>0, RememberKeeps DEF RecoveryInv, TypeInv
<1>2. /\ asker'[a].pc = "waiting" /\ asker'[a].id = None
      /\ asker'[a].step = asker[a].step /\ asker'[a].aborted = asker[a].aborted
      /\ \A b \in Askers : b # a => asker'[b] = asker[b]
    BY GoesTo DEF RecoveryInv, Phases
<1>3. wf[w0].st # "none" /\ wf[w0].step = asker[a].step
    BY DEF RecoveryInv, AskerIsRight
<1>4. answers[w0] = 0 /\ ~Kept(w0) /\ \A b \in Askers : b # a => ~Active(b, w0)
    BY <1>0 DEF RecoveryInv, InOnePlace
<1> HIDE DEF e
<1>5. e.id = w0 /\ e.step = asker[a].step
    BY DEF e
<1>6. \A w \in Workflows : /\ Kept(w)' => Kept(w) \/ w = w0
                           /\ Kept(w) => Kept(w)' \/ w \in excused'
    <2>1. \A w \in Workflows : Kept(w)' => Kept(w) \/ w = w0
        BY <1>1, <1>5 DEF Kept
    <2>2. ASSUME NEW w \in Workflows, Kept(w) PROVE Kept(w)' \/ w \in excused'
        <3>1. PICK c \in ToSet(cut) : c.id = w
            BY <2>2 DEF Kept
        <3> QED
            BY <1>1, <1>4, <2>2, <3>1 DEF Kept
    <2> QED
        BY <2>1, <2>2
<1>7. Kept(w0)'
    BY <1>1, <1>5 DEF Kept
<1>8. CutIsPosted'
    BY <1>1, <1>3, <1>5 DEF RecoveryInv, CutIsPosted
<1>9. PostedForStep'
    BY <1>2 DEF RecoveryInv, PostedForStep, TypeInv, Workflow
<1>10. AskerIsRight'
    BY <1>2 DEF RecoveryInv, AskerIsRight, Id, None
<1>11. InOnePlace' /\ AnsweredOnce'
    <2>1. \A w \in Workflows : \A b \in Askers : Active(b, w)' => Active(b, w) /\ w # w0
        BY <1>0, <1>2, <1>4 DEF Active, Id
    <2>2. AnsweredOnce'
        BY DEF RecoveryInv, AnsweredOnce
    <2>3. InOnePlace'
        BY <1>0, <1>3, <1>4, <1>6, <2>1 DEF RecoveryInv, InOnePlace
    <2> QED
        BY <2>2, <2>3
<1>12. CancelWasSent' /\ NeverTwoAtOnce'
    BY <1>2 DEF RecoveryInv, CancelWasSent, NeverTwoAtOnce, At, Id, IsLive
<1>13. NoneIsLost'
    <2> SUFFICES ASSUME NEW w \in Workflows, IsLive(w)', w \notin excused' \cup cancels' \cup unnamed', ~Kept(w)'
                 PROVE  \E b \in Askers : Holds(b, w)'
        BY DEF NoneIsLost, Kept
    <2>1. PICK b \in Askers : Holds(b, w)
        BY <1>6 DEF RecoveryInv, NoneIsLost, IsLive, Kept
    <2>2. b # a
        BY <1>7, <2>1 DEF Holds
    <2> QED
        BY <1>2, <2>1, <2>2 DEF Holds, Id
<1>14. PosterHears'
    <2> SUFFICES ASSUME NEW w \in Workflows, IsLive(w)', w \notin cancels' \cup excused' \cup taken' \cup unnamed'
                 PROVE  HasIt(wf[w].by, w)' /\ Hears(wf[w].by, w)'
        BY DEF PosterHears
    <2> DEFINE b == wf[w].by
    <2>1. b \in Askers
        BY DEF RecoveryInv, TypeInv, Workflow
    <2>2. HasIt(b, w) /\ Hears(b, w)
        BY DEF RecoveryInv, PosterHears, IsLive
    <2>3. Holds(a, w) => w = w0
        BY DEF Holds
    <2>4. HasIt(b, w)'
        BY <1>2, <1>6, <1>7, <2>1, <2>2, <2>3 DEF HasIt, Holds, Id
    <2>5. Hears(b, w)'
        BY <1>2, <2>1, <2>2 DEF Hears, Id, At
    <2> QED
        BY <2>4, <2>5
<1> QED
    BY <1>8, <1>9, <1>10, <1>11, <1>12, <1>13, <1>14 DEF RecoveryInv

(* A stopped asker that reads cancels what it reads.                       *)
LEMMA StopsReading ==
    ASSUME RecoveryInv, TypeInv', Keyed(cut'), NEW a \in Askers,
           Goto(a, "over"), asker[a].aborted, cancels' = cancels \cup {Id(a)},
           UNCHANGED <<wf, cut, hears, excused, taken, unnamed, answers>>
    PROVE  RecoveryInv'
<1>1. /\ asker'[a].pc = "over" /\ asker'[a].id = None
      /\ asker'[a].step = asker[a].step /\ asker'[a].aborted = asker[a].aborted
      /\ \A b \in Askers : b # a => asker'[b] = asker[b]
    BY GoesTo DEF RecoveryInv, Phases
<1>3. CutIsPosted' /\ PostedForStep'
    BY <1>1 DEF RecoveryInv, CutIsPosted, PostedForStep, TypeInv, Workflow
<1>4. AskerIsRight'
    BY <1>1 DEF RecoveryInv, AskerIsRight, Id, None
<1>5. InOnePlace' /\ AnsweredOnce'
    BY <1>1 DEF RecoveryInv, InOnePlace, AnsweredOnce, Active, Kept, Id
<1>6. CancelWasSent' /\ NeverTwoAtOnce'
    BY <1>1 DEF RecoveryInv, CancelWasSent, NeverTwoAtOnce, At, Id, IsLive
<1>7. NoneIsLost'
    BY <1>1 DEF RecoveryInv, NoneIsLost, Holds, IsLive, Id
<1>8. PosterHears'
    <2> SUFFICES ASSUME NEW w \in Workflows, IsLive(w)', w \notin cancels' \cup excused' \cup taken' \cup unnamed'
                 PROVE  HasIt(wf[w].by, w)' /\ Hears(wf[w].by, w)'
        BY DEF PosterHears
    <2> DEFINE b == wf[w].by
    <2>1. b \in Askers
        BY DEF RecoveryInv, TypeInv, Workflow
    <2>2. HasIt(b, w) /\ Hears(b, w)
        BY DEF RecoveryInv, PosterHears, IsLive
    <2>3. w # Id(a)
        OBVIOUS
    <2> QED
        BY <1>1, <2>1, <2>2, <2>3 DEF HasIt, Hears, Holds, Kept, Id, At
<1> QED
    BY <1>3, <1>4, <1>5, <1>6, <1>7, <1>8 DEF RecoveryInv

(* A read that fails, a stream the network cuts, a pause that ends under a *)
(* Stop.                                                                   *)
LEMMA CutOff ==
    ASSUME RecoveryInv, TypeInv', Keyed(cut'), NEW a \in Askers,
           ReadFails(a) \/ StreamCut(a) \/ (PauseEnds(a) /\ asker[a].aborted)
    PROVE  RecoveryInv'
<1>0. Id(a) # None /\ Id(a) \in Workflows /\ Active(a, Id(a))
    BY DEF ReadFails, StreamCut, PauseEnds, At, Active, Id, RecoveryInv, AskerIsRight, TypeInv, Asker
<1>1. CASE StreamCut(a)
    BY <1>0, <1>1, IsKept DEF StreamCut, ListensTo, At, RecoveryInv, AskerIsRight
<1>2. CASE ReadFails(a) /\ ~asker[a].aborted
    BY <1>0, <1>2, IsKept DEF ReadFails, At
<1>3. CASE (ReadFails(a) \/ PauseEnds(a)) /\ asker[a].aborted
    BY <1>3, StopsReading DEF ReadFails, PauseEnds
<1> QED
    BY <1>1, <1>2, <1>3

(* A read that goes on, a timer, an answer that names its workflow.        *)
LEMMA GoesOn ==
    ASSUME RecoveryInv, TypeInv', Keyed(cut'), NEW a \in Askers,
           \/ TimeIsUp(a) \/ (ReadLive(a) /\ ~Deadline(a)) \/ (PauseEnds(a) /\ ~asker[a].aborted)
           \/ (Headers(a) /\ Goto(a, "streaming"))
    PROVE  RecoveryInv'
<1>0. asker \in [Askers -> Asker] /\ asker[a] \in Asker
    BY DEF RecoveryInv, TypeInv
<1>1. UNCHANGED <<wf, cut, hears, cancels, taken, unnamed, answers>> /\ excused \subseteq excused'
    BY DEF TimeIsUp, ReadLive, PauseEnds, Headers
<1>2. /\ \/ {asker[a].pc, asker'[a].pc} \subseteq {"reading", "pausing"}
         \/ asker[a].pc = "posted" /\ asker'[a].pc = "streaming"
      /\ asker'[a].id = asker[a].id
      /\ asker'[a].step = asker[a].step /\ asker'[a].aborted = asker[a].aborted
      /\ \A b \in Askers : b # a => asker'[b] = asker[b]
    <2>1. CASE TimeIsUp(a)
        BY <1>0, <2>1 DEF TimeIsUp, Asker
    <2>2. CASE ~TimeIsUp(a)
        BY <1>0, <2>2, GoesTo DEF ReadLive, PauseEnds, Headers, At, Phases, RecoveryInv
    <2> QED
        BY <2>1, <2>2
<1>3. CutIsPosted' /\ PostedForStep'
    BY <1>1, <1>2 DEF RecoveryInv, CutIsPosted, PostedForStep, TypeInv, Workflow
<1>4. AskerIsRight'
    BY <1>1, <1>2 DEF RecoveryInv, AskerIsRight, Id
<1>5. \A b \in Askers, w \in Workflows :
        /\ Active(b, w)' <=> Active(b, w)
        /\ Holds(b, w)' <=> Holds(b, w)
    BY <1>2 DEF Active, Holds, Id
<1>6. InOnePlace' /\ AnsweredOnce'
    BY <1>1, <1>5 DEF RecoveryInv, InOnePlace, AnsweredOnce, Kept
<1>7. CancelWasSent' /\ NeverTwoAtOnce'
    BY <1>1, <1>2 DEF RecoveryInv, CancelWasSent, NeverTwoAtOnce, At, Id, IsLive
<1>8. NoneIsLost'
    BY <1>1, <1>5 DEF RecoveryInv, NoneIsLost, IsLive
<1>9. PosterHears'
    <2> SUFFICES ASSUME NEW w \in Workflows, IsLive(w)', w \notin cancels' \cup excused' \cup taken' \cup unnamed'
                 PROVE  HasIt(wf[w].by, w)' /\ Hears(wf[w].by, w)'
        BY <1>1 DEF PosterHears
    <2> DEFINE b == wf[w].by
    <2>1. b \in Askers
        BY DEF RecoveryInv, TypeInv, Workflow
    <2>2. HasIt(b, w) /\ Hears(b, w)
        BY <1>1 DEF RecoveryInv, PosterHears, IsLive
    <2>3. HasIt(b, w)'
        BY <1>1, <1>2, <1>5, <2>1, <2>2 DEF HasIt, Kept
    <2>4. Hears(b, w)'
        BY <1>1, <1>2, <2>1, <2>2 DEF Hears, Id
    <2> QED
        BY <2>3, <2>4
<1> QED
    BY <1>3, <1>4, <1>6, <1>7, <1>8, <1>9 DEF RecoveryInv

(* A step asked for again takes its cut workflow, or, with none, is to be  *)
(* posted.                                                                 *)
LEMMA AsksAgain ==
    ASSUME RecoveryInv, TypeInv', Keyed(cut'), NEW a \in Askers, Ask(a)
    PROVE  RecoveryInv'
<1> DEFINE step == asker[a].step
<1>0. /\ asker \in [Askers -> Asker] /\ asker[a] \in Asker /\ step \in Steps
      /\ asker[a].pc \in {"idle", "waiting"} /\ Id(a) = None
    BY DEF Ask, RecoveryInv, TypeInv, AskerIsRight, Asker, Id
<1>1. UNCHANGED <<wf, hears, cancels, unnamed, answers>>
    BY DEF Ask
<1>2. ASSUME NEW c \in EntriesOf(cut, step), cut' = Take(step),
             asker' = [asker EXCEPT ![a].pc = "reading", ![a].id = c.id],
             taken' = IF wf[c.id].by # a THEN taken \cup {c.id} ELSE taken,
             UNCHANGED excused
      PROVE  RecoveryInv'
    <2>1. c \in ToSet(cut) /\ c.step = step /\ c.id \in Workflows
        BY <1>2, EntriesAreTyped DEF EntriesOf, RecoveryInv
    <2>2. /\ asker'[a].pc = "reading" /\ asker'[a].id = c.id
          /\ asker'[a].step = asker[a].step /\ asker'[a].aborted = asker[a].aborted
          /\ \A b \in Askers : b # a => asker'[b] = asker[b]
        BY <1>0, <1>2, <2>1 DEF Asker
    <2>3. ToSet(cut') = {d \in ToSet(cut) : d.step # step}
        BY <1>0, <1>2, WithoutLeaves DEF Take, RecoveryInv, TypeInv
    <2>4. wf[c.id].st # "none" /\ wf[c.id].step = step
        BY <2>1 DEF RecoveryInv, CutIsPosted
    <2>5. /\ \A w \in Workflows : Kept(w)' => Kept(w) /\ w # c.id
          /\ \A w \in Workflows : Kept(w) => Kept(w)' \/ w = c.id
        <3>1. \A d \in ToSet(cut) : d.id = c.id => d.step = step
            BY <2>4 DEF RecoveryInv, CutIsPosted
        <3>2. \A d \in ToSet(cut) : d.step = step => d = c
            BY <2>1, OneEntry DEF RecoveryInv
        <3> QED
            BY <2>1, <2>3, <3>1, <3>2 DEF Kept
    <2>6. Kept(c.id)
        BY <2>1 DEF Kept
    <2>7. answers[c.id] = 0 /\ \A b \in Askers : ~Active(b, c.id)
        BY <2>1, <2>6 DEF RecoveryInv, InOnePlace
    <2> PICK w0 \in Workflows : w0 = c.id
        BY <2>1
    <2>8. CutIsPosted' /\ PostedForStep'
        BY <1>1, <2>2, <2>3 DEF RecoveryInv, CutIsPosted, PostedForStep, TypeInv, Workflow
    <2>9. AskerIsRight'
        BY <1>1, <2>1, <2>2, <2>4, NotNone DEF RecoveryInv, AskerIsRight, Id
    <2>10. InOnePlace' /\ AnsweredOnce'
        <3>1. \A w \in Workflows : \A b \in Askers : Active(b, w)' => Active(b, w) \/ (b = a /\ w = w0)
            BY <2>2 DEF Active, Id
        <3>2. AnsweredOnce'
            BY <1>1 DEF RecoveryInv, AnsweredOnce
        <3>3. InOnePlace'
            BY <1>1, <2>5, <2>7, <3>1 DEF RecoveryInv, InOnePlace
        <3> QED
            BY <3>2, <3>3
    <2>11. CancelWasSent' /\ NeverTwoAtOnce'
        <3>1. CancelWasSent'
            BY <1>1, <1>2, <2>2 DEF RecoveryInv, CancelWasSent, At, Id, IsLive
        <3>2. NeverTwoAtOnce'
            <4> SUFFICES ASSUME NEW b \in Askers, At(b, "posting")', Id(b)' # None
                         PROVE  ~IsLive(Id(b))' \/ Id(b)' \in excused'
                BY DEF NeverTwoAtOnce
            <4>1. b # a /\ asker'[b] = asker[b]
                BY <2>2 DEF At
            <4> QED
                BY <1>1, <1>2, <4>1 DEF RecoveryInv, NeverTwoAtOnce, At, Id, IsLive
        <3> QED
            BY <3>1, <3>2
    <2>12. NoneIsLost'
        <3> SUFFICES ASSUME NEW w \in Workflows, IsLive(w)', w \notin excused' \cup cancels' \cup unnamed', ~Kept(w)'
                     PROVE  \E b \in Askers : Holds(b, w)'
            BY DEF NoneIsLost, Kept
        <3>1. CASE w = w0
            BY <2>2, <3>1 DEF Holds, Id
        <3>2. CASE w # w0
            <4>1. PICK b \in Askers : Holds(b, w)
                BY <1>1, <1>2, <2>5, <3>2 DEF RecoveryInv, NoneIsLost, IsLive, Kept
            <4> QED
                BY <1>0, <2>2, <4>1 DEF Holds, Id
        <3> QED
            BY <3>1, <3>2
    <2>13. PosterHears'
        <3> SUFFICES ASSUME NEW w \in Workflows, IsLive(w)', w \notin cancels' \cup excused' \cup taken' \cup unnamed'
                     PROVE  HasIt(wf[w].by, w)' /\ Hears(wf[w].by, w)'
            BY <1>1 DEF PosterHears
        <3> DEFINE b == wf[w].by
        <3>1. b \in Askers
            BY DEF RecoveryInv, TypeInv, Workflow
        <3>2. HasIt(b, w) /\ Hears(b, w)
            BY <1>1, <1>2 DEF RecoveryInv, PosterHears, IsLive
        <3>3. CASE w = w0
            <4>1. b = a
                BY <1>2, <3>3
            <4> QED
                BY <1>0, <1>1, <2>2, <3>2, <3>3, <4>1 DEF HasIt, Hears, Holds, Id, At
        <3>4. CASE w # w0
            BY <1>0, <1>1, <2>2, <2>5, <3>1, <3>2, <3>4, NotNone DEF HasIt, Hears, Holds, Id, At
        <3> QED
            BY <3>3, <3>4
    <2> QED
        BY <2>8, <2>9, <2>10, <2>11, <2>12, <2>13 DEF RecoveryInv
<1>3. ASSUME asker' = [asker EXCEPT ![a].pc = "posting", ![a].id = None],
             UNCHANGED <<cut, taken>>, excused \subseteq excused'
      PROVE  RecoveryInv'
    <2>1. /\ asker'[a].pc = "posting" /\ asker'[a].id = None
          /\ asker'[a].step = asker[a].step /\ asker'[a].aborted = asker[a].aborted
          /\ \A b \in Askers : b # a => asker'[b] = asker[b]
        BY <1>0, <1>3 DEF Asker
    <2>2. CutIsPosted' /\ PostedForStep'
        BY <1>1, <1>3, <2>1 DEF RecoveryInv, CutIsPosted, PostedForStep, TypeInv, Workflow
    <2>3. AskerIsRight'
        BY <1>1, <2>1 DEF RecoveryInv, AskerIsRight, Id, None
    <2>4. InOnePlace' /\ AnsweredOnce'
        <3>1. \A w \in Workflows : \A b \in Askers : Active(b, w)' => Active(b, w)
            BY <2>1 DEF Active, Id
        <3>2. \A w \in Workflows : Kept(w)' <=> Kept(w)
            BY <1>3 DEF Kept
        <3> QED
            BY <1>1, <3>1, <3>2 DEF RecoveryInv, InOnePlace, AnsweredOnce
    <2>5. CancelWasSent' /\ NeverTwoAtOnce'
        <3>1. CancelWasSent'
            <4> SUFFICES ASSUME NEW b \in Askers, At(b, "cancelling")', IsLive(Id(b))'
                         PROVE  Id(b)' \in cancels' \cup excused'
                BY DEF CancelWasSent
            <4>1. b # a /\ asker'[b] = asker[b]
                BY <2>1 DEF At
            <4> QED
                BY <1>1, <1>3, <4>1 DEF RecoveryInv, CancelWasSent, At, Id, IsLive
        <3>2. NeverTwoAtOnce'
            BY <1>1, <1>3, <2>1 DEF RecoveryInv, NeverTwoAtOnce, At, Id, IsLive
        <3> QED
            BY <3>1, <3>2
    <2>6. NoneIsLost'
        BY <1>0, <1>1, <1>3, <2>1 DEF RecoveryInv, NoneIsLost, Holds, IsLive, Id
    <2>7. PosterHears'
        <3> SUFFICES ASSUME NEW w \in Workflows, IsLive(w)', w \notin cancels' \cup excused' \cup taken' \cup unnamed'
                     PROVE  HasIt(wf[w].by, w)' /\ Hears(wf[w].by, w)'
            BY <1>1 DEF PosterHears
        <3> DEFINE b == wf[w].by
        <3>1. b \in Askers
            BY DEF RecoveryInv, TypeInv, Workflow
        <3>2. HasIt(b, w) /\ Hears(b, w)
            BY <1>1, <1>3 DEF RecoveryInv, PosterHears, IsLive
        <3>3. HasIt(b, w)'
            BY <1>0, <1>1, <1>3, <2>1, <3>1, <3>2, NotNone DEF HasIt, Holds, Kept, Id
        <3>4. Hears(b, w)'
            BY <1>0, <1>1, <2>1, <3>1, <3>2 DEF Hears, Id, At
        <3> QED
            BY <3>3, <3>4
    <2> QED
        BY <2>2, <2>3, <2>4, <2>5, <2>6, <2>7 DEF RecoveryInv
<1> QED
    BY <1>2, <1>3 DEF Ask

(* The POST starts a workflow nobody had, for the step it is asked for.    *)
LEMMA Posts ==
    ASSUME RecoveryInv, TypeInv', Keyed(cut'), NEW a \in Askers, Post(a)
    PROVE  RecoveryInv'
<1>0. asker \in [Askers -> Asker] /\ asker[a] \in Asker /\ wf \in [Workflows -> Workflow]
    BY DEF RecoveryInv, TypeInv
<1>1. PICK w0 \in Workflows :
        /\ At(a, "posting") /\ ~asker[a].aborted /\ wf[w0].st = "none"
        /\ wf' = [wf EXCEPT ![w0] = [st |-> "live", step |-> asker[a].step, by |-> a]]
        /\ asker' = [asker EXCEPT ![a].pc = "posted", ![a].id = w0]
        /\ UNCHANGED <<cut, hears, cancels, excused, taken, unnamed, answers>>
    BY DEF Post
<1>2. /\ wf'[w0].st = "live" /\ wf'[w0].step = asker[a].step /\ wf'[w0].by = a
      /\ \A w \in Workflows : w # w0 => wf'[w] = wf[w]
    BY <1>0, <1>1
<1>3. /\ asker'[a].pc = "posted" /\ asker'[a].id = w0
      /\ asker'[a].step = asker[a].step /\ asker'[a].aborted = asker[a].aborted
      /\ \A b \in Askers : b # a => asker'[b] = asker[b]
    BY <1>0, <1>1 DEF Asker
<1>4. /\ ~Kept(w0) /\ answers[w0] = 0
      /\ \A b \in Askers : Id(b) # w0
    BY <1>1, NotNone DEF Kept, RecoveryInv, CutIsPosted, InOnePlace, AskerIsRight
<1>5. excused \subseteq excused'
    BY <1>1
<1>6. \A b \in Askers : Id(b) \in Workflows \cup {None}
    BY DEF RecoveryInv, TypeInv, Asker, Id
<1>7. \A c \in ToSet(cut) : c.id \in Workflows /\ c.id # w0
    BY <1>4, EntriesAreTyped DEF RecoveryInv, Kept
<1>8. CutIsPosted'
    BY <1>1, <1>2, <1>7 DEF RecoveryInv, CutIsPosted
<1>9. PostedForStep'
    BY <1>0, <1>2, <1>3 DEF RecoveryInv, PostedForStep, Workflow
<1>10. AskerIsRight'
    <2> SUFFICES ASSUME NEW b \in Askers
                 PROVE  /\ asker'[b].pc \in {"reading", "pausing", "cancelling", "posted", "streaming"}
                            => Id(b)' # None
                        /\ asker'[b].pc \in {"idle", "waiting", "over"} => Id(b)' = None
                        /\ Id(b)' # None
                            => wf'[Id(b)'].st # "none" /\ wf'[Id(b)'].step = asker'[b].step
                        /\ asker'[b].pc \in {"posted", "streaming"}
                            => ~asker'[b].aborted /\ wf'[Id(b)'].by = b
        BY DEF AskerIsRight
    <2>1. CASE b = a
        BY <1>1, <1>2, <1>3, <2>1, NotNone DEF Id
    <2>2. CASE b # a
        <3>1. Id(b)' = Id(b) /\ asker'[b] = asker[b] /\ (Id(b) # None => wf'[Id(b)] = wf[Id(b)])
            BY <1>2, <1>3, <1>4, <1>6, <2>2 DEF Id
        <3> QED
            BY <3>1 DEF RecoveryInv, AskerIsRight
    <2> QED
        BY <2>1, <2>2
<1>11. InOnePlace' /\ AnsweredOnce'
    <2>1. \A w \in Workflows : \A b \in Askers :
            Active(b, w)' => (Active(b, w) /\ w # w0) \/ (b = a /\ w = w0)
        BY <1>3, <1>4, NotNone DEF Active, Id
    <2>2. \A w \in Workflows : Kept(w)' <=> Kept(w)
        BY <1>1 DEF Kept
    <2>3. AnsweredOnce'
        BY <1>1 DEF RecoveryInv, AnsweredOnce
    <2>4. \A w \in Workflows : \A b, d \in Askers : Active(b, w)' /\ Active(d, w)' => b = d
        BY <2>1 DEF RecoveryInv, InOnePlace
    <2>5. InOnePlace'
        BY <1>1, <1>2, <1>4, <2>1, <2>2, <2>4 DEF RecoveryInv, InOnePlace
    <2> QED
        BY <2>3, <2>5
<1>12. CancelWasSent' /\ NeverTwoAtOnce'
    <2>1. ASSUME NEW b \in Askers, b # a
          PROVE  /\ asker'[b] = asker[b] /\ Id(b)' = Id(b)
                 /\ Id(b) # None => wf'[Id(b)] = wf[Id(b)]
        BY <1>2, <1>3, <1>4, <1>6, <2>1 DEF Id
    <2>2. \A b \in Askers : asker[b].pc = "cancelling" => Id(b) # None
        BY DEF RecoveryInv, AskerIsRight
    <2>3. CancelWasSent'
        BY <1>1, <1>3, <2>1, <2>2 DEF RecoveryInv, CancelWasSent, At, IsLive
    <2>4. NeverTwoAtOnce'
        BY <1>1, <1>3, <2>1 DEF RecoveryInv, NeverTwoAtOnce, At, IsLive
    <2> QED
        BY <2>3, <2>4
<1>13. NoneIsLost'
    <2> SUFFICES ASSUME NEW w \in Workflows, IsLive(w)', w \notin excused' \cup cancels' \cup unnamed', ~Kept(w)'
                 PROVE  \E b \in Askers : Holds(b, w)'
        BY DEF NoneIsLost, Kept
    <2>1. CASE w = w0
        BY <1>3, <2>1 DEF Holds, Id
    <2>2. CASE w # w0
        <3>1. PICK b \in Askers : Holds(b, w)
            BY <1>1, <1>2, <1>5, <2>2 DEF RecoveryInv, NoneIsLost, IsLive, Kept
        <3>2. b # a
            BY <1>1, <3>1 DEF Holds, At
        <3> QED
            BY <1>3, <3>1, <3>2 DEF Holds, Id
    <2> QED
        BY <2>1, <2>2
<1>14. PosterHears'
    <2> SUFFICES ASSUME NEW w \in Workflows, IsLive(w)', w \notin cancels' \cup excused' \cup taken' \cup unnamed',
                        NEW b \in Askers, b = wf'[w].by
                 PROVE  HasIt(b, w)' /\ Hears(b, w)'
        <3>1. \A w \in Workflows : wf'[w].by \in Askers
            BY DEF TypeInv, Workflow
        <3> QED
            BY <3>1 DEF PosterHears
    <2>1. CASE w = w0
        BY <1>2, <1>3, <2>1 DEF HasIt, Hears, Holds, Id, At
    <2>2. CASE w # w0
        <3>1. HasIt(b, w) /\ Hears(b, w)
            BY <1>1, <1>2, <1>5, <2>2 DEF RecoveryInv, PosterHears, IsLive
        <3>2. HasIt(b, w)'
            BY <1>1, <1>3, <3>1 DEF HasIt, Holds, Kept, Id, At
        <3>3. Hears(b, w)'
            BY <1>1, <1>3, <3>1 DEF Hears, Id, At
        <3> QED
            BY <3>2, <3>3
    <2> QED
        BY <2>1, <2>2
<1> QED
    BY <1>8, <1>9, <1>10, <1>11, <1>12, <1>13, <1>14 DEF RecoveryInv

(* The viewer's Stop cancels what its asker streams, and what its cuts     *)
(* left kept; a read under way sees the signal itself.                     *)
LEMMA Aborts ==
    ASSUME RecoveryInv, TypeInv', Keyed(cut'), NEW a \in Askers, Abort(a)
    PROVE  RecoveryInv'
<1> DEFINE step == asker[a].step
           kept == {c \in ToSet(cut) : c.step = step /\ <<a, c.id>> \in hears}
<1>0. step \in Steps /\ asker[a] \in Asker
    BY DEF RecoveryInv, TypeInv, Asker
<1>1. /\ UNCHANGED <<wf, excused, taken, answers>>
      /\ cut' = IF kept # {} THEN Without(cut, step) ELSE cut
      /\ cancels' = cancels \cup {c.id : c \in kept} \cup (IF At(a, "streaming") THEN {Id(a)} ELSE {})
      /\ unnamed' = unnamed \cup (IF At(a, "posted") THEN {Id(a)} ELSE {})
      /\ hears' = {h \in hears : h[1] # a}
    BY DEF Abort
<1>2. /\ asker'[a].pc = IF asker[a].pc \in {"posted", "streaming", "waiting"} THEN "over" ELSE asker[a].pc
      /\ asker'[a].id = IF asker[a].pc \in {"posted", "streaming", "waiting"} THEN None ELSE asker[a].id
      /\ asker'[a].step = asker[a].step /\ asker'[a].aborted
      /\ \A b \in Askers : b # a => asker'[b] = asker[b]
    BY AbortsTo DEF RecoveryInv
<1>3. ToSet(cut') \subseteq ToSet(cut)
    BY <1>0, <1>1, WithoutLeaves DEF RecoveryInv, TypeInv
<1>4. \A c \in ToSet(cut) : c \in ToSet(cut') \/ c.id \in cancels'
    <2> SUFFICES ASSUME NEW c \in ToSet(cut), c \notin ToSet(cut')
                 PROVE  c.id \in cancels'
        OBVIOUS
    <2>1. kept # {} /\ ToSet(cut') = {d \in ToSet(cut) : d.step # step}
        BY <1>0, <1>1, WithoutLeaves DEF RecoveryInv, TypeInv
    <2>2. PICK d \in ToSet(cut) : d \in kept
        BY <2>1
    <2>3. c.step = step /\ d.step = step
        BY <2>1, <2>2
    <2>4. c = d
        BY <2>3, OneEntry DEF RecoveryInv
    <2> QED
        BY <1>1, <2>2, <2>4
<1>5. ASSUME NEW w \in Workflows, w \notin cancels' \cup unnamed'
      PROVE  /\ w \notin cancels \cup unnamed
             /\ Kept(w) => Kept(w)'
             /\ \A b \in Askers : Holds(b, w) => Holds(b, w)'
             /\ Kept(w) /\ wf[w].by = a => <<a, w>> \notin hears
    <2>1. w \notin cancels \cup unnamed
        BY <1>1, <1>5
    <2>2. Kept(w) => Kept(w)'
        BY <1>4, <1>5 DEF Kept
    <2>3. Holds(a, w) => asker[a].pc \notin {"posted", "streaming", "waiting"}
        BY <1>1, <1>5 DEF Holds, At
    <2>4. \A b \in Askers : Holds(b, w) => Holds(b, w)'
        BY <1>2, <2>3 DEF Holds, Id, At
    <2>5. ASSUME Kept(w), wf[w].by = a, <<a, w>> \in hears PROVE FALSE
        <3>1. PICK c \in ToSet(cut) : c.id = w
            BY <2>5 DEF Kept
        <3>2. c.step = step
            BY <2>5, <3>1 DEF RecoveryInv, CutIsPosted, PostedForStep
        <3> QED
            BY <1>1, <1>5, <2>5, <3>1, <3>2
    <2> QED
        BY <2>1, <2>2, <2>4, <2>5
<1>6. CutIsPosted'
    BY <1>1, <1>3 DEF RecoveryInv, CutIsPosted
<1>7. PostedForStep'
    BY <1>1, <1>2 DEF RecoveryInv, PostedForStep, TypeInv, Workflow
<1>8. AskerIsRight'
    <2>1. ASSUME NEW b \in Askers
          PROVE  /\ asker'[b].pc \in {"reading", "pausing", "cancelling", "posted", "streaming"}
                        => asker'[b].id # None
                 /\ asker'[b].pc \in {"idle", "waiting", "over"} => asker'[b].id = None
                 /\ asker'[b].id # None => asker'[b].id = Id(b)
                 /\ asker'[b].step = asker[b].step
                 /\ asker'[b].pc \in {"posted", "streaming"} => b # a
        BY <1>2 DEF RecoveryInv, AskerIsRight, Id, At
    <2> QED
        BY <1>1, <1>2, <2>1 DEF RecoveryInv, AskerIsRight, Id
<1>9. InOnePlace' /\ AnsweredOnce'
    <2>1. \A w \in Workflows : \A b \in Askers : Active(b, w)' => Active(b, w)
        BY <1>2, NotNone DEF Active, Id, At
    <2>2. \A w \in Workflows : Kept(w)' => Kept(w)
        BY <1>3 DEF Kept
    <2> QED
        BY <1>1, <2>1, <2>2 DEF RecoveryInv, InOnePlace, AnsweredOnce
<1>10. CancelWasSent'
    <2> SUFFICES ASSUME NEW b \in Askers, At(b, "cancelling")', IsLive(Id(b))'
                 PROVE  Id(b)' \in cancels' \cup excused'
        BY DEF CancelWasSent
    <2>1. At(b, "cancelling") /\ Id(b)' = Id(b)
        BY <1>2 DEF At, Id
    <2> QED
        BY <1>1, <2>1 DEF RecoveryInv, CancelWasSent, IsLive
<1>11. NeverTwoAtOnce'
    <2> SUFFICES ASSUME NEW b \in Askers, At(b, "posting")', Id(b)' # None
                 PROVE  ~IsLive(Id(b))' \/ Id(b)' \in excused'
        BY DEF NeverTwoAtOnce
    <2>1. At(b, "posting") /\ Id(b)' = Id(b)
        BY <1>2 DEF At, Id
    <2> QED
        BY <1>1, <2>1 DEF RecoveryInv, NeverTwoAtOnce, IsLive
<1>12. NoneIsLost'
    <2> SUFFICES ASSUME NEW w \in Workflows, IsLive(w)', w \notin excused' \cup cancels' \cup unnamed', ~Kept(w)'
                 PROVE  \E b \in Askers : Holds(b, w)'
        BY DEF NoneIsLost, Kept
    <2> QED
        BY <1>1, <1>5 DEF RecoveryInv, NoneIsLost, IsLive, Kept
<1>13. PosterHears'
    <2> SUFFICES ASSUME NEW w \in Workflows, IsLive(w)', w \notin cancels' \cup excused' \cup taken' \cup unnamed'
                 PROVE  HasIt(wf[w].by, w)' /\ Hears(wf[w].by, w)'
        BY <1>1 DEF PosterHears
    <2> DEFINE b == wf[w].by
    <2>1. b \in Askers
        BY DEF RecoveryInv, TypeInv, Workflow
    <2>2. HasIt(b, w) /\ Hears(b, w)
        BY <1>1, <1>5 DEF RecoveryInv, PosterHears, IsLive
    <2>3. CASE b = a
        <3>1. Holds(a, w)
            <4>1. ~Holds(a, w) => Kept(w) /\ ~asker[a].aborted /\ <<a, w>> \in hears
                BY <2>2, <2>3 DEF HasIt, Hears, Holds
            <4> QED
                BY <1>5, <2>3, <4>1
        <3> QED
            BY <1>1, <1>2, <1>5, <2>3, <3>1 DEF HasIt, Hears
    <2>4. CASE b # a
        <3>1. HasIt(b, w)'
            BY <1>1, <1>2, <1>5, <2>1, <2>2, <2>4 DEF HasIt
        <3>2. Hears(b, w)'
            BY <1>1, <1>2, <2>1, <2>2, <2>4 DEF Hears, Id, At
        <3> QED
            BY <3>1, <3>2
    <2> QED
        BY <2>3, <2>4
<1> QED
    BY <1>6, <1>7, <1>8, <1>9, <1>10, <1>11, <1>12, <1>13 DEF RecoveryInv

(* The invariant is inductive.                                             *)
LEMMA RecoveryStep == RecoveryInv /\ [Next]_vars => RecoveryInv'
<1> SUFFICES ASSUME RecoveryInv, [Next]_vars PROVE RecoveryInv'
    OBVIOUS
<1>0. TypeInv' /\ Keyed(cut')
    BY TypesStep DEF RecoveryInv
<1>1. CASE UNCHANGED vars
    <2> USE <1>1 DEF vars
    <2>1. CutIsPosted' /\ AskerIsRight' /\ PostedForStep'
        BY DEF RecoveryInv, CutIsPosted, AskerIsRight, PostedForStep, Id
    <2>2. InOnePlace' /\ AnsweredOnce'
        BY DEF RecoveryInv, InOnePlace, AnsweredOnce, Active, Kept, Id
    <2>3. CancelWasSent' /\ NeverTwoAtOnce'
        BY DEF RecoveryInv, CancelWasSent, NeverTwoAtOnce, At, Id, IsLive
    <2>4. NoneIsLost' /\ PosterHears'
        BY DEF RecoveryInv, NoneIsLost, PosterHears, HasIt, Hears, Holds, Kept, IsLive, Id, At
    <2> QED
        BY <1>0, <2>1, <2>2, <2>3, <2>4 DEF RecoveryInv
<1>2. ASSUME NEW a \in Askers, Ask(a) PROVE RecoveryInv'
    BY <1>0, <1>2, AsksAgain
<1>3. ASSUME NEW a \in Askers, Recover(a) PROVE RecoveryInv'
    BY <1>0, <1>3, IsAnswered, LetsGo, CutOff, GoesOn DEF Recover
<1>4. ASSUME NEW a \in Askers, Post(a) PROVE RecoveryInv'
    BY <1>0, <1>4, Posts
<1>5. ASSUME NEW a \in Askers, StreamEnds(a) PROVE RecoveryInv'
    BY <1>0, <1>5, IsAnswered
<1>6. ASSUME NEW a \in Askers, StreamCut(a) PROVE RecoveryInv'
    BY <1>0, <1>6, CutOff
<1>7. ASSUME NEW a \in Askers, GivesUp(a) \/ PostAborted(a) PROVE RecoveryInv'
    BY <1>0, <1>7, LetsGo
<1>8. ASSUME NEW a \in Askers, Abort(a) PROVE RecoveryInv'
    BY <1>0, <1>8, Aborts
<1>9. ASSUME NEW w \in Workflows, Finish(w) \/ TakeCancel(w) PROVE RecoveryInv'
    BY <1>0, <1>9, WorkflowsStop
<1>10. ASSUME NEW a \in Askers, Headers(a) PROVE RecoveryInv'
    BY <1>0, <1>10, LetsGo, GoesOn
<1> QED
    BY <1>1, <1>2, <1>3, <1>4, <1>5, <1>6, <1>7, <1>8, <1>9, <1>10 DEF Next

LEMMA RecoveryInvariant == Spec => []RecoveryInv
BY InitRecovery, RecoveryStep, PTL DEF Spec

(* A step asked for again is never posted while the workflow it was cut    *)
(* off from runs (recover cancels it first), faults of reads and cancels   *)
(* aside.                                                                  *)
THEOREM NeverTwo == Spec => []NeverTwoAtOnce
<1>1. RecoveryInv => NeverTwoAtOnce
    BY DEF RecoveryInv
<1> QED
    BY <1>1, RecoveryInvariant, PTL

(* One request at most is given a workflow's answer: cut.delete takes the  *)
(* entry before it is read, so no two requests recover one workflow.       *)
THEOREM OneAnswer == Spec => []AnsweredOnce
<1>1. RecoveryInv => AnsweredOnce
    BY DEF RecoveryInv
<1> QED
    BY <1>1, RecoveryInvariant, PTL

(* A running workflow is posted, read, streamed, kept or being cancelled,  *)
(* but for one a fault, KEEP_MS or KEEP_MAX lost, or a Stop before its     *)
(* POST's answer named it.                                                 *)
THEOREM NothingIsLost == Spec => []NoneIsLost
<1>1. RecoveryInv => NoneIsLost
    BY DEF RecoveryInv
<1> QED
    BY <1>1, RecoveryInvariant, PTL

(* The viewer's Stop reaches every workflow its asker posted that still    *)
(* runs and that the POST's answer named, the one being streamed and those *)
(* its cuts left kept, unless another asker of the step took it over.      *)
THEOREM StopCancels == Spec => []StoppedIsCancelled
<1>1. RecoveryInv => StoppedIsCancelled
    BY DEF RecoveryInv, StoppedIsCancelled, Abandoned, PosterHears, HasIt, Holds
<1> QED
    BY <1>1, RecoveryInvariant, PTL
=============================================================================
