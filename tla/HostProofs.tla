---------------------------- MODULE HostProofs ----------------------------
(***************************************************************************)
(* The host's store keeps what ChatKeeper promises, for any number of      *)
(* chats, copies, operations and faults: a deleted chat stays gone, and    *)
(* the store's writes implement the keeper's.  Nothing said is lost but by *)
(* a save that failed, the chat that is open is the one asked for last,    *)
(* and the deletes counted of a chat are those its queue holds.            *)
(***************************************************************************)
EXTENDS HostStore, SequenceTheorems, FiniteSetTheorems, TLAPS

Record == [there : BOOLEAN, said : SUBSET Things]
Copy == [chat : Chats, said : SUBSET Things, busy : BOOLEAN]
QueueStep == [op : Ops, copy : Nat, thing : Nat, listed : BOOLEAN, newest : BOOLEAN,
              call : Record \cup {NotYet}]

Shape ==
    /\ copies \in Seq(Copy) /\ current \in 0..Len(copies)
    /\ store \in [Chats -> Record]
    /\ queue \in [Chats -> Seq(QueueStep)]
    /\ told \in [Chats -> SUBSET Things]

(* Every chat the page lists, or that is on record, it has made a copy of. *)
Owned(c) == \E o \in 1..Len(copies) : copies[o].chat = c
Owners ==
    /\ \A c \in list : Owned(c)
    /\ \A listed \in listing : \A c \in listed : Owned(c)
    /\ \A c \in Chats : store[c] = NoRecord \/ Owned(c)

(* What was asked of a chat's queue.                                       *)
AskedRight(c, s) ==
    /\ s.op = "save" => s.copy \in 1..Len(copies) /\ copies[s.copy].chat = c
    /\ s.op = "rename" => Owned(c) /\ s.thing \in told[c] /\ s.copy = None
    /\ s.listed => Owned(c)

(* A call under way is the first of its queue, of a chat that is there to  *)
(* be written, and takes nothing from the record but in a chat of rivals.  *)
CalledRight(c, s) ==
    /\ c \notin deleted
    /\ s.call = NoRecord \/ Owned(c)
    /\ s.op # "delete" => /\ s.call.said \subseteq told[c]
                          /\ c \notin rivals => store[c].said \subseteq s.call.said
    /\ s.op = "save" => s.call.said \subseteq copies[s.copy].said
    /\ s.op = "load" => s.call = store[c]

StepsRight ==
    \A c \in Chats : \A i \in 1..Len(queue[c]) :
        /\ AskedRight(c, queue[c][i])
        /\ queue[c][i].call # NotYet => i = 1 /\ CalledRight(c, queue[c][i])

(* Nothing is kept, or shown, that was not said.                           *)
OnlyTheSaid ==
    /\ \A c \in Chats : store[c].said \subseteq told[c]
    /\ \A o \in 1..Len(copies) : copies[o].said \subseteq told[copies[o].chat]

(* A copy that is written to the chat, now or later.                       *)
Queued(c, o) == \E i \in 1..Len(queue[c]) : queue[c][i].op = "save" /\ queue[c][i].copy = o
Writes(c, o) == copies[o].chat = c /\ (current = o \/ copies[o].busy \/ Queued(c, o))

(* Of a chat without rivals one copy is written, which has all there is on *)
(* record.                                                                 *)
OneWriter ==
    \A c \in Chats \ rivals : \A o \in 1..Len(copies) : Writes(c, o) =>
        /\ store[c].said \subseteq copies[o].said
        /\ \A p \in 1..Len(copies) : Writes(c, p) => p = o

(* A rename of its record comes after the copy's saves, and no copy that   *)
(* may be saved again is there with it.                                    *)
RenamesLast ==
    \A c \in Chats \ rivals : \A i \in 1..Len(queue[c]) : queue[c][i].op = "rename" =>
        /\ \A j \in 1..Len(queue[c]) : j > i => queue[c][j].op # "save"
        /\ \A o \in 1..Len(copies) : copies[o].chat = c => current # o /\ ~copies[o].busy

HostInv ==
    Shape /\ Owners /\ StepsRight /\ OnlyTheSaid /\ OneWriter /\ RenamesLast /\ DeletedStaysGone

-----------------------------------------------------------------------------
(* Lemmas of the queue.                                                    *)

LEMMA NotYetIsNoRecord == NotYet \notin Record /\ NoRecord \in Record
BY HostAssumption DEF NotYet, NoRecord, Record, None, Things

LEMMA ChatOfCopy == ASSUME Shape, NEW o \in 1..Len(copies) PROVE copies[o].chat \in Chats
<1>1. copies[o] \in Copy
    BY DEF Shape
<1> QED
    BY <1>1 DEF Copy

LEMMA StepShape ==
    ASSUME NEW op \in Ops, NEW copy \in Nat, NEW thing \in Nat, NEW listed \in BOOLEAN
    PROVE  /\ Step(op, copy, thing, listed) \in QueueStep
           /\ Step(op, copy, thing, listed).op = op /\ Step(op, copy, thing, listed).copy = copy
           /\ Step(op, copy, thing, listed).thing = thing
           /\ Step(op, copy, thing, listed).listed = listed
           /\ Step(op, copy, thing, listed).call = NotYet
BY DEF Step, QueueStep

(* A step asked for goes to the end of its chat's queue.                   *)
LEMMA EnqueueAdds ==
    ASSUME Shape, NEW c \in Chats, NEW s \in QueueStep, Enqueue(c, s)
    PROVE  /\ queue' \in [Chats -> Seq(QueueStep)]
           /\ \A d \in Chats : d # c => queue'[d] = queue[d]
           /\ Len(queue'[c]) = Len(queue[c]) + 1 /\ queue'[c][Len(queue[c]) + 1] = s
           /\ \A d \in Chats : \A i \in 1..Len(queue'[d]) :
                  \/ i \in 1..Len(queue[d]) /\ queue'[d][i] = queue[d][i]
                  \/ d = c /\ i = Len(queue[c]) + 1 /\ queue'[d][i] = s
<1>1. queue \in [Chats -> Seq(QueueStep)] /\ queue' = [queue EXCEPT ![c] = Append(@, s)]
    BY DEF Shape, Enqueue
<1>2. queue'[c] = Append(queue[c], s) /\ queue[c] \in Seq(QueueStep) /\ Len(queue[c]) \in Nat
    BY <1>1
<1>3. /\ Len(queue'[c]) = Len(queue[c]) + 1 /\ queue'[c][Len(queue[c]) + 1] = s
      /\ \A i \in 1..Len(queue[c]) : queue'[c][i] = queue[c][i]
    BY <1>2
<1>4. \A d \in Chats : d # c => queue'[d] = queue[d]
    BY <1>1
<1>5. \A d \in Chats : \A i \in 1..Len(queue'[d]) :
          \/ i \in 1..Len(queue[d]) /\ queue'[d][i] = queue[d][i]
          \/ d = c /\ i = Len(queue[c]) + 1 /\ queue'[d][i] = s
    BY <1>2, <1>3, <1>4
<1> QED
    BY <1>1, <1>2, <1>3, <1>4, <1>5

(* At most one step is added.                                              *)
Adds(c, s) == Enqueue(c, s) \/ UNCHANGED queue

LEMMA AddsOne ==
    ASSUME Shape, NEW c \in Chats, NEW s \in QueueStep, Adds(c, s)
    PROVE  /\ queue' \in [Chats -> Seq(QueueStep)]
           /\ \A d \in Chats : \A i \in 1..Len(queue'[d]) :
                  \/ i \in 1..Len(queue[d]) /\ queue'[d][i] = queue[d][i]
                  \/ d = c /\ i = Len(queue[c]) + 1 /\ i = Len(queue'[d]) /\ queue'[d][i] = s
<1>1. CASE Enqueue(c, s)
    BY <1>1, EnqueueAdds
<1>2. CASE UNCHANGED queue
    BY <1>2 DEF Shape
<1> QED
    BY <1>1, <1>2 DEF Adds

(* The first step of a queue leaves it.                                    *)
LEMMA PopTakes ==
    ASSUME Shape, NEW c \in Chats, queue[c] # <<>>, Pop(c)
    PROVE  /\ queue' \in [Chats -> Seq(QueueStep)]
           /\ \A d \in Chats : d # c => queue'[d] = queue[d]
           /\ Len(queue[c]) \in Nat \ {0} /\ Len(queue'[c]) = Len(queue[c]) - 1
           /\ \A i \in 1..Len(queue'[c]) : queue'[c][i] = queue[c][i + 1]
<1>1. queue \in [Chats -> Seq(QueueStep)] /\ queue' = [queue EXCEPT ![c] = Tail(@)]
    BY DEF Shape, Pop
<1>2. queue'[c] = Tail(queue[c]) /\ queue[c] \in Seq(QueueStep)
    BY <1>1
<1> QED
    BY <1>1, <1>2

(* A step that is marked as superseded is otherwise the same.              *)
LEMMA MarkedStep ==
    ASSUME NEW s \in QueueStep
    PROVE  /\ [s EXCEPT !.newest = FALSE] \in QueueStep
           /\ [s EXCEPT !.newest = FALSE].op = s.op /\ [s EXCEPT !.newest = FALSE].copy = s.copy
           /\ [s EXCEPT !.newest = FALSE].thing = s.thing
           /\ [s EXCEPT !.newest = FALSE].listed = s.listed
           /\ [s EXCEPT !.newest = FALSE].call = s.call
BY DEF QueueStep

(* The loads under way are marked as superseded, and nothing else.         *)
LEMMA SupersededMarks ==
    ASSUME Shape
    PROVE  /\ Superseded(queue) \in [Chats -> Seq(QueueStep)]
           /\ \A c \in Chats : /\ Len(Superseded(queue)[c]) = Len(queue[c])
                               /\ \A i \in 1..Len(queue[c]) :
                                      Superseded(queue)[c][i] = [queue[c][i] EXCEPT !.newest = FALSE]
<1> SUFFICES ASSUME NEW c \in Chats
             PROVE  /\ Superseded(queue)[c] \in Seq(QueueStep)
                    /\ Len(Superseded(queue)[c]) = Len(queue[c])
                    /\ \A i \in 1..Len(queue[c]) :
                           Superseded(queue)[c][i] = [queue[c][i] EXCEPT !.newest = FALSE]
    BY DEF Superseded
<1> DEFINE mark(i) == [queue[c][i] EXCEPT !.newest = FALSE]
           marked == [i \in 1..Len(queue[c]) |-> mark(i)]
<1>1. Superseded(queue)[c] = marked
    BY DEF Superseded
<1>2. queue[c] \in Seq(QueueStep) /\ Len(queue[c]) \in Nat
    BY DEF Shape
<1>3. \A i \in 1..Len(queue[c]) : mark(i) \in QueueStep
    BY <1>2, MarkedStep
<1>4. marked \in [1..Len(queue[c]) -> QueueStep]
    <2> HIDE DEF mark
    <2> QED
        BY <1>3
<1>5. marked \in Seq(QueueStep)
    BY <1>2, <1>4, SeqDef
<1>6. Len(marked) = Len(queue[c])
    <2>1. Len(marked) \in Nat /\ DOMAIN marked = 1..Len(marked)
        BY <1>5, LenProperties
    <2>2. 1..Len(marked) = 1..Len(queue[c])
        BY <1>4, <2>1
    <2> QED
        BY <1>2, <2>1, <2>2
<1> QED
    BY <1>1, <1>5, <1>6
-----------------------------------------------------------------------------
(* What is the same in every step.                                         *)

(* Copies are only added, and lose nothing; what was said stays said.      *)
Grows ==
    /\ Len(copies) <= Len(copies')
    /\ \A o \in 1..Len(copies) : copies'[o].chat = copies[o].chat /\ copies[o].said \subseteq copies'[o].said
    /\ \A c \in Chats : told[c] \subseteq told'[c]
    /\ rivals \subseteq rivals'

LEMMA GrowsIfSame ==
    ASSUME Shape, UNCHANGED <<copies, told>>, rivals \subseteq rivals'
    PROVE  Grows
BY DEF Grows, Shape

LEMMA OwnedStays == ASSUME Shape, Shape', Grows, NEW c, Owned(c) PROVE Owned(c)'
<1>1. Len(copies) \in Nat /\ Len(copies') \in Nat
    BY DEF Shape
<1>2. PICK o \in 1..Len(copies) : copies[o].chat = c
    BY DEF Owned
<1>3. o \in 1..Len(copies') /\ copies'[o].chat = c
    BY <1>1, <1>2 DEF Grows
<1> QED
    BY <1>3 DEF Owned

LEMMA AskedStays ==
    ASSUME Shape, Shape', Grows, NEW c \in Chats, NEW s, AskedRight(c, s)
    PROVE  AskedRight(c, s)'
<1>1. Len(copies) \in Nat /\ Len(copies') \in Nat
    BY DEF Shape
<1>2. s.op = "save" => s.copy \in 1..Len(copies') /\ copies'[s.copy].chat = c
    BY <1>1 DEF AskedRight, Grows
<1> QED
    BY <1>2, OwnedStays DEF AskedRight, Grows

(* A call that was right stays so while its chat's record does.            *)
LEMMA CalledStays ==
    ASSUME Shape, Shape', Grows, NEW c \in Chats, NEW s, AskedRight(c, s), CalledRight(c, s),
           store'[c] = store[c], c \notin deleted'
    PROVE  CalledRight(c, s)'
<1>1. s.op = "save" => s.call.said \subseteq copies'[s.copy].said
    BY DEF AskedRight, CalledRight, Grows
<1>2. s.call = NoRecord \/ Owned(c)'
    BY OwnedStays DEF CalledRight
<1>3. s.op # "delete" => /\ s.call.said \subseteq told'[c]
                         /\ c \notin rivals' => store'[c].said \subseteq s.call.said
    BY DEF CalledRight, Grows
<1> QED
    BY <1>1, <1>2, <1>3 DEF CalledRight

Alike(s, t) == s.op = t.op /\ s.copy = t.copy /\ s.thing = t.thing /\ s.listed = t.listed /\ s.call = t.call

LEMMA AlikeStaysRight ==
    ASSUME NEW c, NEW s, NEW t, Alike(s, t)
    PROVE  (AskedRight(c, s) <=> AskedRight(c, t)) /\ (CalledRight(c, s) <=> CalledRight(c, t))
BY DEF Alike, AskedRight, CalledRight

(* A queue whose steps are the ones it had, in their places, or have not   *)
(* been called yet.                                                        *)
LEMMA StepsStay ==
    ASSUME HostInv, Shape', Grows,
           \A c \in Chats : \A i \in 1..Len(queue'[c]) : \E s : s = queue'[c][i] /\
               \/ /\ i \in 1..Len(queue[c]) /\ Alike(s, queue[c][i])
                  /\ store'[c] = store[c] /\ (c \in deleted' => c \in deleted)
               \/ s.call = NotYet /\ AskedRight(c, s)'
    PROVE  StepsRight'
<1> SUFFICES ASSUME NEW c \in Chats, NEW i \in 1..Len(queue'[c])
             PROVE  \E s : s = queue'[c][i] /\ AskedRight(c, s)'
                           /\ (s.call # NotYet => i = 1 /\ CalledRight(c, s)')
    BY DEF StepsRight
<1>1. PICK s : s = queue'[c][i] /\
               \/ /\ i \in 1..Len(queue[c]) /\ Alike(s, queue[c][i])
                  /\ store'[c] = store[c] /\ (c \in deleted' => c \in deleted)
               \/ s.call = NotYet /\ AskedRight(c, s)'
    OBVIOUS
<1>2. CASE /\ i \in 1..Len(queue[c]) /\ Alike(s, queue[c][i])
           /\ store'[c] = store[c] /\ (c \in deleted' => c \in deleted)
    <2>1. AskedRight(c, s) /\ (s.call # NotYet => i = 1 /\ CalledRight(c, s))
        BY <1>2, AlikeStaysRight DEF HostInv, StepsRight, Alike
    <2>2. AskedRight(c, s)'
        BY <2>1, AskedStays DEF HostInv
    <2>3. s.call # NotYet => CalledRight(c, s)'
        BY <1>2, <2>1, CalledStays DEF HostInv, CalledRight
    <2> QED
        BY <1>1, <2>1, <2>2, <2>3
<1> QED
    BY <1>1, <1>2

(* No copy becomes one that is written, and each that is has the record.   *)
LEMMA WritersStay ==
    ASSUME HostInv, Shape', Grows,
           \A c \in Chats \ rivals' : \A o \in 1..Len(copies') :
               Writes(c, o)' => o \in 1..Len(copies) /\ Writes(c, o)
                                /\ (store'[c].said \subseteq store[c].said
                                    \/ store'[c].said \subseteq copies[o].said)
    PROVE  OneWriter'
<1> SUFFICES ASSUME NEW c \in Chats \ rivals', NEW o \in 1..Len(copies'), Writes(c, o)'
             PROVE  /\ store'[c].said \subseteq copies'[o].said
                    /\ \A p \in 1..Len(copies') : Writes(c, p)' => p = o
    BY DEF OneWriter
<1>1. c \in Chats \ rivals /\ o \in 1..Len(copies) /\ Writes(c, o)
    BY DEF Grows
<1>2. store[c].said \subseteq copies[o].said /\ \A p \in 1..Len(copies) : Writes(c, p) => p = o
    BY <1>1 DEF HostInv, OneWriter
<1>3. store'[c].said \subseteq copies'[o].said
    BY <1>1, <1>2 DEF Grows
<1> QED
    BY <1>2, <1>3
-----------------------------------------------------------------------------
(* Init, and the steps of the page.                                        *)

LEMMA InitHost == Init => HostInv
<1> SUFFICES ASSUME Init PROVE HostInv
    OBVIOUS
<1>1. /\ copies = <<>> /\ current = 0 /\ store = [c \in Chats |-> NoRecord] /\ queue = [c \in Chats |-> <<>>]
      /\ list = {} /\ listing = {} /\ deleted = {} /\ told = [c \in Chats |-> {}]
    BY DEF Init, None
<1>2. Shape
    BY <1>1, NotYetIsNoRecord DEF Shape
<1>3. Owners
    BY <1>1 DEF Owners
<1>4. OnlyTheSaid
    BY <1>1 DEF OnlyTheSaid, NoRecord
<1>5. StepsRight /\ OneWriter /\ RenamesLast /\ DeletedStaysGone
    BY <1>1 DEF StepsRight, OneWriter, RenamesLast, DeletedStaysGone
<1> QED
    BY <1>2, <1>3, <1>4, <1>5 DEF HostInv

(* A step asked for that is right when its turn comes.                     *)
LEMMA AddedIsRight ==
    ASSUME HostInv, Shape', Grows, NEW c \in Chats, NEW s \in QueueStep, Adds(c, s),
           s.call = NotYet, AskedRight(c, s)', UNCHANGED <<store, deleted>>
    PROVE  StepsRight'
<1>1. \A d \in Chats : \A i \in 1..Len(queue'[d]) :
          (i \in 1..Len(queue[d]) /\ queue'[d][i] = queue[d][i]) \/ (d = c /\ queue'[d][i] = s)
    BY AddsOne DEF HostInv, Shape
<1>2. \A d \in Chats : \A i \in 1..Len(queue'[d]) : \E t : t = queue'[d][i] /\
          \/ /\ i \in 1..Len(queue[d]) /\ Alike(t, queue[d][i])
             /\ store'[d] = store[d] /\ (d \in deleted' => d \in deleted)
          \/ t.call = NotYet /\ AskedRight(d, t)'
    BY <1>1 DEF Alike
<1> QED
    BY <1>2, StepsStay

(* No copy is written that was not, by a save of one that was.             *)
LEMMA AddedBySameWriter ==
    ASSUME HostInv, Shape', Grows, NEW c \in Chats, NEW s \in QueueStep, Adds(c, s),
           s.op = "save" => current = s.copy \/ copies[s.copy].busy,
           UNCHANGED <<current, store>>, Len(copies') = Len(copies),
           \A o \in 1..Len(copies) : copies'[o].busy => copies[o].busy \/ current = o
    PROVE  OneWriter'
<1>1. ASSUME NEW d \in Chats, NEW o \in 1..Len(copies), Queued(d, o)' PROVE Queued(d, o) \/ (s.op = "save" /\ o = s.copy)
    <2>1. PICK i \in 1..Len(queue'[d]) : queue'[d][i].op = "save" /\ queue'[d][i].copy = o
        BY <1>1 DEF Queued
    <2>2. (i \in 1..Len(queue[d]) /\ queue'[d][i] = queue[d][i]) \/ queue'[d][i] = s
        BY AddsOne DEF HostInv
    <2> QED
        BY <2>1, <2>2 DEF Queued
<1>2. ASSUME NEW d \in Chats \ rivals', NEW o \in 1..Len(copies'), Writes(d, o)'
      PROVE  o \in 1..Len(copies) /\ Writes(d, o) /\ store'[d].said \subseteq store[d].said
    <2>1. o \in 1..Len(copies) /\ copies[o].chat = d
        BY <1>2 DEF Writes, Grows
    <2>2. current = o \/ copies[o].busy \/ Queued(d, o)
        BY <1>1, <1>2, <2>1 DEF Writes
    <2> QED
        BY <2>1, <2>2 DEF Writes
<1> QED
    BY <1>2, WritersStay

(* A save is asked for of a copy that is open or busy, and so where no     *)
(* rename waits.                                                           *)
LEMMA AddedBeforeRenames ==
    ASSUME HostInv, Shape', Grows, NEW c \in Chats, NEW s \in QueueStep, Adds(c, s),
           s.op = "save" => /\ s.copy \in 1..Len(copies) /\ copies[s.copy].chat = c
                            /\ current = s.copy \/ copies[s.copy].busy,
           s.op = "rename" => c \in rivals' \/
               \A o \in 1..Len(copies) : copies[o].chat = c => current # o /\ ~copies[o].busy,
           current' = current, Len(copies') = Len(copies),
           \A o \in 1..Len(copies) : copies'[o].busy => copies[o].busy \/ current = o
    PROVE  RenamesLast'
<1> SUFFICES ASSUME NEW d \in Chats \ rivals', NEW i \in 1..Len(queue'[d]), queue'[d][i].op = "rename"
             PROVE  /\ \A j \in 1..Len(queue'[d]) : j > i => queue'[d][j].op # "save"
                    /\ \A o \in 1..Len(copies') : copies'[o].chat = d => current' # o /\ ~copies'[o].busy
    BY DEF RenamesLast
<1>1. d \in Chats \ rivals /\ Len(queue[d]) \in Nat /\ Len(queue[c]) \in Nat
    BY DEF Grows, HostInv, Shape
<1>2. \A o \in 1..Len(copies) : copies'[o].chat = copies[o].chat
    BY DEF Grows
<1>3. CASE i \in 1..Len(queue[d]) /\ queue'[d][i] = queue[d][i]
    <2>1. /\ \A j \in 1..Len(queue[d]) : j > i => queue[d][j].op # "save"
          /\ \A o \in 1..Len(copies) : copies[o].chat = d => current # o /\ ~copies[o].busy
        BY <1>1, <1>3 DEF HostInv, RenamesLast
    <2>2. d = c => s.op # "save"
        BY <2>1
    <2>3. \A j \in 1..Len(queue'[d]) : (j \in 1..Len(queue[d]) /\ queue'[d][j] = queue[d][j])
                                        \/ (d = c /\ queue'[d][j] = s)
        BY AddsOne DEF HostInv, Shape
    <2> QED
        BY <1>2, <2>1, <2>2, <2>3
<1>4. CASE d = c /\ i = Len(queue'[d]) /\ s.op = "rename"
    BY <1>1, <1>2, <1>4
<1>5. (i \in 1..Len(queue[d]) /\ queue'[d][i] = queue[d][i]) \/ (d = c /\ i = Len(queue'[d]) /\ queue'[d][i] = s)
    BY <1>1, AddsOne DEF HostInv, Shape
<1> QED
    BY <1>3, <1>4, <1>5

(* A copy in which something is said.                                      *)
SaidIn(cs, o, n, busy) == [cs EXCEPT ![o].said = @ \cup {n}, ![o].busy = busy]

LEMMA CopySays ==
    ASSUME NEW cs \in Seq(Copy), NEW o \in 1..Len(cs), NEW n \in Things, NEW busy \in BOOLEAN
    PROVE  /\ SaidIn(cs, o, n, busy) \in Seq(Copy) /\ Len(SaidIn(cs, o, n, busy)) = Len(cs)
           /\ SaidIn(cs, o, n, busy)[o].chat = cs[o].chat
           /\ SaidIn(cs, o, n, busy)[o].said = cs[o].said \cup {n}
           /\ SaidIn(cs, o, n, busy)[o].busy = busy
           /\ \A p \in 1..Len(cs) : p # o => SaidIn(cs, o, n, busy)[p] = cs[p]
<1> DEFINE e == [[cs[o] EXCEPT !.said = @ \cup {n}] EXCEPT !.busy = busy]
           new == SaidIn(cs, o, n, busy)
<1>1. cs[o] \in Copy
    OBVIOUS
<1>2. e \in Copy /\ e.chat = cs[o].chat /\ e.said = cs[o].said \cup {n} /\ e.busy = busy
    BY <1>1 DEF Copy
<1>3. new = [cs EXCEPT ![o] = e]
    BY DEF SaidIn
<1> HIDE DEF e
<1>4. new \in Seq(Copy) /\ Len(new) = Len(cs)
    BY <1>2, <1>3, ExceptSeq
<1>5. new[o] = e /\ \A p \in 1..Len(cs) : p # o => new[p] = cs[p]
    BY <1>2, <1>3, ExceptSeq
<1> QED
    BY <1>2, <1>4, <1>5

(* Send, and the end of a reply: something is said in a copy and saved.    *)
LEMMA SaysInCopy ==
    ASSUME HostInv, NEW o \in 1..Len(copies), NEW busy \in BOOLEAN, NEW listed \in BOOLEAN,
           current = o \/ copies[o].busy, NextThing \in Things,
           copies' = SaidIn(copies, o, NextThing, busy),
           busy => current = o \/ copies[o].busy,
           Adds(copies[o].chat, Step("save", o, None, listed)),
           ToldAbout(copies[o].chat, NextThing),
           UNCHANGED <<current, store, deleted, listing, rivals>>,
           list' \subseteq list \cup {copies[o].chat},
           copies[o].chat \in deleted => list' = list
    PROVE  HostInv'
<1> DEFINE n == NextThing
<1>0. PICK c, s : c = copies[o].chat /\ s = Step("save", o, None, listed)
    OBVIOUS
<1>1. /\ copies \in Seq(Copy) /\ Len(copies) \in Nat /\ o \in Nat /\ c \in Chats /\ n \in Things
      /\ told \in [Chats -> SUBSET Things] /\ copies[o] \in Copy
    <2>1. copies \in Seq(Copy) /\ Len(copies) \in Nat /\ told \in [Chats -> SUBSET Things]
        BY DEF HostInv, Shape
    <2>2. copies[o] \in Copy
        BY <2>1
    <2> QED
        BY <1>0, <2>1, <2>2 DEF Copy
<1>2. /\ s \in QueueStep /\ s.op = "save" /\ s.copy = o /\ s.listed = listed /\ s.call = NotYet
    <2>1. "save" \in Ops /\ None \in Nat /\ o \in Nat
        BY <1>1 DEF Ops, None
    <2> QED
        BY <1>0, <2>1, StepShape
<1>3. Adds(c, s) /\ told' = [told EXCEPT ![c] = @ \cup {n}]
    BY <1>0 DEF ToldAbout
<1> HIDE DEF n
<1>4. /\ copies' \in Seq(Copy) /\ Len(copies') = Len(copies)
      /\ copies'[o].chat = c /\ copies'[o].said = copies[o].said \cup {n} /\ copies'[o].busy = busy
      /\ \A p \in 1..Len(copies) : p # o => copies'[p] = copies[p]
    <2>1. copies' = SaidIn(copies, o, n, busy)
        BY DEF n
    <2>2. /\ SaidIn(copies, o, n, busy) \in Seq(Copy) /\ Len(SaidIn(copies, o, n, busy)) = Len(copies)
          /\ SaidIn(copies, o, n, busy)[o].chat = copies[o].chat
          /\ SaidIn(copies, o, n, busy)[o].said = copies[o].said \cup {n}
          /\ SaidIn(copies, o, n, busy)[o].busy = busy
          /\ \A p \in 1..Len(copies) : p # o => SaidIn(copies, o, n, busy)[p] = copies[p]
        BY <1>1, CopySays
    <2> QED
        BY <1>0, <2>1, <2>2
<1>5. Grows
    BY <1>0, <1>1, <1>3, <1>4 DEF Grows
<1>6. Shape'
    <2>1. told' \in [Chats -> SUBSET Things]
        BY <1>1, <1>3
    <2> QED
        BY <1>2, <1>3, <1>4, <2>1, AddsOne DEF HostInv, Shape
<1>7. \A p \in 1..Len(copies) : copies'[p].busy => copies[p].busy \/ current = p
    BY <1>1, <1>4
<1>8. Owners'
    <2>1. Owned(c)
        BY <1>0 DEF Owned
    <2> QED
        BY <1>0, <1>5, <1>6, <2>1, OwnedStays DEF HostInv, Owners
<1>9. StepsRight'
    <2>1. AskedRight(c, s)'
        BY <1>0, <1>1, <1>2, <1>4 DEF AskedRight, Owned
    <2> QED
        BY <1>1, <1>2, <1>3, <1>5, <1>6, <2>1, AddedIsRight
<1>10. OnlyTheSaid'
    BY <1>0, <1>1, <1>3, <1>4 DEF HostInv, OnlyTheSaid
<1>11. OneWriter'
    BY <1>1, <1>2, <1>3, <1>4, <1>5, <1>6, <1>7, <1>0, AddedBySameWriter
<1>12. RenamesLast'
    BY <1>1, <1>2, <1>3, <1>4, <1>5, <1>6, <1>7, <1>0, AddedBeforeRenames
<1>13. DeletedStaysGone'
    BY <1>0, <1>1, <1>4 DEF HostInv, DeletedStaysGone, Shape, None
<1> QED
    BY <1>6, <1>8, <1>9, <1>10, <1>11, <1>12, <1>13 DEF HostInv

LEMMA SendKeeps == ASSUME HostInv, Send PROVE HostInv'
<1> DEFINE c == copies[current].chat
<1>1. /\ current \in 1..Len(copies) /\ NextThing \in Things
      /\ copies' = SaidIn(copies, current, NextThing, TRUE)
      /\ Adds(c, Step("save", current, None, FALSE)) /\ Touch(c) /\ ToldAbout(c, NextThing)
      /\ UNCHANGED <<current, store, deleted, listing, rivals>>
    <2>1. current \in 1..Len(copies)
        BY DEF Send, None, HostInv, Shape
    <2> QED
        BY <2>1 DEF Send, SaidIn, Adds
<1>2. list' \subseteq list \cup {c} /\ (c \in deleted => list' = list)
    BY <1>1 DEF Touch, Gone
<1> QED
    BY <1>1, <1>2, SaysInCopy

LEMMA CompleteTurnKeeps ==
    ASSUME HostInv, NEW o \in 1..Len(copies), CompleteTurn(o)
    PROVE  HostInv'
BY SaysInCopy DEF CompleteTurn, SaidIn, Adds

(* A title for a chat that is not open, in its record.                     *)
LEMMA RenamesRecord ==
    ASSUME HostInv, NEW c \in Chats, c \in list, NextThing \in Things, ToldAbout(c, NextThing),
           current = None \/ copies[current].chat # c,
           Enqueue(c, Step("rename", None, NextThing, FALSE)),
           rivals' = IF Busy(c) THEN rivals \cup {c} ELSE rivals,
           UNCHANGED <<copies, list, current, store, deleted, listing>>
    PROVE  HostInv'
<1>0. PICK n, s : n = NextThing /\ s = Step("rename", None, n, FALSE)
    OBVIOUS
<1>1. s \in QueueStep /\ s.op = "rename" /\ s.copy = None /\ s.thing = n /\ ~s.listed /\ s.call = NotYet /\ Adds(c, s)
    <2>1. "rename" \in Ops /\ None \in Nat /\ n \in Nat
        BY <1>0, HostAssumption DEF Ops, None, Things
    <2>2. s \in QueueStep /\ s.op = "rename" /\ s.copy = None /\ s.thing = n /\ s.listed = FALSE /\ s.call = NotYet
        <3> DEFINE t == Step("rename", None, n, FALSE)
        <3>1. t \in QueueStep /\ t.op = "rename" /\ t.copy = None /\ t.thing = n /\ t.listed = FALSE /\ t.call = NotYet
            BY <2>1 DEF Step, QueueStep
        <3> QED
            BY <1>0, <3>1
    <2>3. Adds(c, s)
        BY <1>0 DEF Adds
    <2> QED
        BY <2>2, <2>3
<1>2. told \in [Chats -> SUBSET Things] /\ told' = [told EXCEPT ![c] = @ \cup {n}] /\ n \in Things
    BY <1>0 DEF ToldAbout, HostInv, Shape
<1>3. Grows /\ Shape'
    BY <1>1, <1>2, AddsOne DEF Grows, HostInv, Shape
<1>4. Owned(c)' /\ Owners'
    BY DEF HostInv, Owners, Owned
<1>5. StepsRight'
    <2>1. AskedRight(c, s)'
        BY <1>1, <1>2, <1>4 DEF AskedRight
    <2> QED
        BY <1>1, <1>3, <2>1, AddedIsRight DEF HostInv
<1>6. OnlyTheSaid'
    BY <1>2 DEF HostInv, OnlyTheSaid
<1>7. OneWriter'
    BY <1>1, <1>3, AddedBySameWriter DEF HostInv
<1>8. RenamesLast'
    <2>1. c \in rivals' \/ \A o \in 1..Len(copies) : copies[o].chat = c => current # o /\ ~copies[o].busy
        BY DEF Busy, None
    <2> QED
        BY <1>1, <1>3, <2>1, AddedBeforeRenames DEF HostInv
<1>9. DeletedStaysGone'
    BY DEF HostInv, DeletedStaysGone
<1> QED
    BY <1>3, <1>4, <1>5, <1>6, <1>7, <1>8, <1>9 DEF HostInv

LEMMA RenameKeeps == ASSUME HostInv, NEW c \in Chats, Rename(c) PROVE HostInv'
<1>1. NextThing \in Things /\ ToldAbout(c, NextThing) /\ UNCHANGED <<current, store, deleted, listing>>
    BY DEF Rename
<1>2. CASE current # None /\ copies[current].chat = c
    <2>1. current \in 1..Len(copies) /\ copies \in Seq(Copy) /\ copies[current] \in Copy
        BY <1>2 DEF None, HostInv, Shape
    <2>2. copies[current].busy \in BOOLEAN
        BY <2>1 DEF Copy
    <2>3. /\ copies' = [copies EXCEPT ![current].said = @ \cup {NextThing}]
          /\ Adds(c, Step("save", current, None, TRUE)) /\ Touch(c) /\ UNCHANGED rivals
        BY <1>2 DEF Rename, Adds
    <2>4. copies' = SaidIn(copies, current, NextThing, copies[current].busy)
        BY <2>1, <2>3 DEF SaidIn, Copy
    <2>5. list' \subseteq list \cup {c} /\ (c \in deleted => list' = list)
        BY <2>3 DEF Touch, Gone
    <2> QED
        BY <1>1, <1>2, <2>1, <2>2, <2>3, <2>4, <2>5, SaysInCopy
<1>3. CASE ~(current # None /\ copies[current].chat = c)
    BY <1>1, <1>3, RenamesRecord DEF Rename
<1> QED
    BY <1>2, <1>3
-----------------------------------------------------------------------------
(* Opens, deletes and new chats: no save and no rename is asked for.       *)

AsksNoSave ==
    \A c \in Chats : \A i \in 1..Len(queue'[c]) : \E s : s = queue'[c][i] /\
        \/ i \in 1..Len(queue[c]) /\ Alike(s, queue[c][i])
        \/ s.call = NotYet /\ s.op \in {"load", "delete"} /\ (s.listed => Owned(c))

LEMMA NoSaveIsRight ==
    ASSUME HostInv, Shape', Grows, AsksNoSave, UNCHANGED <<store, deleted>>
    PROVE  StepsRight'
<1>1. ASSUME NEW c \in Chats, NEW s, s.op \in {"load", "delete"}, s.listed => Owned(c)
      PROVE  AskedRight(c, s)'
    BY <1>1, OwnedStays DEF HostInv, AskedRight
<1>2. \A c \in Chats : \A i \in 1..Len(queue'[c]) : \E s : s = queue'[c][i] /\
          \/ /\ i \in 1..Len(queue[c]) /\ Alike(s, queue[c][i])
             /\ store'[c] = store[c] /\ (c \in deleted' => c \in deleted)
          \/ s.call = NotYet /\ AskedRight(c, s)'
    BY <1>1 DEF AsksNoSave
<1> QED
    BY <1>2, StepsStay

LEMMA NoSaveIsQueued ==
    ASSUME AsksNoSave, NEW c \in Chats, NEW o, Queued(c, o)'
    PROVE  Queued(c, o)
<1>1. PICK i \in 1..Len(queue'[c]) : queue'[c][i].op = "save" /\ queue'[c][i].copy = o
    BY DEF Queued
<1>2. i \in 1..Len(queue[c]) /\ queue[c][i].op = "save" /\ queue[c][i].copy = o
    BY <1>1 DEF AsksNoSave, Alike
<1> QED
    BY <1>2 DEF Queued

LEMMA NoSaveBeforeRenames ==
    ASSUME HostInv, AsksNoSave, rivals' = rivals,
           \A o \in 1..Len(copies') : \A c \in Chats \ rivals : copies'[o].chat = c /\ Owned(c) =>
               o \in 1..Len(copies) /\ copies[o].chat = c
               /\ (copies'[o].busy => copies[o].busy) /\ (current' = o => current = o)
    PROVE  RenamesLast'
<1> SUFFICES ASSUME NEW c \in Chats \ rivals, NEW i \in 1..Len(queue'[c]), queue'[c][i].op = "rename"
             PROVE  /\ \A j \in 1..Len(queue'[c]) : j > i => queue'[c][j].op # "save"
                    /\ \A o \in 1..Len(copies') : copies'[o].chat = c => current' # o /\ ~copies'[o].busy
    BY DEF RenamesLast
<1>1. i \in 1..Len(queue[c]) /\ queue[c][i].op = "rename"
    BY DEF AsksNoSave, Alike
<1>2. /\ \A j \in 1..Len(queue[c]) : j > i => queue[c][j].op # "save"
      /\ \A o \in 1..Len(copies) : copies[o].chat = c => current # o /\ ~copies[o].busy
    BY <1>1 DEF HostInv, RenamesLast
<1>3. \A j \in 1..Len(queue'[c]) : queue'[c][j].op = "save" => j \in 1..Len(queue[c]) /\ queue[c][j].op = "save"
    BY DEF AsksNoSave, Alike
<1>4. Owned(c)
    BY <1>1 DEF HostInv, StepsRight, AskedRight
<1> QED
    BY <1>2, <1>3, <1>4

(* Such a step, of a page that is otherwise as it was.                     *)
LEMMA NoSaveKeeps ==
    ASSUME HostInv, queue' \in [Chats -> Seq(QueueStep)], AsksNoSave,
           UNCHANGED <<copies, current, store, deleted, told, rivals>>,
           \A c \in list' : Owned(c) /\ (c \in list \/ c \notin deleted),
           \A listed \in listing' : \A c \in listed : Owned(c)
    PROVE  HostInv'
<1>1. Shape' /\ Grows
    BY DEF HostInv, Shape, Grows
<1>2. Owners'
    BY DEF HostInv, Owners, Owned
<1>3. StepsRight'
    BY <1>1, NoSaveIsRight
<1>4. OnlyTheSaid'
    BY DEF HostInv, OnlyTheSaid
<1>5. OneWriter'
    <2>1. ASSUME NEW c \in Chats \ rivals', NEW o \in 1..Len(copies'), Writes(c, o)'
          PROVE  o \in 1..Len(copies) /\ Writes(c, o) /\ store'[c].said \subseteq store[c].said
        BY <2>1, NoSaveIsQueued DEF Writes
    <2> QED
        BY <1>1, <2>1, WritersStay
<1>6. RenamesLast'
    BY NoSaveBeforeRenames
<1>7. DeletedStaysGone'
    BY DEF HostInv, DeletedStaysGone
<1> QED
    BY <1>1, <1>2, <1>3, <1>4, <1>5, <1>6, <1>7 DEF HostInv

(* A delete remembers whether its chat was listed.                         *)
LEMMA DeleteStep ==
    ASSUME NEW c \in Chats
    PROVE  \E s \in QueueStep : /\ s = Step("delete", None, None, c \in list)
                                /\ s.op = "delete" /\ (s.listed <=> c \in list) /\ s.call = NotYet
<1>1. PICK s : s = Step("delete", None, None, c \in list)
    OBVIOUS
<1>2. "delete" \in Ops /\ None \in Nat /\ TRUE \in BOOLEAN /\ FALSE \in BOOLEAN
    BY DEF Ops, None
<1>3. CASE c \in list
    <2>1. s = Step("delete", None, None, TRUE)
        BY <1>1, <1>3, Zenon
    <2>2. s \in QueueStep /\ s.op = "delete" /\ (s.listed <=> c \in list) /\ s.call = NotYet
        BY <1>2, <1>3, <2>1 DEF Step, QueueStep
    <2> QED
        BY <1>1, <2>2, Zenon
<1>4. CASE c \notin list
    <2>1. s = Step("delete", None, None, FALSE)
        <3>1. (c \in list) = FALSE
            BY <1>4
        <3> QED
            BY <1>1, <3>1, Zenon
    <2>2. s \in QueueStep /\ s.op = "delete" /\ (s.listed <=> c \in list) /\ s.call = NotYet
        BY <1>2, <1>4, <2>1 DEF Step, QueueStep
    <2> QED
        BY <1>1, <2>2, Zenon
<1> QED
    BY <1>3, <1>4

LEMMA RemoveChatKeeps == ASSUME HostInv, NEW c \in Chats, RemoveChat(c) PROVE HostInv'
<1>1. PICK s \in QueueStep : /\ s = Step("delete", None, None, c \in list)
                             /\ s.op = "delete" /\ (s.listed <=> c \in list) /\ s.call = NotYet
    BY DeleteStep
<1>2. Enqueue(c, s)
    BY <1>1, Zenon DEF RemoveChat
<1>3. s.listed => Owned(c)
    BY <1>1 DEF HostInv, Owners
<1>4. AsksNoSave /\ queue' \in [Chats -> Seq(QueueStep)]
    BY <1>1, <1>2, <1>3, EnqueueAdds DEF AsksNoSave, Alike, HostInv
<1> QED
    BY <1>4, NoSaveKeeps DEF RemoveChat, HostInv, Owners

LEMMA SupersededAsksNoSave ==
    ASSUME HostInv, NEW c \in Chats, NEW i \in 1..Len(Superseded(queue)[c])
    PROVE  i \in 1..Len(queue[c]) /\ Alike(Superseded(queue)[c][i], queue[c][i])
<1>1. i \in 1..Len(queue[c]) /\ Superseded(queue)[c][i] = [queue[c][i] EXCEPT !.newest = FALSE]
    BY SupersededMarks DEF HostInv
<1>2. queue[c][i] \in QueueStep
    BY <1>1 DEF HostInv, Shape
<1> QED
    BY <1>1, <1>2, MarkedStep DEF Alike

LEMMA OpenKeeps == ASSUME HostInv, NEW c \in Chats, Open(c) PROVE HostInv'
<1>1. PICK s, q : s = Step("load", None, None, FALSE) /\ q = Superseded(queue)
    OBVIOUS
<1>2. s \in QueueStep /\ s.op = "load" /\ s.listed = FALSE /\ s.call = NotYet
    BY <1>1, NotYetIsNoRecord DEF Step, QueueStep, Ops, None
<1>3. q \in [Chats -> Seq(QueueStep)] /\ queue' = [q EXCEPT ![c] = Append(@, s)]
    BY <1>1, SupersededMarks DEF Open, HostInv
<1>4. q[c] \in Seq(QueueStep) /\ Len(q[c]) \in Nat /\ queue'[c] = Append(q[c], s)
    BY <1>3
<1>5. \A d \in Chats : \A i \in 1..Len(queue'[d]) :
          (i \in 1..Len(q[d]) /\ queue'[d][i] = q[d][i]) \/ queue'[d][i] = s
    BY <1>3, <1>4
<1>6. queue' \in [Chats -> Seq(QueueStep)]
    BY <1>2, <1>3, <1>4
<1>7. AsksNoSave
    BY <1>1, <1>2, <1>5, SupersededAsksNoSave DEF AsksNoSave
<1> QED
    BY <1>6, <1>7, NoSaveKeeps DEF Open, HostInv, Owners

(* A chat of its own: nothing of it is on record, in a copy or queued.     *)
LEMMA StartNewKeeps == ASSUME HostInv, NEW c \in Chats, StartNew(c) PROVE HostInv'
<1>1. PICK n, new : n = Len(copies) + 1 /\ new = [chat |-> c, said |-> {}, busy |-> FALSE]
    OBVIOUS
<1>2. /\ copies \in Seq(Copy) /\ Len(copies) \in Nat /\ current \in 0..Len(copies)
      /\ copies' = Append(copies, new) /\ current' = n /\ queue' = Superseded(queue)
      /\ UNCHANGED <<store, deleted, list, listing, told, rivals>>
    BY <1>1 DEF StartNew, HostInv, Shape
<1>3. new \in Copy /\ new.chat = c /\ new.said = {} /\ new.busy = FALSE
    BY <1>1 DEF Copy
<1>4. /\ copies' \in Seq(Copy) /\ Len(copies') = n /\ copies'[n] = new
      /\ \A o \in 1..Len(copies) : copies'[o] = copies[o]
    BY <1>1, <1>2, <1>3
<1>5. ~Owned(c) /\ c \notin deleted
    BY DEF StartNew, Used, Owned
<1>6. store[c].said = {}
    BY <1>5 DEF HostInv, Owners, NoRecord
<1>7. Grows
    BY <1>1, <1>2, <1>4 DEF Grows, HostInv, Shape
<1>8. queue' \in [Chats -> Seq(QueueStep)] /\ AsksNoSave
    BY <1>2, SupersededMarks, SupersededAsksNoSave DEF AsksNoSave, HostInv
<1>9. Shape'
    BY <1>1, <1>2, <1>4, <1>8 DEF HostInv, Shape
<1>10. Owners'
    BY <1>2, <1>7, <1>9, OwnedStays DEF HostInv, Owners
<1>11. StepsRight'
    BY <1>2, <1>7, <1>8, <1>9, NoSaveIsRight
<1>12. OnlyTheSaid'
    BY <1>1, <1>2, <1>3, <1>4 DEF HostInv, OnlyTheSaid
<1>13. OneWriter'
    <2> SUFFICES ASSUME NEW d \in Chats \ rivals, NEW o \in 1..Len(copies'), Writes(d, o)'
                 PROVE  /\ store[d].said \subseteq copies'[o].said
                        /\ \A p \in 1..Len(copies') : Writes(d, p)' => p = o
        BY <1>2 DEF OneWriter
    <2>1. ASSUME NEW p \in 1..Len(copies), Writes(d, p)' PROVE Writes(d, p)
        BY <1>1, <1>2, <1>4, <1>8, <2>1, NoSaveIsQueued DEF Writes
    <2>2. CASE d = c
        <3>1. \A p \in 1..Len(copies') : copies'[p].chat = c => p = n
            BY <1>1, <1>2, <1>4, <1>5 DEF Owned
        <3> QED
            BY <1>6, <2>2, <3>1 DEF Writes
    <2>3. CASE d # c
        <3>1. \A p \in 1..Len(copies') : copies'[p].chat = d => p \in 1..Len(copies)
            BY <1>1, <1>2, <1>3, <1>4, <2>3
        <3>2. o \in 1..Len(copies) /\ Writes(d, o) /\ copies'[o] = copies[o]
            BY <1>4, <2>1, <3>1 DEF Writes
        <3>3. /\ store[d].said \subseteq copies[o].said
              /\ \A p \in 1..Len(copies) : Writes(d, p) => p = o
            BY <3>2 DEF HostInv, OneWriter
        <3>4. \A p \in 1..Len(copies') : Writes(d, p)' => p \in 1..Len(copies) /\ Writes(d, p)
            BY <2>1, <3>1 DEF Writes
        <3> QED
            BY <3>2, <3>3, <3>4
    <2> QED
        BY <2>2, <2>3
<1>14. RenamesLast'
    <2>1. \A o \in 1..Len(copies') : \A d \in Chats \ rivals : copies'[o].chat = d /\ Owned(d) =>
               o \in 1..Len(copies) /\ copies[o].chat = d
               /\ (copies'[o].busy => copies[o].busy) /\ (current' = o => current = o)
        BY <1>1, <1>2, <1>3, <1>4, <1>5
    <2> QED
        BY <1>2, <1>8, <2>1, NoSaveBeforeRenames
<1>15. DeletedStaysGone'
    BY <1>2, <1>3, <1>4, <1>5 DEF HostInv, DeletedStaysGone
<1> QED
    BY <1>9, <1>10, <1>11, <1>12, <1>13, <1>14, <1>15 DEF HostInv
-----------------------------------------------------------------------------
(* The steps of a queue.                                                   *)

LEMMA FirstStep ==
    ASSUME HostInv, NEW c \in Chats, queue[c] # <<>>
    PROVE  /\ 1 \in 1..Len(queue[c]) /\ First(c) = queue[c][1] /\ First(c) \in QueueStep
           /\ AskedRight(c, First(c))
           /\ UnderWay(c) => CalledRight(c, First(c)) /\ First(c).call \in Record
<1>1. queue[c] \in Seq(QueueStep) /\ 1 \in 1..Len(queue[c]) /\ First(c) = queue[c][1]
    BY DEF HostInv, Shape, First
<1>2. First(c) \in QueueStep
    BY <1>1
<1>3. First(c).call \in Record \cup {NotYet}
    BY <1>2 DEF QueueStep
<1> QED
    BY <1>1, <1>2, <1>3 DEF HostInv, StepsRight, UnderWay

(* The steps left are as they were, and not called yet.                    *)
LEMMA PopIsRight ==
    ASSUME HostInv, Shape', Grows, NEW c \in Chats, queue[c] # <<>>, Pop(c),
           \A d \in Chats : d # c => store'[d] = store[d], deleted' \subseteq deleted \cup {c}
    PROVE  StepsRight'
<1>1. \A i \in 1..Len(queue'[c]) : i + 1 \in 1..Len(queue[c]) /\ i + 1 # 1 /\ queue'[c][i] = queue[c][i + 1]
    BY PopTakes DEF HostInv
<1>2. ASSUME NEW i \in 1..Len(queue'[c])
      PROVE  \E s : s = queue'[c][i] /\ s.call = NotYet /\ AskedRight(c, s)'
    <2>1. PICK s : s = queue[c][i + 1]
        OBVIOUS
    <2>2. AskedRight(c, s) /\ s.call = NotYet
        BY <1>1, <2>1 DEF HostInv, StepsRight
    <2> QED
        BY <1>1, <2>1, <2>2, AskedStays DEF HostInv
<1>3. \A d \in Chats : \A i \in 1..Len(queue'[d]) : \E s : s = queue'[d][i] /\
          \/ /\ i \in 1..Len(queue[d]) /\ Alike(s, queue[d][i])
             /\ store'[d] = store[d] /\ (d \in deleted' => d \in deleted)
          \/ s.call = NotYet /\ AskedRight(d, s)'
    BY <1>2, PopTakes DEF Alike, HostInv
<1> QED
    BY <1>3, StepsStay

LEMMA PopIsQueued ==
    ASSUME HostInv, NEW c \in Chats, queue[c] # <<>>, Pop(c), NEW d \in Chats, NEW o, Queued(d, o)'
    PROVE  Queued(d, o)
<1>1. PICK i \in 1..Len(queue'[d]) : queue'[d][i].op = "save" /\ queue'[d][i].copy = o
    BY DEF Queued
<1>2. CASE d = c
    <2>1. i + 1 \in 1..Len(queue[c]) /\ queue[c][i + 1] = queue'[c][i]
        BY <1>2, PopTakes DEF HostInv
    <2> QED
        BY <1>1, <1>2, <2>1 DEF Queued
<1>3. CASE d # c
    BY <1>1, <1>3, PopTakes DEF Queued, HostInv
<1> QED
    BY <1>2, <1>3

LEMMA PopBeforeRenames ==
    ASSUME HostInv, NEW c \in Chats, queue[c] # <<>>, Pop(c), UNCHANGED copies,
           rivals \subseteq rivals', current' \in {current, None}
    PROVE  RenamesLast'
<1> SUFFICES ASSUME NEW d \in Chats \ rivals, NEW i \in 1..Len(queue'[d]), queue'[d][i].op = "rename"
             PROVE  /\ \A j \in 1..Len(queue'[d]) : j > i => queue'[d][j].op # "save"
                    /\ \A o \in 1..Len(copies) : copies[o].chat = d => current' # o /\ ~copies[o].busy
    BY DEF RenamesLast
<1>1. CASE d # c
    <2>1. queue'[d] = queue[d]
        BY <1>1, PopTakes DEF HostInv
    <2> QED
        BY <2>1 DEF HostInv, RenamesLast, None
<1>2. CASE d = c
    <2>1. \A j \in 1..Len(queue'[c]) : j + 1 \in 1..Len(queue[c]) /\ queue'[c][j] = queue[c][j + 1]
        BY PopTakes DEF HostInv
    <2>2. i + 1 \in 1..Len(queue[c]) /\ queue[c][i + 1].op = "rename"
        BY <1>2, <2>1
    <2>3. /\ \A j \in 1..Len(queue[c]) : j > i + 1 => queue[c][j].op # "save"
          /\ \A o \in 1..Len(copies) : copies[o].chat = c => current # o /\ ~copies[o].busy
        BY <1>2, <2>2 DEF HostInv, RenamesLast
    <2>4. \A j \in 1..Len(queue'[c]) : j > i => queue'[c][j].op # "save"
        BY <1>2, <2>1, <2>3
    <2> QED
        BY <1>2, <2>3, <2>4 DEF None
<1> QED
    BY <1>1, <1>2

(* A step that is through, whatever it left in the store.                  *)
LEMMA PopKeeps ==
    ASSUME HostInv, NEW c \in Chats, queue[c] # <<>>, Pop(c),
           UNCHANGED <<copies, listing, told, rivals>>, current' \in {current, None},
           NEW r \in Record, store' = [store EXCEPT ![c] = r],
           r.said \subseteq told[c], r = NoRecord \/ Owned(c),
           c \notin rivals => \A o \in 1..Len(copies) : Writes(c, o)' =>
               r.said \subseteq store[c].said \/ r.said \subseteq copies[o].said,
           deleted' \in {deleted, deleted \cup {c}},
           list' \subseteq list \cup {c}, c \in list' => c \in list \/ Owned(c),
           c \in deleted' => ~r.there /\ c \notin list' /\ (current' = None \/ copies[current'].chat # c)
    PROVE  HostInv'
<1>1. store \in [Chats -> Record] /\ store'[c] = r /\ \A d \in Chats : d # c => store'[d] = store[d]
    BY DEF HostInv, Shape
<1>2. Shape' /\ Grows
    BY <1>1, PopTakes DEF HostInv, Shape, Grows, None
<1>3. Owners'
    BY <1>1 DEF HostInv, Owners, Owned
<1>4. StepsRight'
    BY <1>1, <1>2, PopIsRight
<1>5. OnlyTheSaid'
    BY <1>1 DEF HostInv, OnlyTheSaid
<1>6. OneWriter'
    <2>1. ASSUME NEW d \in Chats \ rivals', NEW o \in 1..Len(copies'), Writes(d, o)'
          PROVE  o \in 1..Len(copies) /\ Writes(d, o)
                 /\ (store'[d].said \subseteq store[d].said \/ store'[d].said \subseteq copies[o].said)
        <3>1. o \in 1..Len(copies) /\ Writes(d, o)
            BY <2>1, PopIsQueued DEF Writes, None
        <3> QED
            BY <1>1, <2>1, <3>1
    <2> QED
        BY <1>2, <2>1, WritersStay
<1>7. RenamesLast'
    BY PopBeforeRenames
<1>8. DeletedStaysGone'
    BY <1>1 DEF HostInv, DeletedStaysGone
<1> QED
    BY <1>2, <1>3, <1>4, <1>5, <1>6, <1>7, <1>8 DEF HostInv

LEMMA StepRefusedKeeps == ASSUME HostInv, NEW c \in Chats, StepRefused(c) PROVE HostInv'
<1>1. /\ queue[c] # <<>> /\ Pop(c) /\ c \in deleted
      /\ UNCHANGED <<copies, store, deleted, listing, told, rivals>>
      /\ list' \subseteq list /\ current' \in {current, None}
    BY DEF StepRefused, Waits, Refused, Leave
<1>2. store[c] \in Record /\ store' = [store EXCEPT ![c] = store[c]]
    BY <1>1 DEF HostInv, Shape
<1>3. store[c].said \subseteq told[c] /\ (store[c] = NoRecord \/ Owned(c))
    BY DEF HostInv, OnlyTheSaid, Owners
<1>4. ~store[c].there /\ c \notin list' /\ (current' = None \/ copies[current'].chat # c)
    BY <1>1 DEF HostInv, DeletedStaysGone
<1> QED
    BY <1>1, <1>2, <1>3, <1>4, PopKeeps

LEMMA NotFoundKeeps == ASSUME HostInv, NEW c \in Chats, NotFound(c) PROVE HostInv'
<1>1. /\ queue[c] # <<>> /\ Pop(c) /\ UnderWay(c)
      /\ UNCHANGED <<copies, current, store, deleted, list, listing, told, rivals>>
    BY DEF NotFound, UnderWay
<1>2. store[c] \in Record /\ store' = [store EXCEPT ![c] = store[c]]
    BY <1>1 DEF HostInv, Shape
<1>3. store[c].said \subseteq told[c] /\ (store[c] = NoRecord \/ Owned(c))
    BY DEF HostInv, OnlyTheSaid, Owners
<1>4. c \notin deleted
    BY <1>1, FirstStep DEF CalledRight
<1> QED
    BY <1>1, <1>2, <1>3, <1>4, PopKeeps

LEMMA DeleteDoneKeeps == ASSUME HostInv, NEW c \in Chats, DeleteDone(c) PROVE HostInv'
<1>1. /\ queue[c] # <<>> /\ Pop(c) /\ store' = [store EXCEPT ![c] = NoRecord]
      /\ deleted' = deleted \cup {c} /\ list' = list \ {c}
      /\ UNCHANGED <<copies, listing, told, rivals>>
      /\ current' \in {current, None} /\ (current' = None \/ copies[current'].chat # c)
    BY DEF DeleteDone, UnderWay, Leave
<1>2. NoRecord \in Record /\ NoRecord.said = {} /\ ~NoRecord.there
    BY NotYetIsNoRecord DEF NoRecord
<1> QED
    BY <1>1, <1>2, PopKeeps

(* What a save or a rename wrote, once it has been: whoever writes the     *)
(* chat next has it.                                                       *)
LEMMA WrittenIsHad ==
    ASSUME HostInv, NEW c \in Chats, UnderWay(c), Pop(c), First(c).op \in {"save", "rename", "load"},
           UNCHANGED <<copies, current>>, c \notin rivals, NEW o \in 1..Len(copies), Writes(c, o)'
    PROVE  First(c).call.said \subseteq store[c].said \/ First(c).call.said \subseteq copies[o].said
<1>1. /\ 1 \in 1..Len(queue[c]) /\ First(c) = queue[c][1] /\ queue[c] # <<>>
      /\ AskedRight(c, First(c)) /\ CalledRight(c, First(c))
    BY FirstStep DEF UnderWay
<1>2. CASE First(c).op = "save"
    <2>1. Writes(c, o)
        BY <1>1, PopIsQueued DEF Writes
    <2>2. First(c).copy \in 1..Len(copies) /\ Writes(c, First(c).copy)
        BY <1>1, <1>2 DEF AskedRight, Writes, Queued
    <2>3. First(c).copy = o
        BY <2>1, <2>2 DEF HostInv, OneWriter
    <2> QED
        BY <1>1, <1>2, <2>3 DEF CalledRight
<1>3. CASE First(c).op = "rename"
    <2>1. /\ \A j \in 1..Len(queue[c]) : j > 1 => queue[c][j].op # "save"
          /\ \A p \in 1..Len(copies) : copies[p].chat = c => current # p /\ ~copies[p].busy
        BY <1>1, <1>3 DEF HostInv, RenamesLast
    <2>2. \A i \in 1..Len(queue'[c]) : i + 1 \in 1..Len(queue[c]) /\ i + 1 > 1 /\ queue'[c][i] = queue[c][i + 1]
        BY <1>1, PopTakes DEF HostInv
    <2>3. ~Queued(c, o)'
        BY <2>1, <2>2 DEF Queued
    <2> QED
        BY <2>1, <2>3 DEF Writes
<1>4. CASE First(c).op = "load"
    BY <1>1, <1>4 DEF CalledRight
<1> QED
    BY <1>2, <1>3, <1>4

LEMMA SaveDoneKeeps == ASSUME HostInv, NEW c \in Chats, SaveDone(c) PROVE HostInv'
<1> DEFINE s == First(c)
<1>1. /\ UnderWay(c) /\ queue[c] # <<>> /\ s.op \in {"save", "rename"} /\ Pop(c)
      /\ store' = [store EXCEPT ![c] = s.call] /\ (IF s.listed THEN Touch(c) ELSE UNCHANGED list)
      /\ UNCHANGED <<copies, current, deleted, listing, told, rivals>>
    BY DEF SaveDone, UnderWay
<1>2. AskedRight(c, s) /\ CalledRight(c, s) /\ s.call \in Record
    BY <1>1, FirstStep
<1>3. list' \subseteq list \cup {c} /\ (c \in list' => c \in list \/ Owned(c))
    BY <1>1, <1>2 DEF Touch, AskedRight
<1>4. c \notin deleted /\ s.call.said \subseteq told[c] /\ (s.call = NoRecord \/ Owned(c))
    BY <1>1, <1>2 DEF CalledRight
<1>5. c \notin rivals => \A o \in 1..Len(copies) : Writes(c, o)' =>
          s.call.said \subseteq store[c].said \/ s.call.said \subseteq copies[o].said
    BY <1>1, WrittenIsHad
<1> HIDE DEF s
<1> QED
    BY <1>1, <1>2, <1>3, <1>4, <1>5, PopKeeps

LEMMA StepFailsKeeps == ASSUME HostInv, NEW c \in Chats, StepFails(c) PROVE HostInv'
<1> DEFINE s == First(c)
<1>1. /\ UnderWay(c) /\ queue[c] # <<>> /\ Pop(c)
      /\ store' \in {store, [store EXCEPT ![c] = IF s.op = "delete" THEN NoRecord ELSE s.call]}
      /\ list' = IF s.op = "delete" /\ s.listed /\ deleting[c] = 1 THEN list \cup {c} ELSE list
      /\ UNCHANGED <<copies, current, deleted, listing, told, rivals>>
    BY DEF StepFails, UnderWay
<1>2. AskedRight(c, s) /\ CalledRight(c, s) /\ s.call \in Record /\ s \in QueueStep
    BY <1>1, FirstStep
<1>3. c \notin deleted
    BY <1>2 DEF CalledRight
<1>4. PICK r : /\ r \in {store[c], IF s.op = "delete" THEN NoRecord ELSE s.call}
               /\ store' = [store EXCEPT ![c] = r]
    BY <1>1 DEF HostInv, Shape
<1>5. r \in Record /\ r.said \subseteq told[c] /\ (r = NoRecord \/ Owned(c))
    <2>1. CASE r = store[c]
        BY <2>1 DEF HostInv, Shape, OnlyTheSaid, Owners
    <2>2. CASE r = NoRecord
        BY <2>2, NotYetIsNoRecord DEF NoRecord
    <2>3. CASE s.op # "delete" /\ r = s.call
        BY <1>2, <2>3 DEF CalledRight
    <2> QED
        BY <1>4, <2>1, <2>2, <2>3
<1>6. c \notin rivals => \A o \in 1..Len(copies) : Writes(c, o)' =>
          r.said \subseteq store[c].said \/ r.said \subseteq copies[o].said
    <2>1. s.op # "delete" => s.op \in {"save", "rename", "load"}
        BY <1>2 DEF QueueStep, Ops
    <2>2. CASE s.op # "delete" /\ r = s.call
        BY <1>1, <2>1, <2>2, WrittenIsHad
    <2>3. CASE r = store[c] \/ r = NoRecord
        BY <2>3 DEF NoRecord
    <2> QED
        BY <1>4, <2>2, <2>3
<1>7. list' \subseteq list \cup {c} /\ (c \in list' => c \in list \/ Owned(c))
    BY <1>1, <1>2 DEF AskedRight
<1> HIDE DEF s
<1> QED
    BY <1>1, <1>3, <1>4, <1>5, <1>6, <1>7, PopKeeps

(* A call as it is made: a save has what its copy has, a rename what is on *)
(* record and its title.                                                   *)
LEMMA CallIsRight ==
    ASSUME HostInv, NEW c \in Chats, queue[c] # <<>>, c \notin deleted
    PROVE  /\ Call(c) \in Record
           /\ Call(c) = NoRecord \/ Owned(c)
           /\ Call(c).said \subseteq told[c]
           /\ c \notin rivals => store[c].said \subseteq Call(c).said
           /\ First(c).op = "save" => Call(c).said \subseteq copies[First(c).copy].said
           /\ First(c).op = "load" => Call(c) = store[c]
<1>1. /\ 1 \in 1..Len(queue[c]) /\ First(c) = queue[c][1] /\ AskedRight(c, First(c))
      /\ First(c) \in QueueStep
    BY FirstStep
<1>2. /\ store[c] \in Record /\ store[c].said \subseteq told[c] /\ (store[c] = NoRecord \/ Owned(c))
      /\ told[c] \subseteq Things /\ copies \in Seq(Copy)
    BY DEF HostInv, Shape, OnlyTheSaid, Owners
<1>3. CASE First(c).op = "save"
    <2>1. PICK o \in 1..Len(copies) : o = First(c).copy /\ copies[o].chat = c
        BY <1>1, <1>3 DEF AskedRight
    <2>2. Writes(c, o)
        BY <1>1, <1>3, <2>1 DEF Writes, Queued
    <2>3. copies[o] \in Copy /\ copies[o].said \subseteq told[c] /\ Owned(c)
        BY <1>2, <2>1 DEF HostInv, OnlyTheSaid, Owned
    <2>4. c \notin rivals => store[c].said \subseteq copies[o].said
        BY <2>2 DEF HostInv, OneWriter
    <2>5. Call(c) = [there |-> TRUE, said |-> copies[o].said]
        BY <1>3, <2>1 DEF Call, Built
    <2>6. copies[o].said \subseteq Things
        BY <2>3 DEF Copy
    <2>7. Call(c) \in Record /\ Call(c).said = copies[o].said
        BY <2>5, <2>6 DEF Record
    <2> QED
        BY <1>3, <2>1, <2>3, <2>4, <2>7
<1>4. CASE First(c).op = "rename" /\ store[c].there
    <2>1. First(c).thing \in told[c] /\ Owned(c)
        BY <1>1, <1>4 DEF AskedRight
    <2>2. Call(c) = [store[c] EXCEPT !.said = @ \cup {First(c).thing}]
        BY <1>4 DEF Call
    <2>3. Call(c) \in Record /\ Call(c).said = store[c].said \cup {First(c).thing}
        BY <1>2, <2>1, <2>2 DEF Record
    <2> QED
        BY <1>2, <1>4, <2>1, <2>3
<1>5. CASE First(c).op # "save" /\ ~(First(c).op = "rename" /\ store[c].there)
    <2>1. Call(c) = store[c]
        BY <1>5 DEF Call
    <2> QED
        BY <1>2, <1>5, <2>1
<1> QED
    BY <1>3, <1>4, <1>5

LEMMA StepStartsKeeps == ASSUME HostInv, NEW c \in Chats, StepStarts(c) PROVE HostInv'
<1>1. /\ queue[c] # <<>> /\ c \notin deleted
      /\ UNCHANGED <<copies, current, store, deleted, list, listing, told, rivals>>
    BY DEF StepStarts, Waits, Refused
<1>2. /\ 1 \in 1..Len(queue[c]) /\ First(c) = queue[c][1] /\ AskedRight(c, First(c))
      /\ First(c) \in QueueStep /\ queue[c] \in Seq(QueueStep) /\ queue \in [Chats -> Seq(QueueStep)]
    BY <1>1, FirstStep DEF HostInv, Shape
<1>3. PICK s : s = [First(c) EXCEPT !.call = Call(c)]
    OBVIOUS
<1>4. s \in QueueStep /\ s.op = First(c).op /\ s.copy = First(c).copy /\ s.thing = First(c).thing
      /\ s.listed = First(c).listed /\ s.call = Call(c)
    <2>1. Call(c) \in Record
        BY <1>1, CallIsRight
    <2> QED
        BY <1>2, <1>3, <2>1 DEF QueueStep
<1>5. queue' = [queue EXCEPT ![c] = [@ EXCEPT ![1] = s]]
    BY <1>2, <1>3 DEF StepStarts
<1>6. /\ queue'[c] \in Seq(QueueStep) /\ Len(queue'[c]) = Len(queue[c]) /\ queue'[c][1] = s
      /\ \A i \in 1..Len(queue[c]) : i # 1 => queue'[c][i] = queue[c][i]
    BY <1>2, <1>4, <1>5, ExceptSeq
<1>7. /\ queue' \in [Chats -> Seq(QueueStep)]
      /\ \A d \in Chats : d # c => queue'[d] = queue[d]
    BY <1>2, <1>5, <1>6
<1>8. \A d \in Chats : /\ Len(queue'[d]) = Len(queue[d])
                       /\ \A i \in 1..Len(queue[d]) :
                              /\ queue'[d][i].op = queue[d][i].op /\ queue'[d][i].copy = queue[d][i].copy
                              /\ queue'[d][i].thing = queue[d][i].thing
                              /\ queue'[d][i].listed = queue[d][i].listed
                              /\ ~(d = c /\ i = 1) => queue'[d][i] = queue[d][i]
    BY <1>2, <1>4, <1>6, <1>7
<1>9. Shape' /\ Grows
    BY <1>1, <1>7 DEF HostInv, Shape, Grows
<1>10. Owners' /\ OnlyTheSaid' /\ DeletedStaysGone'
    BY <1>1 DEF HostInv, Owners, Owned, OnlyTheSaid, DeletedStaysGone
<1>11. StepsRight'
    <2> SUFFICES ASSUME NEW d \in Chats, NEW i \in 1..Len(queue'[d])
                 PROVE  \E t : t = queue'[d][i] /\ AskedRight(d, t)'
                               /\ (t.call # NotYet => i = 1 /\ CalledRight(d, t)')
        BY DEF StepsRight
    <2>1. PICK t : t = queue'[d][i]
        OBVIOUS
    <2>2. i \in 1..Len(queue[d]) /\ AskedRight(d, t)
        BY <1>8, <2>1 DEF HostInv, StepsRight, AskedRight
    <2>3. t.call # NotYet => i = 1 /\ CalledRight(d, t)
        <3>1. CASE d = c /\ i = 1
            <4>1. CalledRight(c, s)
                BY <1>1, <1>4, CallIsRight DEF CalledRight
            <4> QED
                BY <1>6, <2>1, <3>1, <4>1
        <3>2. CASE ~(d = c /\ i = 1)
            BY <1>8, <2>1, <2>2, <3>2 DEF HostInv, StepsRight
        <3> QED
            BY <3>1, <3>2
    <2>4. AskedRight(d, t)' /\ (CalledRight(d, t) => CalledRight(d, t)')
        BY <1>1, <1>9, <2>2, AskedStays, CalledStays DEF HostInv, CalledRight
    <2> QED
        BY <2>1, <2>3, <2>4
<1>12. OneWriter'
    <2>1. \A d \in Chats : \A o : Queued(d, o)' => Queued(d, o)
        BY <1>8 DEF Queued
    <2>2. ASSUME NEW d \in Chats \ rivals', NEW o \in 1..Len(copies'), Writes(d, o)'
          PROVE  o \in 1..Len(copies) /\ Writes(d, o) /\ store'[d].said \subseteq store[d].said
        BY <1>1, <2>1, <2>2 DEF Writes
    <2> QED
        BY <1>9, <2>2, WritersStay
<1>13. RenamesLast'
    BY <1>1, <1>8 DEF HostInv, RenamesLast
<1> QED
    BY <1>9, <1>10, <1>11, <1>12, <1>13 DEF HostInv

(* A chat as it was read becomes the open one.  Who else writes it, now or *)
(* from its queue, is its rival; the copies of other chats write no more   *)
(* than before.                                                            *)
LEMMA OpensWhatItRead ==
    ASSUME HostInv, NEW c \in Chats, LoadDone(c), StillWanted(First(c))
    PROVE  HostInv'
<1>1. PICK n, new : n = Len(copies) + 1 /\ new = [chat |-> c, said |-> First(c).call.said, busy |-> FALSE]
    OBVIOUS
<1>2. /\ UnderWay(c) /\ queue[c] # <<>> /\ First(c).op = "load" /\ Pop(c)
      /\ copies' = Append(copies, new) /\ current' = n
      /\ rivals' = IF Busy(c) \/ \E i \in 2..Len(queue[c]) : queue[c][i].op \in {"save", "rename"}
                   THEN rivals \cup {c} ELSE rivals
      /\ UNCHANGED <<store, deleted, list, listing, told>>
    BY <1>1 DEF LoadDone, UnderWay
<1>3. copies \in Seq(Copy) /\ Len(copies) \in Nat /\ current \in 0..Len(copies) /\ told \in [Chats -> SUBSET Things]
    BY DEF HostInv, Shape
<1>4. CalledRight(c, First(c)) /\ First(c).call = store[c] /\ c \notin deleted
    BY <1>2, FirstStep DEF CalledRight
<1>5. new \in Copy /\ new.chat = c /\ new.said = store[c].said /\ new.busy = FALSE
    <2>1. store[c].said \subseteq Things
        BY DEF HostInv, Shape, Record
    <2> QED
        BY <1>1, <1>4, <2>1 DEF Copy
<1>6. /\ copies' \in Seq(Copy) /\ Len(copies') = n /\ copies'[n] = new
      /\ \A o \in 1..Len(copies) : copies'[o] = copies[o]
    BY <1>1, <1>2, <1>3, <1>5
<1>7. Grows
    BY <1>1, <1>2, <1>3, <1>6 DEF Grows
<1>8. Shape'
    BY <1>1, <1>2, <1>3, <1>6, PopTakes DEF HostInv, Shape
<1>9. Owners'
    BY <1>2, <1>7, <1>8, OwnedStays DEF HostInv, Owners
<1>10. StepsRight'
    BY <1>2, <1>7, <1>8, PopIsRight
<1>11. OnlyTheSaid'
    BY <1>1, <1>2, <1>3, <1>5, <1>6 DEF HostInv, OnlyTheSaid
<1>12. c \notin rivals' =>
           /\ \A i \in 1..Len(queue'[c]) : queue'[c][i].op \notin {"save", "rename"}
           /\ \A o \in 1..Len(copies) : copies[o].chat = c => ~copies[o].busy
    <2>1. \A i \in 1..Len(queue'[c]) : i + 1 \in 2..Len(queue[c]) /\ queue'[c][i] = queue[c][i + 1]
        BY <1>2, PopTakes DEF HostInv
    <2> QED
        BY <1>2, <2>1 DEF Busy
<1>13. \A d \in Chats : d # c => queue'[d] = queue[d] /\ (d \notin rivals' => d \notin rivals)
    BY <1>2, PopTakes DEF HostInv
<1>14. OneWriter'
    <2> SUFFICES ASSUME NEW d \in Chats \ rivals', NEW o \in 1..Len(copies'), Writes(d, o)'
                 PROVE  /\ store[d].said \subseteq copies'[o].said
                        /\ \A p \in 1..Len(copies') : Writes(d, p)' => p = o
        BY <1>2 DEF OneWriter
    <2>1. CASE d = c
        <3>1. ASSUME NEW p \in 1..Len(copies'), Writes(c, p)' PROVE p = n
            <4>1. ~Queued(c, p)'
                BY <1>12, <2>1 DEF Queued
            <4> QED
                BY <1>1, <1>2, <1>3, <1>6, <1>12, <2>1, <3>1, <4>1 DEF Writes
        <3>2. o = n
            BY <2>1, <3>1
        <3> QED
            BY <1>5, <1>6, <2>1, <3>1, <3>2
    <2>2. CASE d # c
        <3>1. ASSUME NEW p \in 1..Len(copies'), Writes(d, p)' PROVE p \in 1..Len(copies) /\ Writes(d, p)
            <4>1. p \in 1..Len(copies) /\ copies'[p] = copies[p]
                BY <1>1, <1>3, <1>5, <1>6, <2>2, <3>1 DEF Writes
            <4>2. Queued(d, p)' => Queued(d, p)
                BY <1>13, <2>2 DEF Queued
            <4> QED
                BY <1>1, <1>2, <1>3, <3>1, <4>1, <4>2 DEF Writes
        <3>2. d \in Chats \ rivals /\ o \in 1..Len(copies) /\ Writes(d, o) /\ copies'[o] = copies[o]
            BY <1>6, <1>13, <2>2, <3>1
        <3>3. /\ store[d].said \subseteq copies[o].said
              /\ \A p \in 1..Len(copies) : Writes(d, p) => p = o
            BY <3>2 DEF HostInv, OneWriter
        <3> QED
            BY <3>1, <3>2, <3>3
    <2> QED
        BY <2>1, <2>2
<1>15. RenamesLast'
    <2> SUFFICES ASSUME NEW d \in Chats \ rivals', NEW i \in 1..Len(queue'[d]), queue'[d][i].op = "rename"
                 PROVE  /\ \A j \in 1..Len(queue'[d]) : j > i => queue'[d][j].op # "save"
                        /\ \A o \in 1..Len(copies') : copies'[o].chat = d => current' # o /\ ~copies'[o].busy
        BY DEF RenamesLast
    <2>1. d # c /\ d \notin rivals /\ queue'[d] = queue[d]
        BY <1>12, <1>13
    <2>2. /\ \A j \in 1..Len(queue[d]) : j > i => queue[d][j].op # "save"
          /\ \A o \in 1..Len(copies) : copies[o].chat = d => current # o /\ ~copies[o].busy
        BY <2>1 DEF HostInv, RenamesLast
    <2>3. \A o \in 1..Len(copies') : copies'[o].chat = d => o \in 1..Len(copies) /\ o # n /\ copies'[o] = copies[o]
        BY <1>1, <1>3, <1>5, <1>6, <2>1
    <2> QED
        BY <1>2, <2>1, <2>2, <2>3
<1>16. DeletedStaysGone'
    BY <1>2, <1>4, <1>5, <1>6 DEF HostInv, DeletedStaysGone
<1> QED
    BY <1>8, <1>9, <1>10, <1>11, <1>14, <1>15, <1>16 DEF HostInv

LEMMA LoadDoneKeeps == ASSUME HostInv, NEW c \in Chats, LoadDone(c) PROVE HostInv'
<1>1. CASE StillWanted(First(c))
    BY <1>1, OpensWhatItRead
<1>2. CASE ~StillWanted(First(c))
    <2>1. /\ queue[c] # <<>> /\ Pop(c) /\ UnderWay(c)
          /\ UNCHANGED <<copies, current, store, deleted, list, listing, told, rivals>>
        BY <1>2 DEF LoadDone, UnderWay
    <2>2. store[c] \in Record /\ store' = [store EXCEPT ![c] = store[c]]
        BY <2>1 DEF HostInv, Shape
    <2>3. store[c].said \subseteq told[c] /\ (store[c] = NoRecord \/ Owned(c))
        BY DEF HostInv, OnlyTheSaid, Owners
    <2>4. c \notin deleted
        BY <2>1, FirstStep DEF CalledRight
    <2> QED
        BY <2>1, <2>2, <2>3, <2>4, PopKeeps
<1> QED
    BY <1>1, <1>2

-----------------------------------------------------------------------------
(* The host's list.                                                        *)

LEMMA SameQueueAsksNoSave ==
    ASSUME HostInv, UNCHANGED queue
    PROVE  AsksNoSave /\ queue' \in [Chats -> Seq(QueueStep)]
BY DEF AsksNoSave, Alike, HostInv, Shape

LEMMA RefreshListKeeps == ASSUME HostInv, RefreshList PROVE HostInv'
<1>1. \A c \in Chats : store[c].there => Owned(c)
    BY DEF HostInv, Owners, NoRecord
<1> QED
    BY <1>1, SameQueueAsksNoSave, NoSaveKeeps DEF RefreshList

LEMMA ListArrivesKeeps == ASSUME HostInv, ListArrives PROVE HostInv'
<1>1. \A c \in list' : Owned(c) /\ (c \in list \/ c \notin deleted)
    BY DEF ListArrives, Listed, Gone, HostInv, Owners
<1> QED
    BY <1>1, SameQueueAsksNoSave, NoSaveKeeps DEF ListArrives

LEMMA HostStep == HostInv /\ [Next]_vars => HostInv'
<1> SUFFICES ASSUME HostInv, [Next]_vars PROVE HostInv'
    OBVIOUS
<1>1. CASE Send \/ RefreshList \/ ListArrives
    BY <1>1, SendKeeps, RefreshListKeeps, ListArrivesKeeps
<1>2. ASSUME NEW c \in Chats, StartNew(c) \/ Rename(c) \/ Open(c) \/ RemoveChat(c) PROVE HostInv'
    BY <1>2, StartNewKeeps, RenameKeeps, OpenKeeps, RemoveChatKeeps
<1>3. ASSUME NEW c \in Chats, StepStarts(c) \/ StepRefused(c) \/ SaveDone(c) \/ LoadDone(c) PROVE HostInv'
    BY <1>3, StepStartsKeeps, StepRefusedKeeps, SaveDoneKeeps, LoadDoneKeeps
<1>4. ASSUME NEW c \in Chats, NotFound(c) \/ DeleteDone(c) \/ StepFails(c) PROVE HostInv'
    BY <1>4, NotFoundKeeps, DeleteDoneKeeps, StepFailsKeeps
<1>5. ASSUME NEW o \in 1..Len(copies), CompleteTurn(o) PROVE HostInv'
    BY <1>5, CompleteTurnKeeps
<1>6. CASE UNCHANGED vars
    BY <1>6, SameQueueAsksNoSave, NoSaveKeeps DEF vars, HostInv, Owners
<1> QED
    BY <1>1, <1>2, <1>3, <1>4, <1>5, <1>6 DEF Next

LEMMA HostInvariant == Spec => []HostInv
BY InitHost, HostStep, PTL DEF Spec

(* A deleted chat is not in the store, not listed and not open again,      *)
(* whatever was queued behind its delete, on its way, or read before it    *)
(* (#deleted, #queue and refreshList of host-store.ts).                    *)
THEOREM DeletedStays == Spec => []DeletedStaysGone
<1>1. HostInv => DeletedStaysGone
    BY DEF HostInv
<1> QED
    BY <1>1, HostInvariant, PTL
-----------------------------------------------------------------------------
(***************************************************************************)
(* The host's store implements ChatKeeper: each step of it says something, *)
(* writes a record, deletes one, or is nothing to the keeper.              *)
(***************************************************************************)

Kept == [c \in Chats |-> store[c].said]

LEMMA InitKeeps == Init => Keeper!Init
<1> SUFFICES ASSUME Init PROVE Keeper!Init
    OBVIOUS
<1>1. /\ told = [c \in Chats |-> {}] /\ deleted = {} /\ rivals = {}
      /\ store = [c \in Chats |-> NoRecord]
    BY DEF Init
<1>2. Kept = told
    BY <1>1 DEF Kept, NoRecord
<1>3. told \in [Chats -> SUBSET {}]
    BY <1>1
<1> QED
    BY <1>1, <1>2, <1>3 DEF Keeper!Init, Kept

(* Nothing to the keeper but that a chat may have rivals.                  *)
LEMMA NothingToKeep ==
    ASSUME UNCHANGED <<told, store, deleted>>, rivals \subseteq rivals'
    PROVE  Keeper!Next
<1>1. UNCHANGED <<told, Kept, deleted>>
    BY DEF Kept
<1> QED
    BY <1>1 DEF Keeper!Next, Kept

LEMMA SaysToKeeper ==
    ASSUME Shape, NEW c \in Chats, NEW n, ToldAbout(c, n), UNCHANGED <<store, deleted>>, rivals \subseteq rivals'
    PROVE  Keeper!Next
<1>1. told[c] \subseteq told'[c] /\ \A d \in Chats \ {c} : told'[d] = told[d]
    BY DEF Shape, ToldAbout
<1>2. UNCHANGED <<Kept, deleted>>
    BY DEF Kept
<1>3. Keeper!Say(c)
    BY <1>1, <1>2 DEF Keeper!Say, Kept
<1> QED
    BY <1>3 DEF Keeper!Next

(* A call under way writes what was said, and all that is on record.       *)
LEMMA WritesToKeeper ==
    ASSUME HostInv, NEW c \in Chats, UnderWay(c), First(c).op # "delete",
           store' \in {store, [store EXCEPT ![c] = First(c).call]}, UNCHANGED <<told, deleted, rivals>>
    PROVE  Keeper!Next
<1>1. CASE store' = store
    BY <1>1, NothingToKeep
<1>2. CASE store' = [store EXCEPT ![c] = First(c).call]
    <2>1. CalledRight(c, First(c))
        BY FirstStep DEF UnderWay
    <2>2. store'[c] = First(c).call /\ \A d \in Chats : d # c => store'[d] = store[d]
        BY <1>2 DEF HostInv, Shape
    <2>3. Kept' = [Kept EXCEPT ![c] = Kept'[c]]
        BY <2>2 DEF Kept
    <2>4. Kept'[c] \subseteq told[c] /\ (c \notin rivals => Kept[c] \subseteq Kept'[c]) /\ c \notin deleted
        BY <2>1, <2>2 DEF Kept, CalledRight
    <2>5. Keeper!Write(c)
        BY <2>3, <2>4 DEF Keeper!Write, Kept
    <2> QED
        BY <2>5 DEF Keeper!Next
<1> QED
    BY <1>1, <1>2

LEMMA DeletesForKeeper ==
    ASSUME HostInv, NEW c \in Chats, store' = [store EXCEPT ![c] = NoRecord],
           deleted' \in {deleted, deleted \cup {c}}, UNCHANGED <<told, rivals>>
    PROVE  Keeper!Next
<1>1. store'[c].said = {} /\ \A d \in Chats : d # c => store'[d] = store[d]
    BY DEF HostInv, Shape, NoRecord
<1>2. Kept' = [Kept EXCEPT ![c] = {}]
    <2>1. Kept'[c] = {} /\ \A d \in Chats : d # c => Kept'[d] = Kept[d]
        BY <1>1 DEF Kept
    <2> QED
        BY <2>1 DEF Kept
<1>3. Keeper!Delete(c)
    BY <1>2 DEF Keeper!Delete, Kept
<1> QED
    BY <1>3 DEF Keeper!Next

LEMMA StepKeeps == HostInv /\ [Next]_vars => [Keeper!Next]_Keeper!vars
<1> SUFFICES ASSUME HostInv, [Next]_vars PROVE Keeper!Next
    OBVIOUS
<1>1. CASE Send
    <2>1. current \in 1..Len(copies)
        BY <1>1 DEF Send, None, HostInv, Shape
    <2>2. copies[current].chat \in Chats
        BY <2>1, ChatOfCopy DEF HostInv
    <2> QED
        BY <1>1, <2>2, SaysToKeeper DEF Send, HostInv
<1>2. ASSUME NEW o \in 1..Len(copies), CompleteTurn(o) PROVE Keeper!Next
    <2>1. copies[o].chat \in Chats
        BY ChatOfCopy DEF HostInv
    <2> QED
        BY <1>2, <2>1, SaysToKeeper DEF CompleteTurn, HostInv
<1>3. ASSUME NEW c \in Chats, Rename(c) PROVE Keeper!Next
    <2>1. ToldAbout(c, NextThing) /\ UNCHANGED <<store, deleted>> /\ rivals \subseteq rivals'
        BY <1>3 DEF Rename
    <2> QED
        BY <2>1, SaysToKeeper DEF HostInv
<1>4. ASSUME NEW c \in Chats, StartNew(c) \/ Open(c) \/ RemoveChat(c) \/ StepStarts(c) \/ StepRefused(c)
                              \/ LoadDone(c) \/ NotFound(c)
      PROVE  Keeper!Next
    <2>1. UNCHANGED <<told, store, deleted>> /\ rivals \subseteq rivals'
        BY <1>4 DEF StartNew, Open, RemoveChat, StepStarts, StepRefused, LoadDone, NotFound
    <2> QED
        BY <2>1, NothingToKeep
<1>5. ASSUME NEW c \in Chats, SaveDone(c) PROVE Keeper!Next
    BY <1>5, WritesToKeeper DEF SaveDone
<1>6. ASSUME NEW c \in Chats, DeleteDone(c) PROVE Keeper!Next
    BY <1>6, DeletesForKeeper DEF DeleteDone
<1>7. ASSUME NEW c \in Chats, StepFails(c) PROVE Keeper!Next
    <2>1. /\ UnderWay(c) /\ UNCHANGED <<told, deleted, rivals>>
          /\ store' \in {store, [store EXCEPT ![c] = IF First(c).op = "delete" THEN NoRecord
                                                     ELSE First(c).call]}
        BY <1>7 DEF StepFails
    <2>2. CASE First(c).op # "delete"
        BY <2>1, <2>2, WritesToKeeper
    <2>3. CASE First(c).op = "delete"
        BY <2>1, <2>3, DeletesForKeeper, NothingToKeep
    <2> QED
        BY <2>2, <2>3
<1>8. CASE RefreshList \/ ListArrives \/ UNCHANGED vars
    BY <1>8, NothingToKeep DEF RefreshList, ListArrives, vars
<1> QED
    BY <1>1, <1>2, <1>3, <1>4, <1>5, <1>6, <1>7, <1>8 DEF Next

(* The host's store keeps what ChatKeeper promises of any store: a record  *)
(* holds what was said, a write takes nothing from it but where two copies *)
(* of a chat are written side by side, and no chat the page was told is    *)
(* gone is written again (HostThreadStore of host-store.ts).               *)
THEOREM HostImplementsKeeper == Spec => KeepsChats
BY InitKeeps, StepKeeps, HostInvariant, PTL DEF Spec, KeepsChats, Keeper!Spec

(***************************************************************************)
(* What the viewer relies on                                               *)
(***************************************************************************)

(* A save of a copy is asked for or under way: one that has all of it.     *)
SaveOf(s, o) == s.op = "save" /\ s.copy = o
Saving(c, o) ==
    \E i \in 1..Len(queue[c]) : SaveOf(queue[c][i], o)
        /\ (queue[c][i].call = NotYet \/ copies[o].said \subseteq queue[c][i].call.said)
Called(c, o) == \E i \in 1..Len(queue[c]) : SaveOf(queue[c][i], o) /\ queue[c][i].call # NotYet

(* What a copy has is on record, or will be: by its reply's end, or by a   *)
(* save that comes.  A save under way that has less is followed by one.    *)
Fresh(o) ==
    copies[o].chat \notin rivals \cup deleted =>
        /\ \/ o \in unsaved \/ copies[o].busy \/ Saving(copies[o].chat, o)
           \/ copies[o].said \subseteq store[copies[o].chat].said
        /\ Called(copies[o].chat, o) => copies[o].busy \/ Saving(copies[o].chat, o)

AllFresh == \A o \in 1..Len(copies) : Fresh(o)

(* A step that changes nothing of a copy and takes nothing from its chat's *)
(* record, and keeps its saves.                                            *)
LEMMA FreshStays ==
    ASSUME AllFresh, NEW c \in Chats, NEW o \in 1..Len(copies), c = copies[o].chat, copies'[o] = copies[o],
           rivals \subseteq rivals', deleted \subseteq deleted',
           c \notin rivals' \cup deleted' =>
               /\ o \in unsaved => o \in unsaved'
               /\ Saving(c, o) => Saving(c, o)'
               /\ Called(c, o)' => Called(c, o)
               /\ store[c].said \subseteq store'[c].said
    PROVE  Fresh(o)'
<1> SUFFICES ASSUME c \notin rivals' \cup deleted'
             PROVE  /\ o \in unsaved' \/ copies[o].busy \/ Saving(c, o)' \/ copies[o].said \subseteq store'[c].said
                    /\ Called(c, o)' => copies[o].busy \/ Saving(c, o)'
    BY DEF Fresh
<1>1. /\ o \in unsaved \/ copies[o].busy \/ Saving(c, o) \/ copies[o].said \subseteq store[c].said
      /\ Called(c, o) => copies[o].busy \/ Saving(c, o)
    BY DEF AllFresh, Fresh
<1> QED
    BY <1>1

LEMMA InitFresh == Init => AllFresh
BY DEF Init, AllFresh

(* At most one step is added: what was asked for is, and nothing called.   *)
LEMMA AddedStaysSaving ==
    ASSUME Shape, NEW c \in Chats, NEW s \in QueueStep, Adds(c, s), s.call = NotYet,
           NEW d \in Chats, NEW o, copies'[o].said = copies[o].said
    PROVE  (Saving(d, o) => Saving(d, o)') /\ (Called(d, o)' => Called(d, o))
<1>1. \A i \in 1..Len(queue[d]) : i \in 1..Len(queue'[d]) /\ queue'[d][i] = queue[d][i]
    <2>0. \A e \in Chats : Len(queue[e]) \in Nat
        BY DEF Shape
    <2>1. CASE Enqueue(c, s)
        <3>1. CASE d = c
            BY <2>0, <2>1, <3>1, EnqueueAdds
        <3>2. CASE d # c
            BY <2>1, <3>2, EnqueueAdds
        <3> QED
            BY <3>1, <3>2
    <2>2. CASE UNCHANGED queue
        BY <2>2
    <2> QED
        BY <2>1, <2>2 DEF Adds
<1>2. ASSUME Saving(d, o) PROVE Saving(d, o)'
    BY <1>1, <1>2 DEF Saving
<1>3. \A i \in 1..Len(queue'[d]) : queue'[d][i].call # NotYet =>
          i \in 1..Len(queue[d]) /\ queue'[d][i] = queue[d][i]
    BY AddsOne
<1>4. ASSUME Called(d, o)' PROVE Called(d, o)
    BY <1>3, <1>4 DEF Called
<1> QED
    BY <1>2, <1>4

(* Something is said in a copy: it is busy, or a save of it is asked for.  *)
LEMMA SaysFresh ==
    ASSUME HostInv, AllFresh, NEW o \in 1..Len(copies), NEW c \in Chats, c = copies[o].chat,
           NEW n \in Things, NEW busy \in BOOLEAN, copies' = SaidIn(copies, o, n, busy),
           NEW s \in QueueStep, SaveOf(s, o), s.call = NotYet,
           Adds(c, s), Enqueue(c, s) \/ busy,
           UNCHANGED <<store, deleted, rivals, unsaved>>
    PROVE  AllFresh'
<1>1. /\ Len(copies') = Len(copies) /\ copies'[o].chat = c /\ copies'[o].busy = busy
      /\ \A p \in 1..Len(copies) : p # o => copies'[p] = copies[p]
    BY CopySays DEF HostInv, Shape
<1>2. Enqueue(c, s) => Saving(c, o)'
    <2> SUFFICES ASSUME Enqueue(c, s) PROVE Saving(c, o)'
        OBVIOUS
    <2>1. PICK i \in 1..Len(queue'[c]) : queue'[c][i] = s
        <3>1. Len(queue[c]) \in Nat /\ Len(queue'[c]) = Len(queue[c]) + 1 /\ queue'[c][Len(queue[c]) + 1] = s
            BY EnqueueAdds DEF HostInv, Shape
        <3>2. Len(queue[c]) + 1 \in 1..Len(queue'[c])
            BY <3>1
        <3> QED
            BY <3>1, <3>2
    <2> QED
        BY <2>1 DEF Saving
<1>3. Fresh(o)'
    BY <1>1, <1>2 DEF Fresh
<1>4. ASSUME NEW p \in 1..Len(copies), p # o PROVE Fresh(p)'
    <2>1. PICK d \in Chats : d = copies[p].chat
        BY ChatOfCopy DEF HostInv
    <2>2. (Saving(d, p) => Saving(d, p)') /\ (Called(d, p)' => Called(d, p))
        BY <1>1, <1>4, AddedStaysSaving DEF HostInv
    <2> QED
        BY <1>1, <1>4, <2>1, <2>2, FreshStays
<1> QED
    BY <1>1, <1>3, <1>4 DEF AllFresh

(* The page's other steps that change no copy.                             *)
LEMMA AddsFresh ==
    ASSUME HostInv, AllFresh, NEW c \in Chats, NEW s \in QueueStep, Adds(c, s), s.call = NotYet,
           UNCHANGED <<copies, store, deleted, unsaved>>, rivals \subseteq rivals'
    PROVE  AllFresh'
<1>1. ASSUME NEW p \in 1..Len(copies) PROVE Fresh(p)'
    <2>1. PICK d \in Chats : d = copies[p].chat
        BY ChatOfCopy DEF HostInv
    <2>2. (Saving(d, p) => Saving(d, p)') /\ (Called(d, p)' => Called(d, p))
        BY AddedStaysSaving DEF HostInv
    <2> QED
        BY <2>1, <2>2, FreshStays
<1> QED
    BY <1>1 DEF AllFresh

(* Loads that are superseded are no saves.                                 *)
LEMMA SupersededStaysSaving ==
    ASSUME HostInv, NEW c \in Chats, NEW s, s.call = NotYet,
           \/ queue' = Superseded(queue)
           \/ queue' = [Superseded(queue) EXCEPT ![c] = Append(@, s)],
           NEW d \in Chats, NEW o, copies'[o].said = copies[o].said
    PROVE  (Saving(d, o) => Saving(d, o)') /\ (Called(d, o)' => Called(d, o))
<1>1. PICK q : q = Superseded(queue)
    OBVIOUS
<1>2. /\ q \in [Chats -> Seq(QueueStep)] /\ Len(q[d]) \in Nat /\ Len(q[d]) = Len(queue[d])
      /\ \A i \in 1..Len(queue[d]) : Alike(q[d][i], queue[d][i])
    <2>1. q \in [Chats -> Seq(QueueStep)] /\ Len(q[d]) = Len(queue[d])
        BY <1>1, SupersededMarks DEF HostInv
    <2> QED
        BY <1>1, <2>1, SupersededAsksNoSave
<1>3. queue' = q \/ queue' = [q EXCEPT ![c] = Append(@, s)]
    BY <1>1
<1>4. queue'[d] = q[d] \/ queue'[d] = Append(q[d], s)
    BY <1>2, <1>3
<1>5. /\ \A i \in 1..Len(q[d]) : i \in 1..Len(queue'[d]) /\ queue'[d][i] = q[d][i]
      /\ \A i \in 1..Len(queue'[d]) : i \in 1..Len(q[d]) \/ queue'[d][i] = s
    <2>1. CASE queue'[d] = q[d]
        BY <2>1
    <2>2. CASE queue'[d] = Append(q[d], s)
        <3>1. q[d] \in Seq(QueueStep) /\ Len(queue'[d]) = Len(q[d]) + 1 /\ queue'[d][Len(q[d]) + 1] = s
              /\ \A i \in 1..Len(q[d]) : queue'[d][i] = q[d][i]
            BY <1>2, <2>2
        <3> QED
            BY <1>2, <3>1
    <2> QED
        BY <1>4, <2>1, <2>2
<1>6. ASSUME Saving(d, o) PROVE Saving(d, o)'
    BY <1>2, <1>5, <1>6 DEF Saving, SaveOf, Alike
<1>7. ASSUME Called(d, o)' PROVE Called(d, o)
    BY <1>2, <1>5, <1>7 DEF Called, SaveOf, Alike
<1> QED
    BY <1>6, <1>7

LEMMA StartNewFresh == ASSUME HostInv, AllFresh, NEW c \in Chats, StartNew(c) PROVE AllFresh'
<1>1. PICK n, new : n = Len(copies) + 1 /\ new = [chat |-> c, said |-> {}, busy |-> FALSE]
    OBVIOUS
<1>2. /\ copies \in Seq(Copy) /\ Len(copies) \in Nat /\ copies' = Append(copies, new)
      /\ queue' = Superseded(queue) /\ UNCHANGED <<store, deleted, rivals, unsaved>>
    BY <1>1 DEF StartNew, HostInv, Shape
<1>3. /\ Len(copies') = n /\ copies'[n] = new /\ new.chat = c /\ new.said = {}
      /\ \A o \in 1..Len(copies) : copies'[o] = copies[o]
    BY <1>1, <1>2
<1>4. ASSUME NEW o \in 1..Len(copies) PROVE Fresh(o)'
    <2>1. PICK d \in Chats : d = copies[o].chat
        BY ChatOfCopy DEF HostInv
    <2>2. PICK s : s.call = NotYet
        <3>1. Step("load", None, None, FALSE).call = NotYet
            BY DEF Step
        <3> QED
            BY <3>1
    <2>3. (Saving(d, o) => Saving(d, o)') /\ (Called(d, o)' => Called(d, o))
        BY <1>2, <1>3, <2>2, SupersededStaysSaving
    <2> QED
        BY <1>2, <1>3, <2>1, <2>3, FreshStays
<1>5. Fresh(n)'
    <2>1. ~Called(c, n)'
        <3> SUFFICES ASSUME NEW i \in 1..Len(queue'[c]), SaveOf(queue'[c][i], n) PROVE FALSE
            BY DEF Called
        <3>1. i \in 1..Len(queue[c]) /\ SaveOf(queue[c][i], n)
            BY <1>2, SupersededAsksNoSave DEF Alike, SaveOf
        <3>2. n \in 1..Len(copies)
            BY <3>1 DEF SaveOf, HostInv, StepsRight, AskedRight
        <3> QED
            BY <1>1, <1>2, <3>2
    <2> QED
        BY <1>3, <2>1 DEF Fresh
<1> QED
    BY <1>1, <1>2, <1>3, <1>4, <1>5 DEF AllFresh

LEMMA OpenFresh == ASSUME HostInv, AllFresh, NEW c \in Chats, Open(c) PROVE AllFresh'
<1>1. PICK s : s = Step("load", None, None, FALSE) /\ s.call = NotYet
    <2>1. Step("load", None, None, FALSE).call = NotYet
        BY DEF Step
    <2> QED
        BY <2>1
<1>2. /\ queue' = [Superseded(queue) EXCEPT ![c] = Append(@, s)]
      /\ UNCHANGED <<copies, store, deleted, rivals, unsaved>>
    BY <1>1 DEF Open
<1>3. ASSUME NEW o \in 1..Len(copies) PROVE Fresh(o)'
    <2>1. PICK d \in Chats : d = copies[o].chat
        BY ChatOfCopy DEF HostInv
    <2>2. (Saving(d, o) => Saving(d, o)') /\ (Called(d, o)' => Called(d, o))
        BY <1>1, <1>2, SupersededStaysSaving
    <2> QED
        BY <1>2, <2>1, <2>2, FreshStays
<1> QED
    BY <1>2, <1>3 DEF AllFresh

(* The other steps of the page.                                            *)
LEMMA PageFresh ==
    ASSUME HostInv, AllFresh,
           Send \/ (\E o \in 1..Len(copies) : CompleteTurn(o)) \/ (\E c \in Chats : Rename(c) \/ RemoveChat(c))
    PROVE  AllFresh'
<1>1. ASSUME NEW o \in 1..Len(copies), NextThing \in Things, NEW busy \in BOOLEAN, NEW listed \in BOOLEAN,
             copies' = SaidIn(copies, o, NextThing, busy),
             Adds(copies[o].chat, Step("save", o, None, listed)),
             Enqueue(copies[o].chat, Step("save", o, None, listed)) \/ busy,
             UNCHANGED <<store, deleted, rivals, unsaved>>
      PROVE  AllFresh'
    <2>1. PICK c, s : c = copies[o].chat /\ s = Step("save", o, None, listed)
        OBVIOUS
    <2>2. "save" \in Ops /\ None \in Nat /\ o \in Nat /\ c \in Chats
        BY <2>1, ChatOfCopy DEF Ops, None, HostInv, Shape
    <2>3. s \in QueueStep /\ SaveOf(s, o) /\ s.call = NotYet
        BY <2>1, <2>2, StepShape DEF SaveOf
    <2> QED
        BY <1>1, <2>1, <2>2, <2>3, SaysFresh
<1>2. CASE Send
    <2>1. current \in 1..Len(copies)
        BY <1>2 DEF Send, None, HostInv, Shape
    <2> QED
        BY <1>1, <1>2, <2>1 DEF Send, Adds, SaidIn
<1>3. ASSUME NEW o \in 1..Len(copies), CompleteTurn(o) PROVE AllFresh'
    BY <1>1, <1>3 DEF CompleteTurn, Adds, SaidIn
<1>4. ASSUME NEW c \in Chats, Rename(c) PROVE AllFresh'
    <2>1. CASE current # None /\ copies[current].chat = c
        <3>1. current \in 1..Len(copies) /\ copies \in Seq(Copy) /\ copies[current] \in Copy
            BY <2>1 DEF None, HostInv, Shape
        <3>2. copies[current].busy \in BOOLEAN
            BY <3>1 DEF Copy
        <3>3. /\ copies' = [copies EXCEPT ![current].said = @ \cup {NextThing}] /\ NextThing \in Things
              /\ IF copies[current].busy THEN UNCHANGED queue ELSE Enqueue(c, Step("save", current, None, TRUE))
              /\ UNCHANGED <<store, deleted, rivals, unsaved>>
            BY <1>4, <2>1 DEF Rename
        <3>4. copies' = SaidIn(copies, current, NextThing, copies[current].busy)
            BY <3>1, <3>3 DEF SaidIn, Copy
        <3> QED
            BY <1>1, <2>1, <3>1, <3>2, <3>3, <3>4 DEF Adds
    <2>2. CASE ~(current # None /\ copies[current].chat = c)
        <3>1. PICK n, s : n = NextThing /\ s = Step("rename", None, n, FALSE)
            OBVIOUS
        <3>2. /\ Enqueue(c, s) /\ n \in Things
              /\ UNCHANGED <<copies, store, deleted, unsaved>> /\ rivals \subseteq rivals'
            BY <1>4, <2>2, <3>1 DEF Rename
        <3>3. s \in QueueStep /\ s.call = NotYet
            <4>1. "rename" \in Ops /\ None \in Nat /\ n \in Nat
                BY <3>2, HostAssumption DEF Ops, None, Things
            <4> QED
                BY <3>1, <4>1 DEF Step, QueueStep
        <3> QED
            BY <3>2, <3>3, AddsFresh DEF Adds
    <2> QED
        BY <2>1, <2>2
<1>5. ASSUME NEW c \in Chats, RemoveChat(c) PROVE AllFresh'
    <2>1. PICK s : s \in QueueStep /\ s.call = NotYet /\ Enqueue(c, s)
        BY <1>5, DeleteStep DEF RemoveChat
    <2> QED
        BY <1>5, <2>1, AddsFresh DEF RemoveChat, Adds
<1> QED
    BY <1>2, <1>3, <1>4, <1>5
-----------------------------------------------------------------------------
(* The steps of a queue.                                                   *)

(* A step that leaves takes no save of another copy with it.               *)
LEMMA PopStaysSaving ==
    ASSUME HostInv, NEW c \in Chats, queue[c] # <<>>, Pop(c),
           NEW d \in Chats, NEW o, copies'[o].said = copies[o].said, d = c => ~SaveOf(First(c), o)
    PROVE  (Saving(d, o) => Saving(d, o)') /\ (Called(d, o)' => Called(d, o))
<1>1. CASE d # c
    BY <1>1, PopTakes DEF HostInv, Saving, Called
<1>2. CASE d = c
    <2>1. /\ Len(queue[c]) \in Nat \ {0} /\ Len(queue'[c]) = Len(queue[c]) - 1
          /\ \A i \in 1..Len(queue'[c]) : queue'[c][i] = queue[c][i + 1]
        BY PopTakes DEF HostInv
    <2>2. ASSUME NEW i \in 1..Len(queue[c]), i # 1
          PROVE  i - 1 \in 1..Len(queue'[c]) /\ queue'[c][i - 1] = queue[c][i]
        BY <2>1, <2>2
    <2>3. ASSUME Saving(c, o) PROVE Saving(c, o)'
        <3>1. PICK i \in 1..Len(queue[c]) : SaveOf(queue[c][i], o)
                  /\ (queue[c][i].call = NotYet \/ copies[o].said \subseteq queue[c][i].call.said)
            BY <2>3 DEF Saving
        <3>2. i # 1
            BY <1>2, <3>1 DEF First
        <3> QED
            BY <2>2, <3>1, <3>2 DEF Saving
    <2>4. \A i \in 1..Len(queue'[c]) : i + 1 \in 1..Len(queue[c]) /\ queue'[c][i] = queue[c][i + 1]
        BY <2>1
    <2>5. ASSUME Called(c, o)' PROVE Called(c, o)
        BY <2>4, <2>5 DEF Called
    <2> QED
        BY <1>2, <2>3, <2>5
<1> QED
    BY <1>1, <1>2

(* Another step than a save of the copy: nothing is taken from the record. *)
LEMMA PopFresh ==
    ASSUME HostInv, AllFresh, NEW c \in Chats, queue[c] # <<>>, Pop(c), rivals \subseteq rivals',
           NEW o \in 1..Len(copies), copies'[o] = copies[o], ~SaveOf(First(c), o) \/ c # copies[o].chat,
           deleted \subseteq deleted', o \in unsaved => o \in unsaved',
           \A d \in Chats : d \notin rivals \cup deleted' => store[d].said \subseteq store'[d].said
    PROVE  Fresh(o)'
<1>1. PICK d \in Chats : d = copies[o].chat
    BY ChatOfCopy DEF HostInv
<1>2. (Saving(d, o) => Saving(d, o)') /\ (Called(d, o)' => Called(d, o))
    BY <1>1, PopStaysSaving
<1> QED
    BY <1>1, <1>2, FreshStays

(* What is called is the first step alone.                                 *)
LEMMA NoneCalledAfterPop ==
    ASSUME HostInv, NEW c \in Chats, queue[c] # <<>>, Pop(c), NEW o
    PROVE  ~Called(c, o)'
<1>1. \A i \in 1..Len(queue'[c]) : i + 1 \in 1..Len(queue[c]) /\ i + 1 # 1 /\ queue'[c][i] = queue[c][i + 1]
    BY PopTakes DEF HostInv
<1>2. \A i \in 1..Len(queue'[c]) : queue'[c][i].call = NotYet
    BY <1>1 DEF HostInv, StepsRight
<1> QED
    BY <1>2 DEF Called

LEMMA SaveDoneFresh == ASSUME HostInv, AllFresh, NEW c \in Chats, SaveDone(c) PROVE AllFresh'
<1> DEFINE s == First(c)
<1>1. /\ UnderWay(c) /\ queue[c] # <<>> /\ s.op \in {"save", "rename"} /\ Pop(c)
      /\ store' = [store EXCEPT ![c] = s.call] /\ unsaved' = unsaved \ {s.copy}
      /\ UNCHANGED <<copies, deleted, rivals>>
    BY DEF SaveDone, UnderWay
<1>2. /\ CalledRight(c, s) /\ AskedRight(c, s) /\ 1 \in 1..Len(queue[c]) /\ s = queue[c][1]
      /\ s.call # NotYet
    BY <1>1, FirstStep DEF UnderWay
<1>3. store'[c] = s.call /\ \A d \in Chats : d # c => store'[d] = store[d]
    BY <1>1 DEF HostInv, Shape
<1>4. \A d \in Chats : d \notin rivals \cup deleted' => store[d].said \subseteq store'[d].said
    BY <1>1, <1>2, <1>3 DEF CalledRight
<1>5. s.op # "save" => s.copy \notin 1..Len(copies)
    <2>1. s.op # "save" => s.copy = None
        BY <1>1, <1>2 DEF HostInv, StepsRight, AskedRight
    <2> QED
        BY <2>1 DEF None, HostInv, Shape
<1>6. ASSUME NEW o \in 1..Len(copies) PROVE Fresh(o)'
    <2>1. CASE ~SaveOf(s, o)
        <3>1. o # s.copy \/ s.op # "save"
            BY <2>1 DEF SaveOf
        <3> QED
            BY <1>1, <1>4, <1>5, <2>1, <3>1, PopFresh
    <2>2. CASE SaveOf(s, o)
        <3>1. copies[o].chat = c /\ Called(c, o)
            BY <1>2, <2>2 DEF AskedRight, SaveOf, Called
        <3>2. ~Called(c, o)'
            BY <1>1, NoneCalledAfterPop
        <3>3. c \notin rivals \cup deleted => copies[o].busy \/ Saving(c, o)
            BY <3>1 DEF AllFresh, Fresh
        <3>4. Saving(c, o) => Saving(c, o)' \/ copies[o].said \subseteq store'[c].said
            <4> SUFFICES ASSUME NEW i \in 1..Len(queue[c]), SaveOf(queue[c][i], o),
                                queue[c][i].call = NotYet \/ copies[o].said \subseteq queue[c][i].call.said
                         PROVE  Saving(c, o)' \/ copies[o].said \subseteq store'[c].said
                BY DEF Saving
            <4>1. CASE i = 1
                BY <1>2, <1>3, <4>1
            <4>2. CASE i # 1
                <5>1. i - 1 \in 1..Len(queue'[c]) /\ queue'[c][i - 1] = queue[c][i]
                    <6>1. /\ Len(queue[c]) \in Nat \ {0} /\ Len(queue'[c]) = Len(queue[c]) - 1
                          /\ \A j \in 1..Len(queue'[c]) : queue'[c][j] = queue[c][j + 1]
                        BY <1>1, PopTakes DEF HostInv
                    <6> QED
                        BY <4>2, <6>1
                <5> QED
                    BY <1>1, <5>1 DEF Saving
            <4> QED
                BY <4>1, <4>2
        <3> QED
            BY <1>1, <3>1, <3>2, <3>3, <3>4 DEF Fresh
    <2> QED
        BY <2>1, <2>2
<1> QED
    BY <1>1, <1>6 DEF AllFresh

(* A step refused, an open that comes to nothing, one that comes too late: *)
(* no save but of a deleted chat.                                          *)
LEMMA DroppedFresh ==
    ASSUME HostInv, AllFresh, NEW c \in Chats, queue[c] # <<>>, Pop(c), First(c).op # "save" \/ c \in deleted,
           UNCHANGED <<copies, store, deleted, rivals, unsaved>>
    PROVE  AllFresh'
<1>1. ASSUME NEW o \in 1..Len(copies) PROVE Fresh(o)'
    <2>1. CASE ~SaveOf(First(c), o) \/ c # copies[o].chat
        BY <2>1, PopFresh
    <2>2. CASE SaveOf(First(c), o) /\ c = copies[o].chat
        BY <2>2 DEF Fresh, SaveOf
    <2> QED
        BY <2>1, <2>2
<1> QED
    BY <1>1 DEF AllFresh

LEMMA LoadDoneFresh == ASSUME HostInv, AllFresh, NEW c \in Chats, LoadDone(c) PROVE AllFresh'
<1>1. /\ queue[c] # <<>> /\ Pop(c) /\ UnderWay(c) /\ First(c).op = "load"
      /\ UNCHANGED <<store, deleted, unsaved>>
    BY DEF LoadDone, UnderWay
<1>2. CASE ~StillWanted(First(c))
    BY <1>1, <1>2, DroppedFresh DEF LoadDone
<1>3. CASE StillWanted(First(c))
    <2>1. PICK n, new : n = Len(copies) + 1 /\ new = [chat |-> c, said |-> First(c).call.said, busy |-> FALSE]
        OBVIOUS
    <2>2. /\ copies \in Seq(Copy) /\ Len(copies) \in Nat /\ copies' = Append(copies, new)
          /\ rivals \subseteq rivals' /\ First(c).call = store[c]
        BY <1>1, <1>3, <2>1, FirstStep DEF LoadDone, HostInv, Shape, CalledRight
    <2>3. /\ Len(copies') = n /\ copies'[n] = new /\ new.chat = c /\ new.said = store[c].said
          /\ \A o \in 1..Len(copies) : copies'[o] = copies[o]
        BY <2>1, <2>2
    <2>4. \A o \in 1..Len(copies) : Fresh(o)'
        BY <1>1, <2>2, <2>3, PopFresh DEF SaveOf
    <2>5. Fresh(n)'
        BY <1>1, <2>3, NoneCalledAfterPop DEF Fresh
    <2> QED
        BY <2>1, <2>2, <2>3, <2>4, <2>5 DEF AllFresh
<1> QED
    BY <1>2, <1>3

LEMMA DeleteDoneFresh == ASSUME HostInv, AllFresh, NEW c \in Chats, DeleteDone(c) PROVE AllFresh'
<1>1. /\ queue[c] # <<>> /\ Pop(c) /\ First(c).op = "delete" /\ deleted' = deleted \cup {c}
      /\ store' = [store EXCEPT ![c] = NoRecord] /\ UNCHANGED <<copies, rivals, unsaved>>
    BY DEF DeleteDone, UnderWay
<1>2. \A d \in Chats : d # c => store'[d] = store[d]
    BY <1>1 DEF HostInv, Shape
<1>3. ASSUME NEW o \in 1..Len(copies) PROVE Fresh(o)'
    BY <1>1, <1>2, PopFresh DEF SaveOf
<1> QED
    BY <1>1, <1>3 DEF AllFresh

(* A call that fails: its copy's save is not made, or the chat is not on   *)
(* record any more, and the copies of it know.                             *)
LEMMA StepFailsFresh == ASSUME HostInv, AllFresh, NEW c \in Chats, StepFails(c) PROVE AllFresh'
<1> DEFINE s == First(c)
<1>1. /\ UnderWay(c) /\ queue[c] # <<>> /\ Pop(c) /\ UNCHANGED <<copies, deleted, rivals>>
      /\ store' \in {store, [store EXCEPT ![c] = IF s.op = "delete" THEN NoRecord ELSE s.call]}
      /\ unsaved \subseteq unsaved' /\ (s.op = "save" => s.copy \in unsaved')
      /\ s.op = "delete" /\ ~store'[c].there => \A o \in 1..Len(copies) : copies[o].chat = c => o \in unsaved'
    BY DEF StepFails, UnderWay
<1>2. CalledRight(c, s)
    BY <1>1, FirstStep
<1>3. \A d \in Chats : d # c => store'[d] = store[d]
    BY <1>1 DEF HostInv, Shape
<1>4. s.op = "delete" => store'[c] = store[c] \/ ~store'[c].there
    BY <1>1 DEF HostInv, Shape, NoRecord
<1>5. s.op # "delete" /\ c \notin rivals => store[c].said \subseteq store'[c].said
    BY <1>1, <1>2 DEF CalledRight, HostInv, Shape
<1>6. ASSUME NEW o \in 1..Len(copies) PROVE Fresh(o)'
    <2>1. CASE copies[o].chat = c /\ o \in unsaved'
        BY <1>1, <2>1, NoneCalledAfterPop DEF Fresh
    <2>2. CASE ~(copies[o].chat = c /\ o \in unsaved')
        <3>1. ~SaveOf(s, o) \/ c # copies[o].chat
            BY <1>1, <2>2 DEF SaveOf
        <3>2. PICK d \in Chats : d = copies[o].chat
            BY ChatOfCopy DEF HostInv
        <3>3. (Saving(d, o) => Saving(d, o)') /\ (Called(d, o)' => Called(d, o))
            BY <1>1, <3>1, <3>2, PopStaysSaving
        <3>4. d \notin rivals => store[d].said \subseteq store'[d].said
            BY <1>1, <1>3, <1>4, <1>5, <2>2, <3>2
        <3> QED
            BY <1>1, <3>2, <3>3, <3>4, FreshStays
    <2> QED
        BY <2>1, <2>2
<1> QED
    BY <1>1, <1>6 DEF AllFresh

(* A save is built as its turn comes: it has all of its copy.              *)
LEMMA StepStartsFresh == ASSUME HostInv, AllFresh, NEW c \in Chats, StepStarts(c) PROVE AllFresh'
<1>1. /\ queue[c] # <<>> /\ queue' = [queue EXCEPT ![c][1].call = Call(c)]
      /\ UNCHANGED <<copies, store, deleted, rivals, unsaved>>
    BY DEF StepStarts, Waits
<1>2. /\ 1 \in 1..Len(queue[c]) /\ First(c) = queue[c][1] /\ First(c) \in QueueStep
      /\ queue \in [Chats -> Seq(QueueStep)] /\ queue[c] \in Seq(QueueStep)
    BY <1>1, FirstStep DEF HostInv, Shape
<1>3. PICK s : s = [First(c) EXCEPT !.call = Call(c)]
    OBVIOUS
<1>4. s.op = First(c).op /\ s.copy = First(c).copy /\ s.call = Call(c)
    BY <1>2, <1>3 DEF QueueStep
<1>5. queue' = [queue EXCEPT ![c] = [@ EXCEPT ![1] = s]]
    BY <1>1, <1>2, <1>3
<1>6. /\ Len(queue'[c]) = Len(queue[c]) /\ queue'[c][1] = s
      /\ \A i \in 1..Len(queue[c]) : i # 1 => queue'[c][i] = queue[c][i]
      /\ \A d \in Chats : d # c => queue'[d] = queue[d]
    BY <1>2, <1>5
<1>7. \A o \in 1..Len(copies) : SaveOf(s, o) => s.call.said = copies[o].said
    BY <1>4 DEF SaveOf, Call, Built
<1>8. ASSUME NEW d \in Chats, NEW o \in 1..Len(copies), Saving(d, o) PROVE Saving(d, o)'
    <2>1. CASE d # c
        BY <1>1, <1>6, <1>8, <2>1 DEF Saving
    <2>2. CASE d = c
        <3>1. PICK i \in 1..Len(queue[c]) : SaveOf(queue[c][i], o)
                  /\ (queue[c][i].call = NotYet \/ copies[o].said \subseteq queue[c][i].call.said)
            BY <1>8, <2>2 DEF Saving
        <3>2. CASE i = 1
            <4>1. SaveOf(s, o)
                BY <1>2, <1>4, <3>1, <3>2 DEF SaveOf
            <4> QED
                BY <1>1, <1>2, <1>6, <1>7, <2>2, <4>1 DEF Saving
        <3>3. CASE i # 1
            BY <1>1, <1>6, <2>2, <3>1, <3>3 DEF Saving
        <3> QED
            BY <3>2, <3>3
    <2> QED
        BY <2>1, <2>2
<1>9. ASSUME NEW d \in Chats, NEW o \in 1..Len(copies), Called(d, o)', ~Called(d, o) PROVE Saving(d, o)'
    <2>1. d = c
        BY <1>6, <1>9 DEF Called
    <2>2. SaveOf(s, o)
        BY <1>6, <1>9, <2>1 DEF Called
    <2> QED
        BY <1>1, <1>2, <1>6, <1>7, <2>1, <2>2 DEF Saving
<1>10. ASSUME NEW o \in 1..Len(copies) PROVE Fresh(o)'
    <2>1. PICK d \in Chats : d = copies[o].chat
        BY ChatOfCopy DEF HostInv
    <2>2. Fresh(o) /\ (Saving(d, o) => Saving(d, o)') /\ (Called(d, o)' => Called(d, o) \/ Saving(d, o)')
        BY <1>8, <1>9 DEF AllFresh
    <2> QED
        BY <1>1, <2>1, <2>2 DEF Fresh
<1> QED
    BY <1>1, <1>10 DEF AllFresh

LEMMA FreshStep == HostInv /\ AllFresh /\ [Next]_vars => AllFresh'
<1> SUFFICES ASSUME HostInv, AllFresh, [Next]_vars PROVE AllFresh'
    OBVIOUS
<1>1. ASSUME NEW c \in Chats, StepRefused(c) \/ NotFound(c) PROVE AllFresh'
    <2>1. /\ queue[c] # <<>> /\ Pop(c) /\ UNCHANGED <<copies, store, deleted, rivals, unsaved>>
          /\ First(c).op # "save" \/ c \in deleted
        BY <1>1 DEF StepRefused, NotFound, Waits, UnderWay, Refused
    <2> QED
        BY <2>1, DroppedFresh
<1>2. ASSUME NEW c \in Chats, StartNew(c) \/ Open(c) \/ StepStarts(c) \/ SaveDone(c) \/ LoadDone(c)
                              \/ DeleteDone(c) \/ StepFails(c)
      PROVE  AllFresh'
    BY <1>2, StartNewFresh, OpenFresh, StepStartsFresh, SaveDoneFresh, LoadDoneFresh, DeleteDoneFresh,
       StepFailsFresh
<1>3. CASE Send \/ (\E o \in 1..Len(copies) : CompleteTurn(o)) \/ (\E c \in Chats : Rename(c) \/ RemoveChat(c))
    BY <1>3, PageFresh
<1>4. CASE RefreshList \/ ListArrives \/ UNCHANGED vars
    <2>1. UNCHANGED <<copies, queue, store, deleted, rivals, unsaved>>
        BY <1>4 DEF RefreshList, ListArrives, vars
    <2> QED
        BY <2>1 DEF AllFresh, Fresh, Saving, Called
<1> QED
    BY <1>1, <1>2, <1>3, <1>4 DEF Next

(* Once a chat's queue is through, its record has everything said in a     *)
(* copy of it, but for a save that failed and for chats with rivals: no    *)
(* older save, rename or refused delete takes anything away (#queue).      *)
THEOREM NothingIsLost == Spec => []NothingSaidIsLost
<1>1. AllFresh => NothingSaidIsLost
    BY DEF AllFresh, Fresh, NothingSaidIsLost, Saving
<1> QED
    BY <1>1, InitFresh, FreshStep, HostInvariant, PTL DEF Spec
-----------------------------------------------------------------------------
(* The chat that is open is the one the viewer asked for last.             *)

(* A load that no open or new chat has superseded.                         *)
Newest(c, i) == i \in 1..Len(queue[c]) /\ queue[c][i].newest

OneNewest ==
    \A c, d \in Chats : \A i \in 1..Len(queue[c]) : \A j \in 1..Len(queue[d]) :
        Newest(c, i) /\ Newest(d, j) => c = d /\ i = j

NewestIsWanted == \A c \in Chats : \A i \in 1..Len(queue[c]) :
    Newest(c, i) => queue[c][i].op = "load" /\ wanted = {c}

OpenIsWanted ==
    current = None \/ wanted = {copies[current].chat}
        \/ \E c \in Chats : \E i \in 1..Len(queue[c]) : Newest(c, i)

OpenInv == OneNewest /\ NewestIsWanted /\ OpenIsWanted

LEMMA InitOpen == Init => OpenInv
<1> SUFFICES ASSUME Init PROVE OpenInv
    OBVIOUS
<1>1. current = None /\ \A c \in Chats : queue[c] = <<>>
    BY DEF Init
<1> QED
    BY <1>1 DEF OpenInv, OneNewest, NewestIsWanted, OpenIsWanted

(* The steps of the page but those that open a chat, and a call made: what *)
(* is asked for has its place in the queue, and nothing newer is.          *)
LEMMA SameStaysOpen ==
    ASSUME HostInv, OpenInv, UNCHANGED wanted,
           current' = current \/ current' = None,
           current # None => copies'[current].chat = copies[current].chat,
           \A c \in Chats : \A i \in 1..Len(queue[c]) : Newest(c, i) => Newest(c, i)',
           \A c \in Chats : \A i \in 1..Len(queue'[c]) :
               Newest(c, i)' => Newest(c, i) /\ queue'[c][i].op = queue[c][i].op
    PROVE  OpenInv'
<1>1. OneNewest' /\ NewestIsWanted'
    BY DEF OpenInv, OneNewest, NewestIsWanted, Newest
<1>2. OpenIsWanted'
    BY DEF OpenInv, OpenIsWanted, Newest
<1> QED
    BY <1>1, <1>2 DEF OpenInv

LEMMA AddedStaysOpen ==
    ASSUME HostInv, OpenInv, NEW c \in Chats, NEW s \in QueueStep, Adds(c, s), s.newest = FALSE,
           UNCHANGED <<wanted, current>>,
           current # None => copies'[current].chat = copies[current].chat
    PROVE  OpenInv'
<1>1. ASSUME NEW d \in Chats, NEW i \in 1..Len(queue[d]) PROVE i \in 1..Len(queue'[d]) /\ queue'[d][i] = queue[d][i]
    <2>0. \A e \in Chats : Len(queue[e]) \in Nat
        BY DEF HostInv, Shape
    <2>1. CASE Enqueue(c, s)
        <3>1. CASE d = c
            BY <2>0, <2>1, <3>1, EnqueueAdds DEF HostInv
        <3>2. CASE d # c
            BY <2>1, <3>2, EnqueueAdds DEF HostInv
        <3> QED
            BY <3>1, <3>2
    <2>2. CASE UNCHANGED queue
        BY <2>2
    <2> QED
        BY <2>1, <2>2 DEF Adds
<1>2. ASSUME NEW d \in Chats, NEW i \in 1..Len(queue'[d]), Newest(d, i)'
      PROVE  Newest(d, i) /\ queue'[d][i].op = queue[d][i].op
    <2>1. \/ i \in 1..Len(queue[d]) /\ queue'[d][i] = queue[d][i]
          \/ queue'[d][i] = s
        BY AddsOne DEF HostInv
    <2>2. queue'[d][i] # s
        BY <1>2, Zenon DEF Newest
    <2> QED
        BY <1>2, <2>1, <2>2, Zenon DEF Newest
<1>3. \A d \in Chats : \A i \in 1..Len(queue[d]) : Newest(d, i) => Newest(d, i)'
    BY <1>1, Zenon DEF Newest
<1> QED
    BY <1>2, <1>3, SameStaysOpen

(* None is newest once the loads under way are superseded.                 *)
LEMMA SupersededHasNone ==
    ASSUME HostInv, NEW q, q = Superseded(queue), NEW c \in Chats, NEW i \in 1..Len(q[c])
    PROVE  q[c][i].newest = FALSE
<1>1. i \in 1..Len(queue[c]) /\ q[c][i] = [queue[c][i] EXCEPT !.newest = FALSE]
    BY SupersededMarks DEF HostInv
<1>2. queue[c][i] \in QueueStep
    BY <1>1 DEF HostInv, Shape
<1> QED
    BY <1>1, <1>2 DEF QueueStep

LEMMA StartNewOpen == ASSUME HostInv, OpenInv, NEW c \in Chats, StartNew(c) PROVE OpenInv'
<1>1. PICK n, new : n = Len(copies) + 1 /\ new = [chat |-> c, said |-> {}, busy |-> FALSE]
    OBVIOUS
<1>2. /\ copies \in Seq(Copy) /\ Len(copies) \in Nat /\ copies' = Append(copies, new)
      /\ queue' = Superseded(queue) /\ current' = n /\ wanted' = {c}
    BY <1>1 DEF StartNew, HostInv, Shape
<1>3. copies'[n] = new /\ new.chat = c
    BY <1>1, <1>2
<1>4. \A d \in Chats : \A i \in 1..Len(queue'[d]) : ~Newest(d, i)'
    <2>1. \A d \in Chats : \A i \in 1..Len(queue'[d]) : queue'[d][i].newest = FALSE
        BY <1>2, SupersededHasNone
    <2> QED
        BY <2>1, Zenon DEF Newest
<1> QED
    BY <1>2, <1>3, <1>4 DEF OpenInv, OneNewest, NewestIsWanted, OpenIsWanted

LEMMA OpenOpen == ASSUME HostInv, OpenInv, NEW c \in Chats, Open(c) PROVE OpenInv'
<1>1. PICK q, s : q = Superseded(queue) /\ s = Step("load", None, None, FALSE)
    OBVIOUS
<1>2. s.op = "load" /\ s.newest = TRUE
    BY <1>1 DEF Step
<1>3. q \in [Chats -> Seq(QueueStep)] /\ queue' = [q EXCEPT ![c] = Append(@, s)] /\ wanted' = {c}
    BY <1>1, SupersededMarks DEF HostInv, Open
<1>4. queue'[c] = Append(q[c], s) /\ q[c] \in Seq(QueueStep) /\ Len(q[c]) \in Nat
    BY <1>3
<1>5. /\ Len(queue'[c]) = Len(q[c]) + 1 /\ queue'[c][Len(q[c]) + 1] = s
      /\ \A i \in 1..Len(q[c]) : queue'[c][i] = q[c][i]
    BY <1>4
<1>6. ASSUME NEW d \in Chats, NEW i \in 1..Len(queue'[d]), Newest(d, i)'
      PROVE  d = c /\ i = Len(q[c]) + 1
    <2> SUFFICES ASSUME ~(d = c /\ i = Len(q[c]) + 1) PROVE FALSE
        OBVIOUS
    <2>1. i \in 1..Len(q[d]) /\ queue'[d][i] = q[d][i]
        BY <1>3, <1>4, <1>5
    <2>2. queue'[d][i].newest = FALSE
        BY <1>1, <2>1, SupersededHasNone
    <2> QED
        BY <1>6, <2>2, Zenon DEF Newest
<1>7. Len(q[c]) + 1 \in 1..Len(queue'[c])
    BY <1>4, <1>5
<1>8. Newest(c, Len(q[c]) + 1)'
    BY <1>2, <1>5, <1>7, Zenon DEF Newest
<1>9. OneNewest'
    BY <1>6 DEF OneNewest
<1>10. NewestIsWanted'
    BY <1>2, <1>3, <1>5, <1>6 DEF NewestIsWanted
<1>11. OpenIsWanted'
    BY <1>7, <1>8 DEF OpenIsWanted
<1> QED
    BY <1>9, <1>10, <1>11 DEF OpenInv

(* The other steps of the page add at most a step that is no load.         *)
LEMMA PageOpen ==
    ASSUME HostInv, OpenInv,
           Send \/ (\E o \in 1..Len(copies) : CompleteTurn(o)) \/ (\E c \in Chats : Rename(c) \/ RemoveChat(c))
    PROVE  OpenInv'
<1>1. \A op \in Ops : \A copy, thing, listed : op # "load" => Step(op, copy, thing, listed).newest = FALSE
    BY DEF Step
<1>2. {"save", "rename", "delete"} \subseteq Ops /\ None \in Nat
    BY DEF Ops, None
<1>3. \A o \in 1..Len(copies) : o \in Nat /\ copies[o].chat \in Chats
    BY ChatOfCopy DEF HostInv, Shape
<1>4. current # None => current \in 1..Len(copies)
    BY DEF HostInv, Shape, None
<1>5. ASSUME NEW o \in 1..Len(copies), NEW busy \in BOOLEAN, NEW listed \in BOOLEAN, NextThing \in Things,
             copies' = SaidIn(copies, o, NextThing, busy), UNCHANGED <<wanted, current>>,
             Adds(copies[o].chat, Step("save", o, None, listed))
      PROVE  OpenInv'
    <2>1. PICK s : s = Step("save", o, None, listed)
        OBVIOUS
    <2>2. s \in QueueStep /\ s.newest = FALSE
        <3>1. s \in QueueStep
            BY <1>2, <1>3, <2>1, StepShape
        <3>2. s.newest = FALSE
            BY <1>1, <1>2, <2>1
        <3> QED
            BY <3>1, <3>2
    <2>3. ASSUME NEW p \in 1..Len(copies) PROVE copies'[p].chat = copies[p].chat
        <3>1. copies \in Seq(Copy)
            BY DEF HostInv, Shape
        <3>2. copies'[o].chat = copies[o].chat /\ (p # o => copies'[p] = copies[p])
            BY <1>5, <3>1, CopySays
        <3> QED
            BY <3>2
    <2> QED
        BY <1>3, <1>4, <1>5, <2>1, <2>2, <2>3, AddedStaysOpen
<1>6. CASE Send
    BY <1>4, <1>5, <1>6 DEF Send, Adds, SaidIn
<1>7. ASSUME NEW o \in 1..Len(copies), CompleteTurn(o) PROVE OpenInv'
    BY <1>5, <1>7 DEF CompleteTurn, Adds, SaidIn
<1>8. ASSUME NEW c \in Chats, Rename(c) PROVE OpenInv'
    <2>1. CASE current # None /\ copies[current].chat = c
        <3>1. current \in 1..Len(copies) /\ copies \in Seq(Copy) /\ copies[current] \in Copy
            BY <2>1 DEF None, HostInv, Shape
        <3>2. copies[current].busy \in BOOLEAN
            BY <3>1 DEF Copy
        <3>3. /\ copies' = [copies EXCEPT ![current].said = @ \cup {NextThing}] /\ NextThing \in Things
              /\ IF copies[current].busy THEN UNCHANGED queue ELSE Enqueue(c, Step("save", current, None, TRUE))
              /\ UNCHANGED <<wanted, current>>
            BY <1>8, <2>1 DEF Rename
        <3>4. copies' = SaidIn(copies, current, NextThing, copies[current].busy)
            BY <3>1, <3>3 DEF SaidIn, Copy
        <3> QED
            BY <1>5, <2>1, <3>1, <3>2, <3>3, <3>4 DEF Adds
    <2>2. CASE ~(current # None /\ copies[current].chat = c)
        <3>1. PICK n, s : n = NextThing /\ s = Step("rename", None, n, FALSE)
            OBVIOUS
        <3>2. Enqueue(c, s) /\ n \in Things /\ UNCHANGED <<copies, wanted, current>>
            BY <1>8, <2>2, <3>1 DEF Rename
        <3>3. s \in QueueStep /\ s.newest = FALSE
            <4>1. n \in Nat
                BY <3>2, HostAssumption DEF Things
            <4>2. s \in QueueStep
                BY <1>2, <3>1, <4>1, StepShape
            <4>3. s.newest = FALSE
                BY <1>1, <1>2, <3>1
            <4> QED
                BY <4>2, <4>3
        <3> QED
            BY <3>2, <3>3, AddedStaysOpen DEF Adds
    <2> QED
        BY <2>1, <2>2
<1>9. ASSUME NEW c \in Chats, RemoveChat(c) PROVE OpenInv'
    <2>1. PICK s : s \in QueueStep /\ s.newest = FALSE /\ Enqueue(c, s)
        <3>1. PICK s : s \in QueueStep /\ Enqueue(c, s) /\ s = Step("delete", None, None, c \in list)
            BY <1>9, DeleteStep DEF RemoveChat
        <3> QED
            BY <1>1, <1>2, <3>1
    <2> QED
        BY <1>9, <2>1, AddedStaysOpen DEF RemoveChat, Adds
<1> QED
    BY <1>6, <1>7, <1>8, <1>9
-----------------------------------------------------------------------------
(* The steps of a queue.                                                   *)

(* What stays in a queue has its mark; of what leaves, only a load has one.*)
LEMMA PopLeaves ==
    ASSUME HostInv, NEW c \in Chats, queue[c] # <<>>, Pop(c)
    PROVE  /\ 1 \in 1..Len(queue[c])
           /\ \A d \in Chats : d # c => \A i : Newest(d, i)' <=> Newest(d, i)
           /\ \A i \in 1..Len(queue'[c]) : Newest(c, i)' => i + 1 \in 1..Len(queue[c]) /\ Newest(c, i + 1)
           /\ \A i \in 1..Len(queue[c]) : Newest(c, i) /\ i # 1 =>
                  i - 1 \in 1..Len(queue'[c]) /\ Newest(c, i - 1)'
<1>1. /\ \A d \in Chats : d # c => queue'[d] = queue[d]
      /\ Len(queue[c]) \in Nat \ {0} /\ Len(queue'[c]) = Len(queue[c]) - 1
      /\ \A i \in 1..Len(queue'[c]) : queue'[c][i] = queue[c][i + 1]
    BY PopTakes DEF HostInv
<1>2. \A d \in Chats : d # c => \A i : Newest(d, i)' <=> Newest(d, i)
    BY <1>1, Zenon DEF Newest
<1>3. ASSUME NEW i \in 1..Len(queue'[c]), Newest(c, i)'
      PROVE  i + 1 \in 1..Len(queue[c]) /\ Newest(c, i + 1)
    <2>1. i + 1 \in 1..Len(queue[c])
        BY <1>1
    <2> QED
        BY <1>1, <1>3, <2>1, Zenon DEF Newest
<1>4. ASSUME NEW i \in 1..Len(queue[c]), Newest(c, i), i # 1
      PROVE  i - 1 \in 1..Len(queue'[c]) /\ Newest(c, i - 1)'
    <2>1. i - 1 \in 1..Len(queue'[c]) /\ (i - 1) + 1 = i
        BY <1>1, <1>4
    <2>2. queue'[c][i - 1] = queue[c][i]
        BY <1>1, <2>1
    <2> QED
        BY <1>4, <2>1, <2>2, Zenon DEF Newest
<1> QED
    BY <1>1, <1>2, <1>3, <1>4

(* A step that is not the newest load leaves.                              *)
LEMMA OlderLeaves ==
    ASSUME HostInv, OpenInv, NEW c \in Chats, queue[c] # <<>>, Pop(c), ~Newest(c, 1), UNCHANGED wanted,
           current' = current \/ current' = None,
           current # None => copies'[current].chat = copies[current].chat
    PROVE  OpenInv'
<1>1. \A d \in Chats : \A i \in 1..Len(queue'[d]) : Newest(d, i)' =>
          \E j \in 1..Len(queue[d]) : /\ Newest(d, j) /\ queue'[d][i].op = queue[d][j].op
                                     /\ j = IF d = c THEN i + 1 ELSE i
    <2>1. ASSUME NEW i \in 1..Len(queue'[c]) PROVE queue'[c][i] = queue[c][i + 1]
        BY PopTakes DEF HostInv
    <2>2. ASSUME NEW d \in Chats, d # c PROVE queue'[d] = queue[d]
        BY <2>2, PopTakes DEF HostInv
    <2> QED
        BY <2>1, <2>2, PopLeaves
<1>2. OneNewest'
    <2> SUFFICES ASSUME NEW d \in Chats, NEW e \in Chats, NEW i \in 1..Len(queue'[d]), NEW j \in 1..Len(queue'[e]),
                        Newest(d, i)', Newest(e, j)'
                 PROVE  d = e /\ i = j
        BY DEF OneNewest
    <2>1. PICK k \in 1..Len(queue[d]) : Newest(d, k) /\ k = IF d = c THEN i + 1 ELSE i
        BY <1>1
    <2>2. PICK l \in 1..Len(queue[e]) : Newest(e, l) /\ l = IF e = c THEN j + 1 ELSE j
        BY <1>1
    <2>3. d = e /\ k = l
        BY <2>1, <2>2 DEF OpenInv, OneNewest
    <2>4. i \in Nat /\ j \in Nat
        OBVIOUS
    <2> QED
        BY <2>1, <2>2, <2>3, <2>4
<1>3. NewestIsWanted'
    BY <1>1 DEF OpenInv, NewestIsWanted
<1>4. ASSUME NEW d \in Chats, NEW i \in 1..Len(queue[d]), Newest(d, i)
      PROVE  \E j \in 1..Len(queue'[d]) : Newest(d, j)'
    <2>1. CASE d = c
        <3>1. i # 1
            BY <1>4, <2>1
        <3> QED
            BY <1>4, <2>1, <3>1, PopLeaves
    <2>2. CASE d # c
        <3>1. queue'[d] = queue[d]
            BY <2>2, PopTakes DEF HostInv
        <3> QED
            BY <1>4, <2>2, <3>1, PopLeaves
    <2> QED
        BY <2>1, <2>2
<1>5. OpenIsWanted'
    BY <1>4 DEF OpenInv, OpenIsWanted
<1> QED
    BY <1>2, <1>3, <1>5 DEF OpenInv

(* The newest load leaves: none is left, and what is open is as wanted.    *)
LEMMA NewestLeaves ==
    ASSUME HostInv, OpenInv, NEW c \in Chats, queue[c] # <<>>, Pop(c), Newest(c, 1),
           current' = None \/ wanted' = {copies'[current'].chat}
    PROVE  OpenInv'
<1>1. ASSUME NEW d \in Chats, NEW i \in 1..Len(queue'[d]), Newest(d, i)' PROVE FALSE
    <2>0. 1 \in 1..Len(queue[c]) /\ i \in Nat
        BY PopLeaves
    <2>1. CASE d = c
        <3>1. i + 1 \in 1..Len(queue[c]) /\ Newest(c, i + 1)
            BY <1>1, <2>1, PopLeaves
        <3>2. i + 1 = 1
            BY <2>0, <3>1 DEF OpenInv, OneNewest
        <3> QED
            BY <3>2
    <2>2. CASE d # c
        <3>1. Newest(d, i) /\ i \in 1..Len(queue[d])
            BY <1>1, <2>2, PopLeaves, PopTakes DEF HostInv
        <3> QED
            BY <2>0, <2>2, <3>1 DEF OpenInv, OneNewest
    <2> QED
        BY <2>1, <2>2
<1> QED
    BY <1>1 DEF OpenInv, OneNewest, NewestIsWanted, OpenIsWanted

(* A step that comes to nothing, or is done, and opens no chat.            *)
LEMMA StaysOpenOpen ==
    ASSUME HostInv, OpenInv, NEW c \in Chats, queue[c] # <<>>, Pop(c), UNCHANGED copies,
           \/ StaysOpen(First(c)) /\ UNCHANGED current
           \/ First(c).op # "load" /\ UNCHANGED wanted /\ (current' = current \/ current' = None)
    PROVE  OpenInv'
<1>1. 1 \in 1..Len(queue[c]) /\ First(c) = queue[c][1]
    BY PopLeaves DEF First
<1>2. Newest(c, 1) => First(c).op = "load" /\ First(c).newest
    <2>1. Newest(c, 1) => First(c).op = "load"
        BY <1>1 DEF OpenInv, NewestIsWanted
    <2>2. Newest(c, 1) => First(c).newest
        BY <1>1, Zenon DEF Newest
    <2> QED
        BY <2>1, <2>2, Zenon
<1>3. First(c).newest => Newest(c, 1)
    BY <1>1, Zenon DEF Newest
<1>4. CASE Newest(c, 1)
    <2>1. current' = None \/ wanted' = {copies'[current'].chat}
        <3>1. StaysOpen(First(c)) /\ UNCHANGED current
            BY <1>2, <1>4, Zenon
        <3>2. wanted' = IF current = None THEN {} ELSE {copies[current].chat}
            BY <1>2, <1>4, <3>1, Zenon DEF StaysOpen
        <3> QED
            BY <3>1, <3>2
    <2> QED
        BY <1>4, <2>1, NewestLeaves
<1>5. CASE ~Newest(c, 1)
    <2>1. UNCHANGED wanted
        BY <1>3, <1>5, Zenon DEF StaysOpen
    <2> QED
        BY <1>5, <2>1, OlderLeaves
<1> QED
    BY <1>4, <1>5

LEMMA LoadDoneOpen == ASSUME HostInv, OpenInv, NEW c \in Chats, LoadDone(c) PROVE OpenInv'
<1>1. queue[c] # <<>> /\ Pop(c) /\ UNCHANGED wanted
    BY DEF LoadDone, UnderWay
<1>2. 1 \in 1..Len(queue[c]) /\ First(c) = queue[c][1]
    BY <1>1, PopLeaves DEF First
<1>3. Newest(c, 1) <=> StillWanted(First(c))
    BY <1>2, Zenon DEF Newest, StillWanted
<1>4. CASE Newest(c, 1)
    <2>1. PICK new : new = [chat |-> c, said |-> First(c).call.said, busy |-> FALSE]
        OBVIOUS
    <2>2. copies' = Append(copies, new) /\ current' = Len(copies) + 1
        BY <1>3, <1>4, <2>1 DEF LoadDone
    <2>3. copies \in Seq(Copy)
        BY DEF HostInv, Shape
    <2>4. copies'[current'] = new /\ new.chat = c
        BY <2>1, <2>2, <2>3
    <2>5. wanted = {c}
        BY <1>2, <1>4 DEF OpenInv, NewestIsWanted
    <2> QED
        BY <1>1, <1>4, <2>4, <2>5, NewestLeaves
<1>5. CASE ~Newest(c, 1)
    <2>1. UNCHANGED <<copies, current>>
        BY <1>3, <1>5 DEF LoadDone
    <2> QED
        BY <1>1, <1>5, <2>1, OlderLeaves
<1> QED
    BY <1>4, <1>5

(* A call made: the step is the same but for what it read or writes.       *)
LEMMA StepStartsOpen == ASSUME HostInv, OpenInv, NEW c \in Chats, StepStarts(c) PROVE OpenInv'
<1>1. /\ queue' = [queue EXCEPT ![c][1].call = Call(c)] /\ UNCHANGED <<copies, current, wanted>>
      /\ queue \in [Chats -> Seq(QueueStep)] /\ queue[c] # <<>>
    BY DEF StepStarts, Waits, HostInv, Shape
<1>2. \A d \in Chats : d # c => queue'[d] = queue[d]
    BY <1>1
<1>3. PICK s : s = [queue[c][1] EXCEPT !.call = Call(c)]
    OBVIOUS
<1>4. /\ queue[c] \in Seq(QueueStep) /\ 1 \in 1..Len(queue[c]) /\ queue[c][1] \in QueueStep
      /\ queue'[c] = [queue[c] EXCEPT ![1] = s]
    BY <1>1, <1>3
<1>5. s.newest = queue[c][1].newest /\ s.op = queue[c][1].op
    BY <1>3, <1>4 DEF QueueStep
<1>6. Len(queue'[c]) = Len(queue[c]) /\ queue'[c][1] = s /\ \A i \in 2..Len(queue[c]) : queue'[c][i] = queue[c][i]
    BY <1>4
<1>7. ASSUME NEW d \in Chats, NEW i
      PROVE  /\ i \in 1..Len(queue'[d]) <=> i \in 1..Len(queue[d])
             /\ i \in 1..Len(queue[d]) => queue'[d][i].newest = queue[d][i].newest
                                         /\ queue'[d][i].op = queue[d][i].op
    <2>1. i \in 1..Len(queue[c]) => i = 1 \/ i \in 2..Len(queue[c])
        OBVIOUS
    <2> QED
        BY <1>2, <1>5, <1>6, <2>1
<1>8. \A d \in Chats : \A i : Newest(d, i)' <=> Newest(d, i)
    BY <1>7, Zenon DEF Newest
<1> QED
    BY <1>1, <1>7, <1>8, SameStaysOpen

LEMMA OpenStep == HostInv /\ OpenInv /\ [Next]_vars => OpenInv'
<1> SUFFICES ASSUME HostInv, OpenInv, [Next]_vars PROVE OpenInv'
    OBVIOUS
<1>1. ASSUME NEW c \in Chats, StepRefused(c) PROVE OpenInv'
    <2>1. queue[c] # <<>> /\ Pop(c) /\ UNCHANGED copies /\ StaysOpen(First(c))
        BY <1>1 DEF StepRefused, Waits
    <2>2. CASE First(c).op = "delete"
        BY <1>1, <2>1, <2>2, StaysOpenOpen DEF StepRefused, Leave, StaysOpen
    <2>3. CASE First(c).op # "delete"
        BY <1>1, <2>1, <2>3, StaysOpenOpen DEF StepRefused
    <2> QED
        BY <2>2, <2>3
<1>2. ASSUME NEW c \in Chats, SaveDone(c) \/ DeleteDone(c) PROVE OpenInv'
    BY <1>2, StaysOpenOpen DEF SaveDone, DeleteDone, UnderWay, Leave
<1>3. ASSUME NEW c \in Chats, NotFound(c) \/ StepFails(c) PROVE OpenInv'
    BY <1>3, StaysOpenOpen DEF NotFound, StepFails, UnderWay
<1>4. CASE RefreshList \/ ListArrives \/ UNCHANGED vars
    <2>1. UNCHANGED <<copies, current, queue, wanted>>
        BY <1>4 DEF RefreshList, ListArrives, vars
    <2> QED
        BY <2>1 DEF OpenInv, OneNewest, NewestIsWanted, OpenIsWanted, Newest
<1> QED
    BY <1>1, <1>2, <1>3, <1>4, StartNewOpen, OpenOpen, PageOpen, StepStartsOpen, LoadDoneOpen DEF Next

(* The chat that is open is the one the viewer opened or started last, or  *)
(* that one's load is still to come, however late the loads of others come,*)
(* fail or find nothing (#generation and open of host-store.ts).           *)
THEOREM LatestWins == Spec => []LatestOpenWins
<1>1. OpenInv => LatestOpenWins
    <2>1. OpenInv => \/ current = None \/ wanted = {copies[current].chat}
                     \/ \E c \in Chats : \E i \in 1..Len(queue[c]) : Newest(c, i)
        BY DEF OpenInv, OpenIsWanted
    <2> QED
        BY <2>1, Zenon DEF LatestOpenWins, Newest
<1> QED
    BY <1>1, InitOpen, OpenStep, HostInvariant, PTL DEF Spec
-----------------------------------------------------------------------------
(***************************************************************************)
(* The deletes counted for a chat (#deleting) are those of its queue: each *)
(* is counted when it is asked for and settled when its step leaves the    *)
(* queue, whichever way.                                                   *)
(***************************************************************************)
DeletesIn(q) == {i \in 1..Len(q) : q[i].op = "delete"}

Counted ==
    /\ deleted \subseteq Chats
    /\ deleting \in [Chats -> Int]
    /\ \A c \in Chats : deleting[c] = Cardinality(DeletesIn(queue[c]))

LEMMA DeletesAreFinite ==
    ASSUME NEW q \in Seq(QueueStep)
    PROVE  /\ IsFiniteSet(DeletesIn(q)) /\ Cardinality(DeletesIn(q)) \in Nat
           /\ \A i \in DeletesIn(q) : i # Len(q) + 1
<1>1. IsFiniteSet(1..Len(q)) /\ DeletesIn(q) \subseteq 1..Len(q)
    BY FS_Interval DEF DeletesIn
<1>2. IsFiniteSet(DeletesIn(q))
    BY <1>1, FS_Subset
<1> QED
    BY <1>1, <1>2, FS_CardinalityType

(* A step that is added counts if it is a delete.                          *)
LEMMA AddedIsCounted ==
    ASSUME NEW q \in Seq(QueueStep), NEW s \in QueueStep
    PROVE  Cardinality(DeletesIn(Append(q, s)))
               = Cardinality(DeletesIn(q)) + (IF s.op = "delete" THEN 1 ELSE 0)
<1> DEFINE p == Append(q, s)
           n == Len(q) + 1
<1>1. /\ Len(q) \in Nat /\ Len(p) = n /\ p[n] = s
      /\ \A i \in 1..Len(q) : p[i] = q[i]
    OBVIOUS
<1> HIDE DEF p
<1>2. DeletesIn(p) = IF s.op = "delete" THEN DeletesIn(q) \cup {n} ELSE DeletesIn(q)
    BY <1>1 DEF DeletesIn
<1>3. Cardinality(DeletesIn(q) \cup {n}) = Cardinality(DeletesIn(q)) + 1
    BY DeletesAreFinite, FS_AddElement
<1>4. Cardinality(DeletesIn(p)) = Cardinality(DeletesIn(q)) + (IF s.op = "delete" THEN 1 ELSE 0)
    BY <1>2, <1>3, DeletesAreFinite
<1> QED
    BY <1>4 DEF p

(* The step that leaves does too.                                          *)
LEMMA PoppedIsCounted ==
    ASSUME NEW q \in Seq(QueueStep), q # <<>>
    PROVE  Cardinality(DeletesIn(Tail(q)))
               = Cardinality(DeletesIn(q)) - (IF q[1].op = "delete" THEN 1 ELSE 0)
<1> DEFINE p == Tail(q)
           S == DeletesIn(q) \ {1}
           T == DeletesIn(p)
           f == [i \in S |-> i - 1]
<1>1. /\ Len(q) \in Nat \ {0} /\ Len(p) = Len(q) - 1 /\ 1 \in 1..Len(q)
      /\ \A i \in 1..Len(p) : p[i] = q[i + 1]
    OBVIOUS
<1> HIDE DEF p
<1>2. \A i \in S : i - 1 \in T
    <2> SUFFICES ASSUME NEW i \in S PROVE i - 1 \in 1..Len(p) /\ p[i - 1].op = "delete"
        BY DEF DeletesIn
    <2>1. i \in 1..Len(q) /\ i # 1 /\ q[i].op = "delete"
        BY DEF DeletesIn
    <2>2. i - 1 \in 1..Len(p) /\ (i - 1) + 1 = i
        BY <1>1, <2>1
    <2> QED
        BY <1>1, <2>1, <2>2
<1>3. \A j \in T : j + 1 \in S
    BY <1>1 DEF DeletesIn
<1>4. S \subseteq Int /\ T \subseteq Int
    BY DEF DeletesIn
<1> HIDE DEF S, T
<1>5. f \in Injection(S, T)
    <2>1. f \in [S -> T]
        BY <1>2
    <2>2. \A i, j \in S : f[i] = f[j] => i = j
        BY <1>4
    <2> QED
        BY <2>1, <2>2 DEF Injection, IsInjective
<1>6. f \in Surjection(S, T)
    <2>1. \A j \in T : j + 1 \in S /\ f[j + 1] = j
        BY <1>3, <1>4
    <2> QED
        BY <1>2, <2>1 DEF Surjection
<1>7. ExistsBijection(S, T)
    BY <1>5, <1>6 DEF ExistsBijection, Bijection
<1>8. IsFiniteSet(DeletesIn(q)) /\ Cardinality(DeletesIn(q)) \in Nat
    BY DeletesAreFinite
<1>9. /\ IsFiniteSet(S)
      /\ Cardinality(S) = IF 1 \in DeletesIn(q) THEN Cardinality(DeletesIn(q)) - 1 ELSE Cardinality(DeletesIn(q))
    BY <1>8, FS_RemoveElement DEF S
<1>10. Cardinality(T) = Cardinality(S)
    BY <1>7, <1>9, FS_Bijection
<1>11. 1 \in DeletesIn(q) <=> q[1].op = "delete"
    BY <1>1 DEF DeletesIn
<1>12. Cardinality(T) = Cardinality(DeletesIn(q)) - (IF q[1].op = "delete" THEN 1 ELSE 0)
    BY <1>8, <1>9, <1>10, <1>11
<1> QED
    BY <1>12 DEF T, p

(* Marking the loads as superseded adds no delete and takes none.          *)
LEMMA SupersededIsCounted ==
    ASSUME HostInv, NEW c \in Chats
    PROVE  DeletesIn(Superseded(queue)[c]) = DeletesIn(queue[c])
<1>1. /\ Len(Superseded(queue)[c]) = Len(queue[c])
      /\ \A i \in 1..Len(queue[c]) : Superseded(queue)[c][i] = [queue[c][i] EXCEPT !.newest = FALSE]
    BY SupersededMarks DEF HostInv
<1>2. \A i \in 1..Len(queue[c]) : queue[c][i] \in QueueStep
    BY DEF HostInv, Shape
<1>3. \A i \in 1..Len(queue[c]) : Superseded(queue)[c][i].op = queue[c][i].op
    BY <1>1, <1>2, MarkedStep
<1> QED
    BY <1>1, <1>3 DEF DeletesIn

LEMMA InitCounted == Init => Counted
<1> SUFFICES ASSUME Init PROVE Counted
    OBVIOUS
<1>1. \A c \in Chats : queue[c] = <<>> /\ DeletesIn(queue[c]) = {}
    BY DEF Init, DeletesIn
<1> QED
    BY <1>1, FS_EmptySet DEF Init, Counted

(* A step that is no delete is asked for.                                  *)
LEMMA AskedIsCounted ==
    ASSUME HostInv, Counted, NEW c \in Chats, NEW s \in QueueStep, s.op # "delete",
           Enqueue(c, s), UNCHANGED <<deleted, deleting>>
    PROVE  Counted'
<1>1. queue \in [Chats -> Seq(QueueStep)] /\ queue' = [queue EXCEPT ![c] = Append(@, s)]
    BY DEF Enqueue, HostInv, Shape
<1>2. Cardinality(DeletesIn(queue'[c])) = Cardinality(DeletesIn(queue[c]))
    BY <1>1, AddedIsCounted, DeletesAreFinite
<1>3. \A d \in Chats : d # c => queue'[d] = queue[d]
    BY <1>1
<1> QED
    BY <1>2, <1>3 DEF Counted

(* The first step leaves the queue, and settles if it is a delete.         *)
LEMMA LeftIsCounted ==
    ASSUME HostInv, Counted, NEW c \in Chats, queue[c] # <<>>, Pop(c), deleted' \subseteq deleted \cup {c},
           IF First(c).op = "delete" THEN Settled(c) ELSE UNCHANGED deleting
    PROVE  Counted'
<1>1. queue \in [Chats -> Seq(QueueStep)] /\ queue' = [queue EXCEPT ![c] = Tail(@)]
    BY DEF Pop, HostInv, Shape
<1>2. Cardinality(DeletesIn(queue'[c]))
          = Cardinality(DeletesIn(queue[c])) - (IF First(c).op = "delete" THEN 1 ELSE 0)
    BY <1>1, PoppedIsCounted DEF First
<1>3. \A d \in Chats : d # c => queue'[d] = queue[d]
    BY <1>1
<1>4. /\ deleting' \in [Chats -> Int]
      /\ deleting'[c] = deleting[c] - (IF First(c).op = "delete" THEN 1 ELSE 0)
      /\ \A d \in Chats : d # c => deleting'[d] = deleting[d]
    BY DEF Settled, Counted
<1>5. deleting[c] = Cardinality(DeletesIn(queue[c]))
    BY DEF Counted
<1> QED
    BY <1>2, <1>3, <1>4, <1>5 DEF Counted

(* Every queue has the deletes it had.                                     *)
LEMMA SameIsCounted ==
    ASSUME Counted, UNCHANGED <<deleted, deleting>>,
           \A d \in Chats : DeletesIn(queue'[d]) = DeletesIn(queue[d])
    PROVE  Counted'
BY DEF Counted

LEMMA CountedStep == HostInv /\ Counted /\ [Next]_vars => Counted'
<1> SUFFICES ASSUME HostInv, Counted, [Next]_vars PROVE Counted'
    OBVIOUS
<1>0. queue \in [Chats -> Seq(QueueStep)] /\ \A c \in Chats : queue[c] \in Seq(QueueStep)
    BY DEF HostInv, Shape
<1>1. CASE Send
    <2>1. copies[current].chat \in Chats /\ current \in Nat
        BY <1>1, ChatOfCopy DEF Send, None, HostInv, Shape
    <2>2. Step("save", current, None, FALSE) \in QueueStep /\ Step("save", current, None, FALSE).op = "save"
        BY <2>1, NotYetIsNoRecord DEF Step, QueueStep, Ops, None
    <2> QED
        BY <1>1, <2>1, <2>2, AskedIsCounted DEF Send
<1>2. ASSUME NEW o \in 1..Len(copies), CompleteTurn(o) PROVE Counted'
    <2>1. copies[o].chat \in Chats /\ o \in Nat
        BY ChatOfCopy DEF HostInv
    <2>2. Step("save", o, None, TRUE) \in QueueStep /\ Step("save", o, None, TRUE).op = "save"
        BY <2>1, NotYetIsNoRecord DEF Step, QueueStep, Ops, None
    <2> QED
        BY <1>2, <2>1, <2>2, AskedIsCounted DEF CompleteTurn
<1>3. ASSUME NEW c \in Chats, Rename(c) PROVE Counted'
    <2>1. NextThing \in Nat /\ current \in Nat
        BY <1>3, HostAssumption DEF Rename, Things, HostInv, Shape
    <2>2. /\ Step("save", current, None, TRUE) \in QueueStep /\ Step("save", current, None, TRUE).op = "save"
          /\ Step("rename", None, NextThing, FALSE) \in QueueStep
          /\ Step("rename", None, NextThing, FALSE).op = "rename"
        BY <2>1, NotYetIsNoRecord DEF Step, QueueStep, Ops, None
    <2>3. UNCHANGED <<deleted, deleting>>
        BY <1>3 DEF Rename
    <2>4. CASE UNCHANGED queue
        BY <2>3, <2>4, SameIsCounted
    <2>5. CASE Enqueue(c, Step("save", current, None, TRUE))
        BY <2>2, <2>3, <2>5, AskedIsCounted
    <2>6. CASE Enqueue(c, Step("rename", None, NextThing, FALSE))
        BY <2>2, <2>3, <2>6, AskedIsCounted
    <2> QED
        BY <1>3, <2>4, <2>5, <2>6 DEF Rename
<1>4. ASSUME NEW c \in Chats, Open(c) PROVE Counted'
    <2>1. PICK s, q : s = Step("load", None, None, FALSE) /\ q = Superseded(queue)
        OBVIOUS
    <2>2. s \in QueueStep /\ s.op = "load"
        BY <2>1, NotYetIsNoRecord DEF Step, QueueStep, Ops, None
    <2>3. q \in [Chats -> Seq(QueueStep)] /\ \A d \in Chats : DeletesIn(q[d]) = DeletesIn(queue[d])
        BY <2>1, SupersededMarks, SupersededIsCounted DEF HostInv
    <2>4. queue' = [q EXCEPT ![c] = Append(@, s)]
        BY <1>4, <2>1 DEF Open
    <2>5. Cardinality(DeletesIn(queue'[c])) = Cardinality(DeletesIn(q[c]))
        BY <2>2, <2>3, <2>4, AddedIsCounted, DeletesAreFinite
    <2>6. \A d \in Chats : d # c => queue'[d] = q[d]
        BY <2>3, <2>4
    <2> QED
        BY <1>4, <2>3, <2>5, <2>6 DEF Counted, Open
<1>5. ASSUME NEW c \in Chats, RemoveChat(c) PROVE Counted'
    <2>1. PICK s \in QueueStep : s = Step("delete", None, None, c \in list) /\ s.op = "delete"
        BY DeleteStep
    <2>2. queue' = [queue EXCEPT ![c] = Append(@, s)]
        BY <1>5, <2>1, Zenon DEF RemoveChat, Enqueue
    <2>3. Cardinality(DeletesIn(queue'[c])) = Cardinality(DeletesIn(queue[c])) + 1
        BY <1>0, <2>1, <2>2, AddedIsCounted
    <2>4. \A d \in Chats : d # c => queue'[d] = queue[d]
        BY <1>0, <2>2
    <2>5. UNCHANGED deleted /\ deleting' = [deleting EXCEPT ![c] = @ + 1]
        BY <1>5 DEF RemoveChat
    <2> QED
        BY <2>3, <2>4, <2>5 DEF Counted
<1>6. ASSUME NEW c \in Chats, StepRefused(c) \/ SaveDone(c) \/ LoadDone(c) PROVE Counted'
    BY <1>6, LeftIsCounted DEF StepRefused, SaveDone, LoadDone, Waits, UnderWay
<1>7. ASSUME NEW c \in Chats, NotFound(c) \/ DeleteDone(c) \/ StepFails(c) PROVE Counted'
    BY <1>7, LeftIsCounted DEF NotFound, DeleteDone, StepFails, UnderWay
<1>8. ASSUME NEW c \in Chats, StepStarts(c) PROVE Counted'
    <2>1. queue[c] # <<>> /\ 1 \in 1..Len(queue[c]) /\ queue[c][1] \in QueueStep
        BY <1>8, FirstStep DEF StepStarts, Waits
    <2>2. \A i \in 1..Len(queue[c]) : Len(queue'[c]) = Len(queue[c]) /\ queue'[c][i].op = queue[c][i].op
        BY <1>0, <1>8, <2>1 DEF StepStarts, QueueStep
    <2>3. DeletesIn(queue'[c]) = DeletesIn(queue[c])
        BY <2>1, <2>2 DEF DeletesIn
    <2>4. \A d \in Chats : d # c => queue'[d] = queue[d]
        BY <1>0, <1>8 DEF StepStarts
    <2> QED
        BY <1>8, <2>3, <2>4, SameIsCounted DEF StepStarts
<1>9. ASSUME NEW c \in Chats, StartNew(c) PROVE Counted'
    BY <1>9, SupersededIsCounted, SameIsCounted DEF StartNew
<1>10. CASE RefreshList \/ ListArrives \/ UNCHANGED vars
    BY <1>10, SameIsCounted DEF RefreshList, ListArrives, vars
<1> QED
    BY <1>1, <1>2, <1>3, <1>4, <1>5, <1>6, <1>7, <1>8, <1>9, <1>10 DEF Next

(* Every variable of the store keeps its type, and a chat has as many      *)
(* deletes counted as its queue holds, whether they are done, refused or   *)
(* fail: it is gone from the list until the last of them is settled.       *)
THEOREM TypesOK == Spec => []TypeOK
<1>1. HostInv /\ Counted => TypeOK
    <2> SUFFICES ASSUME HostInv, Counted PROVE TypeOK
        OBVIOUS
    <2>1. \A c \in Chats : \A i \in 1..Len(queue[c]) : queue[c][i].op \in Ops
        <3> SUFFICES ASSUME NEW c \in Chats, NEW i \in 1..Len(queue[c]) PROVE queue[c][i].op \in Ops
            OBVIOUS
        <3>1. queue[c][i] \in QueueStep
            BY DEF HostInv, Shape
        <3> QED
            BY <3>1 DEF QueueStep
    <2>2. list \subseteq Chats
        BY ChatOfCopy DEF HostInv, Owners, Owned
    <2>3. copies \in Seq(Copy) /\ current \in 0..Len(copies) /\ store \in [Chats -> Record]
        BY DEF HostInv, Shape
    <2> QED
        BY <2>1, <2>2, <2>3 DEF TypeOK, Counted, DeletesIn, Copy, Record
<1> QED
    BY <1>1, InitCounted, CountedStep, HostInvariant, PTL DEF Spec
=============================================================================
