------------------------------ MODULE HostStore ------------------------------
(***************************************************************************)
(* The chats of a page kept by the host's own store (HostThreadStore,      *)
(* host-store.ts).  Every write of a chat, its delete and its loading go   *)
(* through the chat's queue, one at a time in the order asked, while the   *)
(* viewer sends, renames, opens, deletes and lists chats.                  *)
(*                                                                         *)
(* A conversation is what was said in it: messages, replies, its title and *)
(* its model alike.  The page holds a copy of a chat from each time it     *)
(* opened it: a reply ends in the copy it was asked in.                    *)
(***************************************************************************)
EXTENDS Integers, Sequences, FiniteSets

CONSTANTS
    Chats,
    MaxCopies,  \* bound: copies of chats the page makes
    MaxSaid,    \* bound: things said
    MaxAsked,   \* bound: opens, deletes and listings asked for
    MaxFaults   \* bound: store calls that fail

ASSUME HostAssumption == \A b \in {MaxCopies, MaxSaid, MaxAsked, MaxFaults} : b \in Nat

Copies == 1..MaxCopies
Things == 1..MaxSaid
None == 0
Ops == {"save", "load", "rename", "delete"}

VARIABLES
    copies,    \* the Conversation objects made: their chat, what was said, a reply under way
    current,   \* the open one
    store,     \* the host's store: what each chat holds, and whether it is there
    queue,     \* #saves: the steps of each chat, the first of them under way
    deleted,   \* #deleted
    deleting,  \* #deleting
    list,      \* summaries
    listing,   \* the answer of a list call, once it was read, on its way
    (* what happened, for the properties and the bounds                    *)
    told,      \* everything said in each chat
    rivals,    \* chats written from two copies side by side
    unsaved,   \* copies whose latest save failed, or was undone by a delete that failed
    wanted,    \* the chat the viewer last opened or started, and got
    asked, faults

vars == <<copies, current, store, queue, deleted, deleting, list, listing, told, rivals, unsaved,
          wanted, asked, faults>>

NoRecord == [there |-> FALSE, said |-> {}]
NotYet == [there |-> FALSE, said |-> {None}]    \* a call not made yet
Step(op, copy, thing, listed) ==
    [op |-> op, copy |-> copy, thing |-> thing, listed |-> listed, newest |-> op = "load", call |-> NotYet]

Init ==
    /\ copies = <<>> /\ current = None
    /\ store = [c \in Chats |-> NoRecord]
    /\ queue = [c \in Chats |-> <<>>]
    /\ deleted = {} /\ deleting = [c \in Chats |-> 0] /\ list = {} /\ listing = {}
    /\ told = [c \in Chats |-> {}] /\ rivals = {} /\ unsaved = {} /\ wanted = {}
    /\ asked = 0 /\ faults = 0

Saids == UNION {told[c] : c \in Chats}
NextThing == Cardinality(Saids) + 1
Fault == faults < MaxFaults /\ faults' = faults + 1
Asks == asked < MaxAsked /\ asked' = asked + 1
Gone(c) == c \in deleted \/ deleting[c] > 0
Used == {copies[o].chat : o \in 1..Len(copies)} \cup {c \in Chats : store[c].there} \cup deleted
Busy(c) == \E o \in 1..Len(copies) : copies[o].chat = c /\ copies[o].busy
ToldAbout(c, n) == told' = [told EXCEPT ![c] = @ \cup {n}]

(***************************************************************************)
(* Plausible slips in the code, each for the definition it is named for.   *)
(* The specification uses none of them: put in that definition's place,    *)
(* each breaks the property it is there for.                               *)
(***************************************************************************)
SavesAnyway(c, op) == op = "load" /\ c \in deleted       \* for Refused
LatestToLandWins(s) == TRUE                              \* for StillWanted
NeverSettles(c) == UNCHANGED deleting                    \* for Settled
ForgetsTheRest(c) == queue' = [queue EXCEPT ![c] = <<>>]  \* for Pop
ListsWhatItRead(listed) == listed                        \* for Listed

(* #queue.                                                                 *)
Enqueue(c, s) == queue' = [queue EXCEPT ![c] = Append(@, s)]

(* A newer open, or a new chat: the loads under way are superseded.        *)
Superseded(q) == [c \in Chats |-> [i \in 1..Len(q[c]) |-> [q[c][i] EXCEPT !.newest = FALSE]]]

Touch(c) == list' = IF Gone(c) THEN list ELSE list \cup {c}

(* startNew, as the first message of it asks for it.                       *)
StartNew(c) ==
    /\ c \notin Used /\ Len(copies) < MaxCopies
    /\ copies' = Append(copies, [chat |-> c, said |-> {}, busy |-> FALSE])
    /\ current' = Len(copies) + 1
    /\ queue' = Superseded(queue)
    /\ wanted' = {c}
    /\ UNCHANGED <<store, deleted, deleting, list, listing, told, rivals, unsaved, asked, faults>>

(* appendUserTurn, and a model or a title set meanwhile with it.           *)
Send ==
    LET c == copies[current].chat
    IN /\ current # None /\ ~copies[current].busy /\ NextThing \in Things
       /\ copies' = [copies EXCEPT ![current].said = @ \cup {NextThing}, ![current].busy = TRUE]
       /\ Enqueue(c, Step("save", current, None, FALSE))
       /\ Touch(c) /\ ToldAbout(c, NextThing)
       /\ UNCHANGED <<current, store, deleted, deleting, listing, rivals, unsaved, wanted, asked, faults>>

(* completeTurn: in the copy the reply was asked in, open or not.          *)
CompleteTurn(o) ==
    LET c == copies[o].chat
    IN /\ copies[o].busy /\ NextThing \in Things
       /\ copies' = [copies EXCEPT ![o].said = @ \cup {NextThing}, ![o].busy = FALSE]
       /\ Enqueue(c, Step("save", o, None, TRUE))
       /\ ToldAbout(c, NextThing)
       /\ UNCHANGED <<current, store, deleted, deleting, list, listing, rivals, unsaved, wanted, asked, faults>>

(* rename, and setTitle where the chat is open: saved at once unless a     *)
(* reply is to carry it.  Of a chat without a message it is not kept.      *)
Rename(c) ==
    /\ NextThing \in Things /\ ToldAbout(c, NextThing)
    /\ IF current # None /\ copies[current].chat = c
       THEN /\ copies[current].said # {}
            /\ copies' = [copies EXCEPT ![current].said = @ \cup {NextThing}]
            /\ IF copies[current].busy
               THEN UNCHANGED queue
               ELSE Enqueue(c, Step("save", current, None, TRUE))
            /\ UNCHANGED rivals
            /\ Touch(c)
       ELSE /\ c \in list
            /\ Enqueue(c, Step("rename", None, NextThing, FALSE))
            /\ rivals' = IF Busy(c) THEN rivals \cup {c} ELSE rivals
            /\ UNCHANGED <<copies, list>>
    /\ UNCHANGED <<current, store, deleted, deleting, listing, unsaved, wanted, asked, faults>>

Open(c) ==
    /\ Asks
    /\ queue' = [Superseded(queue) EXCEPT ![c] = Append(@, Step("load", None, None, FALSE))]
    /\ wanted' = {c}
    /\ UNCHANGED <<copies, current, store, deleted, deleting, list, listing, told, rivals, unsaved, faults>>

(* remove: off the list at once.                                           *)
RemoveChat(c) ==
    /\ Asks
    /\ deleting' = [deleting EXCEPT ![c] = @ + 1]
    /\ list' = list \ {c}
    /\ Enqueue(c, Step("delete", None, None, c \in list))
    /\ UNCHANGED <<copies, current, store, deleted, listing, told, rivals, unsaved, wanted, faults>>
-----------------------------------------------------------------------------
(* The queue.                                                              *)

First(c) == queue[c][1]
Waits(c) == queue[c] # <<>> /\ First(c).call = NotYet
UnderWay(c) == queue[c] # <<>> /\ First(c).call # NotYet
Pop(c) == queue' = [queue EXCEPT ![c] = Tail(@)]

(* Of a deleted chat nothing is written, loaded or deleted again.          *)
Refused(c, op) == c \in deleted

(* #record: a save is built as its turn comes, a rename from what is there.*)
Built(s) == [there |-> TRUE, said |-> copies[s.copy].said]
Call(c) ==
    LET s == First(c)
    IN CASE s.op = "save" -> Built(s)
         [] s.op = "rename" /\ store[c].there -> [store[c] EXCEPT !.said = @ \cup {s.thing}]
         [] OTHER -> store[c]

Settled(c) == deleting' = [deleting EXCEPT ![c] = @ - 1]

StepStarts(c) ==
    /\ Waits(c) /\ ~Refused(c, First(c).op)
    /\ queue' = [queue EXCEPT ![c][1].call = Call(c)]
    /\ UNCHANGED <<copies, current, store, deleted, deleting, list, listing, told, rivals, unsaved,
                   wanted, asked, faults>>

(* What the viewer wanted open is what is, when an open comes to nothing.  *)
StaysOpen(s) ==
    wanted' = IF s.op = "load" /\ s.newest
              THEN (IF current = None THEN {} ELSE {copies[current].chat}) ELSE wanted

(* remove, once the chat is gone: it is not the open one either.           *)
Leave(c) == current' = IF current # None /\ copies[current].chat = c THEN None ELSE current

StepRefused(c) ==
    /\ Waits(c) /\ Refused(c, First(c).op)
    /\ Pop(c) /\ StaysOpen(First(c))
    /\ IF First(c).op = "delete"
       THEN Settled(c) /\ list' = list \ {c} /\ Leave(c)
       ELSE UNCHANGED <<deleting, list, current>>
    /\ UNCHANGED <<copies, store, deleted, listing, told, rivals, unsaved, asked, faults>>

SaveDone(c) ==
    LET s == First(c)
    IN /\ UnderWay(c) /\ s.op \in {"save", "rename"}
       /\ Pop(c)
       /\ store' = [store EXCEPT ![c] = s.call]
       /\ unsaved' = unsaved \ {s.copy}
       /\ IF s.listed THEN Touch(c) ELSE UNCHANGED list
       /\ UNCHANGED <<copies, current, deleted, deleting, listing, told, rivals, wanted, asked, faults>>

(* The viewer opened or started another chat meanwhile: not taken.         *)
StillWanted(s) == s.newest

LoadDone(c) ==
    LET s == First(c)
    IN /\ UnderWay(c) /\ s.op = "load" /\ Len(copies) < MaxCopies
       /\ Pop(c)
       /\ IF StillWanted(s)
          THEN /\ copies' = Append(copies, [chat |-> c, said |-> s.call.said, busy |-> FALSE])
               /\ current' = Len(copies) + 1
               /\ rivals' = IF Busy(c) \/ \E i \in 2..Len(queue[c]) : queue[c][i].op \in {"save", "rename"}
                            THEN rivals \cup {c} ELSE rivals
          ELSE UNCHANGED <<copies, current, rivals>>
       /\ UNCHANGED <<store, deleted, deleting, list, listing, told, unsaved, wanted, asked, faults>>

(* A chat asked for by a link that is not there (notFoundError).           *)
NotFound(c) ==
    /\ UnderWay(c) /\ First(c).op = "load" /\ ~First(c).call.there
    /\ Pop(c) /\ StaysOpen(First(c))
    /\ UNCHANGED <<copies, current, store, deleted, deleting, list, listing, told, rivals, unsaved,
                   asked, faults>>

DeleteDone(c) ==
    /\ UnderWay(c) /\ First(c).op = "delete"
    /\ Pop(c) /\ Settled(c) /\ Leave(c)
    /\ store' = [store EXCEPT ![c] = NoRecord]
    /\ deleted' = deleted \cup {c}
    /\ list' = list \ {c}
    /\ UNCHANGED <<copies, listing, told, rivals, unsaved, wanted, asked, faults>>

(* The call fails, perhaps after it was done.  A chat whose delete failed  *)
(* is listed again, unless another delete of it is on its way.             *)
StepFails(c) ==
    LET s == First(c)
    IN /\ UnderWay(c) /\ Fault
       /\ Pop(c) /\ StaysOpen(s)
       /\ store' \in {store, [store EXCEPT ![c] = IF s.op = "delete" THEN NoRecord ELSE s.call]}
       /\ unsaved' = unsaved \cup
              CASE s.op = "save" -> {s.copy}
                [] s.op = "delete" /\ ~store'[c].there -> {o \in 1..Len(copies) : copies[o].chat = c}
                [] OTHER -> {}
       /\ IF s.op = "delete"
          THEN /\ Settled(c)
               /\ list' = IF s.listed /\ deleting[c] = 1 THEN list \cup {c} ELSE list
          ELSE UNCHANGED <<deleting, list>>
       /\ UNCHANGED <<copies, current, deleted, listing, told, rivals, asked>>
-----------------------------------------------------------------------------
(* refreshList: the list is emptied, the host's read, and, later, what was *)
(* read listed but for the chats gone since.                               *)
Listed(listed) == {c \in listed : ~Gone(c)}

RefreshList ==
    /\ Asks
    /\ list' = {}
    /\ listing' = {{c \in Chats : store[c].there}}
    /\ UNCHANGED <<copies, current, store, queue, deleted, deleting, told, rivals, unsaved, wanted, faults>>

ListArrives ==
    \E listed \in listing :
        /\ listing' = {}
        /\ list' = list \cup Listed(listed)
        /\ UNCHANGED <<copies, current, store, queue, deleted, deleting, told, rivals, unsaved, wanted,
                       asked, faults>>

Next ==
    \/ Send \/ RefreshList \/ ListArrives
    \/ \E c \in Chats : StartNew(c) \/ Rename(c) \/ Open(c) \/ RemoveChat(c)
    \/ \E c \in Chats : StepStarts(c) \/ StepRefused(c) \/ SaveDone(c) \/ LoadDone(c)
                        \/ NotFound(c) \/ DeleteDone(c) \/ StepFails(c)
    \/ \E o \in 1..Len(copies) : CompleteTurn(o)

Spec == Init /\ [][Next]_vars
-----------------------------------------------------------------------------
(* Everything has its type, and the deletes counted are those queued.      *)
TypeOK ==
    /\ copies \in Seq([chat : Chats, said : SUBSET Things, busy : BOOLEAN])
    /\ current \in 0..Len(copies)
    /\ store \in [Chats -> [there : BOOLEAN, said : SUBSET Things]]
    /\ \A c \in Chats : \A i \in 1..Len(queue[c]) : queue[c][i].op \in Ops
    /\ list \subseteq Chats /\ deleted \subseteq Chats
    /\ \A c \in Chats : deleting[c] = Cardinality({i \in 1..Len(queue[c]) : queue[c][i].op = "delete"})

(* A chat that was deleted is not in the store, not listed and not open,   *)
(* whatever was queued, on its way or being read when it went (#deleted).  *)
DeletedStaysGone ==
    \A c \in deleted : ~store[c].there /\ c \notin list /\ (current = None \/ copies[current].chat # c)

(* The chat that is open is the one the viewer opened or started last,     *)
(* however late the loads of others come (#generation).                    *)
LatestOpenWins ==
    current = None \/ wanted = {copies[current].chat}
        \/ \E c \in Chats : \E i \in 1..Len(queue[c]) : queue[c][i].newest

(* Once a chat's queue is through, its record has everything said in a     *)
(* copy of it, but for a save that failed: a delete the host refused, an   *)
(* older save or a rename takes nothing away (#queue, remove).             *)
NothingSaidIsLost ==
    \A o \in 1..Len(copies) :
        LET c == copies[o].chat
        IN ~copies[o].busy /\ queue[c] = <<>> /\ c \notin rivals \cup deleted /\ o \notin unsaved
              => copies[o].said \subseteq store[c].said

(* The store does for the page what a keeper of chats promises.            *)
Keeper == INSTANCE ChatKeeper WITH said <- told, kept <- [c \in Chats |-> store[c].said], gone <- deleted
KeepsChats == Keeper!Spec
=============================================================================
