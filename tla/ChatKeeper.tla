----------------------------- MODULE ChatKeeper -----------------------------
(***************************************************************************)
(* What a store of chats promises the page, however it keeps them: a chat  *)
(* on record holds only what was said in it, a write loses nothing already *)
(* on record, and a chat the page was told is deleted never comes back.    *)
(***************************************************************************)
CONSTANT Chats

VARIABLES
    said,   \* everything said in each chat
    kept,   \* what of it is on record; {} too when no record is there
    gone,   \* chats the page was told are deleted
    rivals  \* chats two copies of which were written side by side: a write may undo another

vars == <<said, kept, gone, rivals>>

Init ==
    /\ said \in [Chats -> SUBSET {}]
    /\ kept = said /\ gone = {} /\ rivals = {}

(* Also in a chat that is gone: a reply was under way.                     *)
Say(c) ==
    /\ said[c] \subseteq said'[c] /\ \A d \in Chats \ {c} : said'[d] = said[d]
    /\ UNCHANGED <<kept, gone>>

Write(c) ==
    /\ c \notin gone
    /\ kept'[c] \subseteq said[c] /\ (c \notin rivals => kept[c] \subseteq kept'[c])
    /\ kept' = [kept EXCEPT ![c] = kept'[c]]
    /\ UNCHANGED <<said, gone>>

(* A delete that failed may have been done.                                *)
Delete(c) ==
    /\ kept' = [kept EXCEPT ![c] = {}]
    /\ gone' \in {gone, gone \cup {c}}
    /\ UNCHANGED said

Next ==
    /\ rivals \subseteq rivals'
    /\ \/ \E c \in Chats : Say(c) \/ Write(c) \/ Delete(c)
       \/ UNCHANGED <<said, kept, gone>>

Spec == Init /\ [][Next]_vars
=============================================================================
