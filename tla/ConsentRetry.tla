---------------------------- MODULE ConsentRetry ----------------------------
(***************************************************************************)
(* Calls of a block that need a scope its token may lack: a tip, or a post *)
(* (withConsentRetry.ts and the hooks that call through it).  A call that  *)
(* fails while the scope is missing prompts the viewer and is made once    *)
(* more when a token of the host's has the scope.  A tip carries a key, so *)
(* that its second attempt is a replay; a post has none.                   *)
(*                                                                         *)
(* The host mints tokens, shows the consent dialogs and serves the         *)
(* requests; what it pushes arrives in order, at any later time.  Every    *)
(* hook needs one scope, so a scope stands for the set of missing ones.    *)
(***************************************************************************)
EXTENDS Integers, Sequences, FiniteSets, TLC

CONSTANTS
    Tips, Posts,  \* the calls: useTip, useCreatePostFromApp
    MaxTokens     \* bound: tokens the host mints

ASSUME ConsentAssumption == MaxTokens \in Nat \ {0} /\ Tips \cap Posts = {}

Calls == Tips \cup Posts
Scopes == {"tip", "post"}
Scope(c) == IF c \in Tips THEN "tip" ELSE "post"

VARIABLES
    pc,       \* each call: idle, trying, waiting, retrying, over
    mounted,  \* mountedRef of each call's component
    ready,    \* BLOCK_INIT has landed
    token,    \* the page's token: its number and scopes
    waits,    \* inFlightConsentWaits: the scopes waited for
    latched,  \* the latest refusal heard: what it named, and the token it was heard under
    net,      \* requests on their way
    answers,  \* their answers
    pushes,   \* the host's pushes on their way: tokens and refusals
    minted,   \* the host's newest token
    barred,   \* scopes the host can never grant
    dialogs,  \* scopes the viewer is asked for
    (* what happened, for the properties                                   *)
    served,   \* keys the server has seen done
    written,  \* how often each call was carried out
    revived,  \* calls asked for when their component was gone
    asked     \* dialogs each wait under way asked for

page == <<pc, mounted, ready, token, waits, latched, asked>>
server == <<answers, served, written>>
host == <<pushes, minted, barred, dialogs>>
vars == <<page, net, revived, server, host>>

NoToken == [no |-> 0, scopes |-> {}]
NoRefusal == [no |-> 0, named |-> {}]

Init ==
    /\ pc = [c \in Calls |-> "idle"] /\ mounted = [c \in Calls |-> TRUE]
    /\ ready = FALSE /\ token = NoToken /\ waits = {} /\ latched = NoRefusal
    /\ net = {} /\ answers = {}
    /\ \E scopes \in SUBSET Scopes : minted = [no |-> 1, scopes |-> scopes]
    /\ barred \in SUBSET (Scopes \ minted.scopes)
    /\ pushes = <<[what |-> "init", token |-> minted, named |-> {}]>> /\ dialogs = {}
    /\ served = {} /\ written = [c \in Calls |-> 0] /\ revived = {}
    /\ asked = [s \in Scopes |-> 0]

Try(c) == IF pc[c] = "trying" THEN 1 ELSE 2
InFlight(c) == pc[c] \in {"trying", "retrying"}
NotHeard(c) == answers' = {a \in answers : a.call # c}

(***************************************************************************)
(* Plausible slips in the code, each for the definition it is named for.   *)
(* The specification uses none of them: put in that definition's place,    *)
(* each breaks the property it is there for.                               *)
(***************************************************************************)
FreshKey(c, try) == <<c, try>>          \* for KeyOf
NeverShares(s) == FALSE                 \* for Joins
WaitsOutTheTimer(t) == {}               \* for GrantedBy
FromTheClosure(c, try, t) ==            \* for Request
    [call |-> c, try |-> try, key |-> <<c>>, scopes |-> token.scopes]

(* Minted outside the closure that a retry calls again.                    *)
KeyOf(c, try) == <<c>>

(* A tip reads the token as it is sent; a post goes through the host.      *)
Request(c, try, t) == [call |-> c, try |-> try, key |-> KeyOf(c, try), scopes |-> t.scopes]

(* A tip needs the host's origin; a message sent before BLOCK_INIT waits.  *)
Ask(c) ==
    /\ pc[c] = "idle" /\ (c \in Tips => ready)
    /\ pc' = [pc EXCEPT ![c] = "trying"]
    /\ net' = net \cup {Request(c, 1, token)}
    /\ UNCHANGED <<mounted, ready, token, waits, latched, asked, revived, server, host>>

(* Rule 4: a post that timed out may be there; one declined is answered.   *)
CallerMarkedFinal(c, err) == err = "declined" \/ (err = "timeout" /\ c \in Posts)

(* Rule 2: the latest refusal, while the token it was heard under is the   *)
(* page's, of this scope or of scopes it does not tell.                    *)
Refused(s) == latched.no # 0 /\ latched.no = token.no /\ (latched.named = {} \/ s \in latched.named)

LacksConsent(c, err) ==
    /\ pc[c] = "trying" /\ ~CallerMarkedFinal(c, err)
    /\ ready /\ Scope(c) \notin token.scopes
    /\ ~Refused(Scope(c))

(* awaitConsentGrantShared: a wait for the scope, or the one there is.     *)
Joins(s) == s \in waits

Prompt(s) ==
    /\ waits' = waits \cup {s}
    /\ IF Joins(s) THEN UNCHANGED <<dialogs, asked>>
       ELSE /\ dialogs' = dialogs \cup {s}
            /\ asked' = [asked EXCEPT ![s] = @ + 1]

(* The catch of withConsentRetry, for an attempt that failed.              *)
Fails(c, err) ==
    IF LacksConsent(c, err)
    THEN pc' = [pc EXCEPT ![c] = "waiting"] /\ Prompt(Scope(c))
    ELSE pc' = [pc EXCEPT ![c] = "over"] /\ UNCHANGED <<waits, dialogs, asked>>

Hear(c) ==
    \E a \in answers :
        /\ a.call = c
        /\ answers' = answers \ {a}
        /\ IF a.what = "done"
           THEN pc' = [pc EXCEPT ![c] = "over"] /\ UNCHANGED <<waits, dialogs, asked>>
           ELSE Fails(c, a.what)
        /\ UNCHANGED <<mounted, ready, token, latched, net, revived, served, written, pushes, minted, barred>>

(* TIP_REQUEST_TIMEOUT_MS, RequestTimeoutError: the request may arrive yet.*)
TimesOut(c) ==
    /\ InFlight(c)
    /\ Fails(c, "timeout") /\ NotHeard(c)
    /\ UNCHANGED <<mounted, ready, token, latched, net, revived, served, written, pushes, minted, barred>>

(* A tip under way is aborted, which is final; a post goes on.             *)
Unmount(c) ==
    /\ mounted[c] /\ pc[c] \in {"trying", "waiting", "retrying"}
    /\ mounted' = [mounted EXCEPT ![c] = FALSE]
    /\ IF c \in Tips /\ InFlight(c)
       THEN pc' = [pc EXCEPT ![c] = "over"] /\ NotHeard(c)
       ELSE UNCHANGED <<pc, answers>>
    /\ UNCHANGED <<ready, token, waits, latched, asked, net, revived, served, written, host>>

(* isActive, read when the wait is over.                                   *)
IsActive(c) == mounted[c]

(* The waits for some scopes end, granted or not: each caller makes its    *)
(* one retry, with its own key, or throws its own error.                   *)
WaitsEnd(granted, given, t) ==
    LET again == {c \in Calls : pc[c] = "waiting" /\ Scope(c) \in granted /\ IsActive(c)}
    IN /\ waits' = waits \ (granted \cup given)
       /\ pc' = [c \in Calls |-> IF c \in again THEN "retrying"
                                 ELSE IF pc[c] = "waiting" /\ Scope(c) \in granted \cup given
                                 THEN "over" ELSE pc[c]]
       /\ net' = net \cup {Request(c, 2, t) : c \in again}
       /\ revived' = revived \cup {c \in again : ~mounted[c]}
       /\ asked' = [s \in Scopes |-> IF s \in granted \cup given THEN 0 ELSE asked[s]]

(* Every wait hears each change of the token.                              *)
GrantedBy(t) == waits \cap t.scopes

(* BLOCK_INIT, TOKEN_REFRESH, or CONSENT_UNAVAILABLE, which ends every     *)
(* wait whatever it names.                                                 *)
HearPush ==
    LET p == Head(pushes)
    IN /\ pushes # <<>>
       /\ pushes' = Tail(pushes)
       /\ IF p.what = "refusal"
          THEN /\ latched' = [no |-> token.no, named |-> p.named]
               /\ WaitsEnd({}, waits, token)
               /\ UNCHANGED <<ready, token>>
          ELSE /\ token' = p.token /\ ready' = TRUE
               /\ WaitsEnd(GrantedBy(p.token), {}, p.token)
               /\ UNCHANGED latched
       /\ UNCHANGED <<mounted, minted, barred, dialogs, server>>

(* CONSENT_GRANT_WAIT_MS.                                                  *)
WaitTimesOut(s) ==
    /\ s \in waits
    /\ WaitsEnd({}, {s}, token)
    /\ UNCHANGED <<mounted, ready, token, latched, server, host>>
-----------------------------------------------------------------------------
(* The host and the server.                                                *)

Push(what, t, named) == pushes' = Append(pushes, [what |-> what, token |-> t, named |-> named])

Mint(scopes) ==
    /\ minted.no < MaxTokens
    /\ minted' = [no |-> minted.no + 1, scopes |-> scopes]
    /\ Push("token", minted', {})

(* The viewer's answer to a dialog, or the host's own: a scope it can      *)
(* never grant is refused, by name or not.  A dialog closed says nothing.  *)
AnswerDialog(s) ==
    /\ s \in dialogs /\ dialogs' = dialogs \ {s}
    /\ \/ s \in barred /\ (\E named \in {{s}, {}} : Push("refusal", NoToken, named)) /\ UNCHANGED minted
       \/ s \notin barred /\ Mint(minted.scopes \cup {s})
       \/ s \notin barred /\ UNCHANGED <<pushes, minted>>
    /\ UNCHANGED <<page, net, revived, server, barred>>

(* A token is renewed, perhaps with scopes taken back.                     *)
Rotate ==
    /\ \E scopes \in SUBSET minted.scopes : Mint(scopes)
    /\ UNCHANGED <<page, net, revived, server, barred, dialogs>>

Holds(q) == Scope(q.call) \in (IF q.call \in Tips THEN q.scopes ELSE minted.scopes)

(* A key that was served is answered as before; a post may be declined,    *)
(* anything may fail.  No one hears the answer to an attempt given up on.  *)
Serve(q) ==
    LET outcomes == IF ~Holds(q) THEN {"refused"}
                    ELSE {"done", "error"} \cup (IF q.call \in Posts THEN {"declined"} ELSE {})
        replay == q.call \in Tips /\ q.key \in served
    IN /\ ready
       /\ net' = net \ {q}
       /\ \E what \in outcomes :
              /\ answers' = IF InFlight(q.call) /\ q.try = Try(q.call)
                            THEN answers \cup {[call |-> q.call, what |-> what]} ELSE answers
              /\ served' = IF what = "done" THEN served \cup {q.key} ELSE served
              /\ written' = IF what = "done" /\ ~replay
                            THEN [written EXCEPT ![q.call] = @ + 1] ELSE written
       /\ UNCHANGED <<page, revived, host>>

Next ==
    \/ \E c \in Calls : Ask(c) \/ Hear(c) \/ TimesOut(c) \/ Unmount(c)
    \/ HearPush \/ Rotate
    \/ \E s \in Scopes : WaitTimesOut(s) \/ AnswerDialog(s)
    \/ \E q \in net : Serve(q)

Spec == Init /\ [][Next]_vars
-----------------------------------------------------------------------------
(* A call is carried out at most once, though its first attempt may have   *)
(* timed out after it was, and none is asked for again when its component  *)
(* is gone (the money rule, rules 3 and 4).                                *)
PaidOnce == revived = {} /\ \A c \in Calls : written[c] <= 1

(* However many calls wait for a scope, one dialog asks for it, and every  *)
(* call that waits has a wait to end it (inFlightConsentWaits).            *)
OneDialog ==
    /\ \A s \in Scopes : asked[s] = IF s \in waits THEN 1 ELSE 0
    /\ waits = {Scope(c) : c \in {d \in Calls : pc[d] = "waiting"}}

(* No call waits for a scope the token has: a grant asked for by another   *)
(* call, or that came late, is heard by all (awaitConsentGrant).           *)
GrantIsHeard == waits \cap token.scopes = {}

(* A retry is sent with the scope it waited for: with the token that ended *)
(* the wait, not the one the call began with (postTipOnce).                *)
RetryHasTheGrant == \A q \in net : q.try = 2 => Scope(q.call) \in q.scopes

(* The calls of one hook are alike.                                        *)
Alike == Permutations(Tips)
=============================================================================
