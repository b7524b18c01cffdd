--------------------------- MODULE ConsentProofs ---------------------------
(***************************************************************************)
(* The money rule of withConsentRetry, for any number of calls and tokens: *)
(* no call is carried out twice, one dialog asks for a scope, no wait      *)
(* misses its grant, and each retry is sent with the scope it waited for.  *)
(***************************************************************************)
EXTENDS ConsentRetry, TLAPS

(* What the parts below need of the types.                                 *)
Shape ==
    /\ pc \in [Calls -> {"idle", "trying", "waiting", "retrying", "over"}]
    /\ asked \in [Scopes -> Nat]
    /\ written \in [Calls -> Nat]
    /\ \A q \in net : q.call \in Calls /\ q.try \in {1, 2} /\ q.key = <<q.call>>
    /\ \A a \in answers : a.call \in Calls

(* Whoever is answered still listens, and is answered once.                *)
OneAnswer ==
    /\ \A a \in answers : InFlight(a.call)
    /\ \A a, b \in answers : a.call = b.call => a = b

(* An attempt is sent once, and is on its way or answered, not both.       *)
OneRequest ==
    /\ \A q, r \in net : q.call = r.call /\ q.try = r.try => q = r
    /\ \A q \in net : pc[q.call] # "idle"
    /\ \A q \in net : q.try = 2 => pc[q.call] \in {"retrying", "over"}
    /\ \A q \in net : InFlight(q.call) /\ q.try = Try(q.call) => \A a \in answers : a.call # q.call

(* A tip that was carried out has left its key with the server.            *)
TipsReplay == \A c \in Tips : written[c] = 0 \/ (written[c] = 1 /\ <<c>> \in served)

(* A post waits for a scope only when it was not made and cannot be yet,   *)
(* so that the retry's request is the only one there is.                   *)
PostsAreFinal ==
    /\ \A c \in Posts : written[c] <= 1
    /\ \A c \in Posts : pc[c] \in {"idle", "waiting"} => written[c] = 0
    /\ \A q \in net : q.call \in Posts => written[q.call] = 0 /\ pc[q.call] # "waiting"
    /\ \A q, r \in net : q.call \in Posts /\ q.call = r.call => q = r
    /\ \A a \in answers : a.call \in Posts =>
           (a.what # "done" => written[a.call] = 0) /\ \A q \in net : q.call # a.call

ConsentInv ==
    /\ Shape /\ OneAnswer /\ OneRequest /\ TipsReplay /\ PostsAreFinal
    /\ revived = {} /\ OneDialog /\ GrantIsHeard /\ RetryHasTheGrant

(* Each call needs one of the scopes, and is a tip or a post, not both.    *)
LEMMA ScopeOfCall == \A c \in Calls : Scope(c) \in Scopes /\ (c \in Tips <=> c \notin Posts)
BY ConsentAssumption DEF Calls, Scopes, Scope

LEMMA InitConsent == Init => ConsentInv
<1> SUFFICES ASSUME Init PROVE ConsentInv
    OBVIOUS
<1>1. pc = [c \in Calls |-> "idle"] /\ waits = {} /\ net = {} /\ answers = {} /\ revived = {}
      /\ written = [c \in Calls |-> 0] /\ asked = [s \in Scopes |-> 0]
    BY DEF Init
<1>2. Shape /\ OneAnswer /\ OneRequest /\ OneDialog
    BY <1>1 DEF Shape, OneAnswer, OneRequest, OneDialog
<1>3. TipsReplay /\ PostsAreFinal
    BY <1>1 DEF TipsReplay, PostsAreFinal, Calls
<1>4. GrantIsHeard /\ RetryHasTheGrant
    BY <1>1 DEF GrantIsHeard, RetryHasTheGrant
<1> QED
    BY <1>1, <1>2, <1>3, <1>4 DEF ConsentInv

(* The first attempt: nothing of the call is on its way yet.               *)
LEMMA AskKeeps == ASSUME ConsentInv, NEW c \in Calls, Ask(c) PROVE ConsentInv'
<1> DEFINE new == Request(c, 1, token)
<1>1. /\ pc[c] = "idle" /\ pc' = [pc EXCEPT ![c] = "trying"] /\ net' = net \cup {new}
      /\ UNCHANGED <<token, waits, asked, revived, answers, served, written>>
      /\ Shape /\ OneAnswer /\ OneRequest /\ TipsReplay /\ PostsAreFinal /\ OneDialog
    BY DEF Ask, ConsentInv, server
<1>2. new.call = c /\ new.try = 1 /\ new.key = <<c>>
    BY DEF Request, KeyOf
<1> HIDE DEF new
<1>3. \A q \in net : q.call # c
    BY <1>1 DEF OneRequest
<1>4. \A a \in answers : a.call # c
    BY <1>1 DEF OneAnswer, InFlight
<1>5. pc'[c] = "trying" /\ \A d \in Calls : d # c => pc'[d] = pc[d]
    BY <1>1 DEF Shape
<1>6. Shape'
    BY <1>1, <1>2 DEF Shape
<1>7. OneAnswer'
    BY <1>1, <1>4 DEF OneAnswer, InFlight
<1>8. OneRequest'
    <2>1. \A q \in net : pc'[q.call] = pc[q.call]
        BY <1>1, <1>3
    <2> QED
        BY <1>1, <1>2, <1>3, <1>4, <1>5, <2>1 DEF OneRequest, InFlight, Try
<1>9. TipsReplay' /\ PostsAreFinal'
    BY <1>1, <1>2, <1>3, <1>4, <1>5 DEF TipsReplay, PostsAreFinal, Calls
<1>10. OneDialog'
    BY <1>1, <1>5 DEF OneDialog
<1>11. revived' = {} /\ GrantIsHeard' /\ RetryHasTheGrant'
    BY <1>1, <1>2 DEF ConsentInv, GrantIsHeard, RetryHasTheGrant
<1> QED
    BY <1>6, <1>7, <1>8, <1>9, <1>10, <1>11 DEF ConsentInv

(* A failed attempt whose answer, if any, was taken: no call is retried    *)
(* here, and a post that waits was neither made nor is on its way.         *)
LEMMA FailsKeeps ==
    ASSUME ConsentInv, NEW c \in Calls, NEW err, InFlight(c), Fails(c, err), NotHeard(c),
           UNCHANGED <<token, net, revived, served, written>>,
           c \in Posts /\ ~CallerMarkedFinal(c, err) =>
               written[c] = 0 /\ \A q \in net : q.call # c
    PROVE  ConsentInv'
<1>1. /\ UNCHANGED <<token, net, revived, served, written>> /\ answers' = {a \in answers : a.call # c}
      /\ Shape /\ OneAnswer /\ OneRequest /\ TipsReplay /\ PostsAreFinal /\ OneDialog
    BY DEF ConsentInv, NotHeard
<1>2. pc' = [pc EXCEPT ![c] = "waiting"] \/ pc' = [pc EXCEPT ![c] = "over"]
    BY DEF Fails
<1>3. \A d \in Calls : d # c => pc'[d] = pc[d]
    BY <1>1, <1>2 DEF Shape
<1>4. pc'[c] = "waiting" => LacksConsent(c, err)
    BY <1>1 DEF Fails, Shape
<1>5. Shape'
    <2>1. asked' \in [Scopes -> Nat]
        BY <1>1, ScopeOfCall DEF Shape, Fails, Prompt
    <2> QED
        BY <1>1, <1>2, <2>1 DEF Shape
<1>6. OneAnswer'
    <2>1. \A a \in answers' : a \in answers /\ a.call # c /\ a.call \in Calls
        BY <1>1 DEF Shape
    <2>2. \A a \in answers' : pc'[a.call] = pc[a.call]
        BY <1>3, <2>1
    <2> QED
        BY <1>1, <1>2, <2>1, <2>2 DEF OneAnswer, InFlight, Shape
<1>7. OneRequest'
    <2>1. \A q \in net : q.try = 2 => pc'[q.call] \in {"retrying", "over"}
        BY <1>1, <1>2, <1>3, <1>4 DEF OneRequest, Shape, LacksConsent
    <2>2. pc'[c] \in {"waiting", "over"}
        BY <1>1, <1>2 DEF Shape
    <2>3. \A q \in net : q.call # c => pc'[q.call] = pc[q.call]
        BY <1>1, <1>3 DEF Shape
    <2> QED
        BY <1>1, <2>1, <2>2, <2>3 DEF OneRequest, InFlight, Try
<1>8. TipsReplay'
    BY <1>1 DEF TipsReplay
<1>9. PostsAreFinal'
    <2>1. c \in Posts /\ pc'[c] = "waiting" => written[c] = 0 /\ \A q \in net : q.call # c
        BY <1>4 DEF LacksConsent
    <2>2. pc'[c] # "idle"
        BY <1>1, <1>2 DEF Shape
    <2> QED
        BY <1>1, <1>3, <2>1, <2>2 DEF PostsAreFinal, Calls
<1>10. OneDialog'
    <2>1. CASE LacksConsent(c, err)
        <3>1. pc' = [pc EXCEPT ![c] = "waiting"] /\ waits' = waits \cup {Scope(c)}
              /\ asked' = IF Scope(c) \in waits THEN asked ELSE [asked EXCEPT ![Scope(c)] = @ + 1]
            BY <2>1 DEF Fails, Prompt, Joins
        <3>2. pc[c] # "waiting"
            BY DEF InFlight
        <3>3. waits' = {Scope(d) : d \in {d \in Calls : pc'[d] = "waiting"}}
            BY <1>1, <3>1, <3>2 DEF OneDialog, Shape
        <3>4. \A s \in Scopes : asked'[s] = IF s \in waits' THEN 1 ELSE 0
            BY <1>1, <3>1, ScopeOfCall DEF OneDialog, Shape
        <3> QED
            BY <3>3, <3>4 DEF OneDialog
    <2>2. CASE ~LacksConsent(c, err)
        <3>1. pc' = [pc EXCEPT ![c] = "over"] /\ UNCHANGED <<waits, asked>> /\ pc[c] # "waiting"
            BY <2>2 DEF Fails, InFlight
        <3> QED
            BY <1>1, <3>1 DEF OneDialog, Shape
    <2> QED
        BY <2>1, <2>2
<1>11. GrantIsHeard'
    BY DEF ConsentInv, GrantIsHeard, Fails, Prompt, LacksConsent
<1>12. revived' = {} /\ RetryHasTheGrant'
    BY <1>1 DEF ConsentInv, RetryHasTheGrant
<1> QED
    BY <1>5, <1>6, <1>7, <1>8, <1>9, <1>10, <1>11, <1>12 DEF ConsentInv

(* A call that ends in flight: answered, or gone with its component.       *)
LEMMA OverKeeps ==
    ASSUME ConsentInv, NEW c \in Calls, InFlight(c), pc' = [pc EXCEPT ![c] = "over"], NotHeard(c),
           UNCHANGED <<token, waits, asked, net, revived, served, written>>
    PROVE  ConsentInv'
<1>1. /\ answers' = {a \in answers : a.call # c}
      /\ Shape /\ OneAnswer /\ OneRequest /\ TipsReplay /\ PostsAreFinal /\ OneDialog
    BY DEF ConsentInv, NotHeard
<1>2. pc'[c] = "over" /\ pc[c] \in {"trying", "retrying"} /\ \A d \in Calls : d # c => pc'[d] = pc[d]
    BY <1>1 DEF Shape, InFlight
<1>3. Shape'
    BY <1>1 DEF Shape
<1>4. OneAnswer'
    BY <1>1 DEF OneAnswer, InFlight, Shape
<1>5. OneRequest'
    BY <1>1, <1>2 DEF OneRequest, InFlight, Try, Shape
<1>6. TipsReplay' /\ PostsAreFinal'
    BY <1>1, <1>2 DEF TipsReplay, PostsAreFinal, Calls
<1>7. OneDialog'
    BY <1>1, <1>2 DEF OneDialog
<1>8. revived' = {} /\ GrantIsHeard' /\ RetryHasTheGrant'
    BY DEF ConsentInv, GrantIsHeard, RetryHasTheGrant
<1> QED
    BY <1>3, <1>4, <1>5, <1>6, <1>7, <1>8 DEF ConsentInv

LEMMA HearKeeps == ASSUME ConsentInv, NEW c \in Calls, Hear(c) PROVE ConsentInv'
<1>1. PICK a \in answers :
          /\ a.call = c /\ answers' = answers \ {a}
          /\ IF a.what = "done"
             THEN pc' = [pc EXCEPT ![c] = "over"] /\ UNCHANGED <<waits, dialogs, asked>>
             ELSE Fails(c, a.what)
          /\ UNCHANGED <<token, net, revived, served, written>>
    BY DEF Hear
<1>2. NotHeard(c) /\ InFlight(c)
    BY <1>1 DEF NotHeard, ConsentInv, OneAnswer
<1>3. CASE a.what = "done"
    BY <1>1, <1>2, <1>3, OverKeeps
<1>4. CASE a.what # "done"
    <2>1. c \in Posts => written[c] = 0 /\ \A q \in net : q.call # c
        BY <1>1, <1>4 DEF ConsentInv, PostsAreFinal
    <2> QED
        BY <1>1, <1>2, <1>4, <2>1, FailsKeeps
<1> QED
    BY <1>3, <1>4

(* Rule 4: the timeout of a post is final, that of a tip is not.           *)
LEMMA TimesOutKeeps == ASSUME ConsentInv, NEW c \in Calls, TimesOut(c) PROVE ConsentInv'
<1>1. c \in Posts => CallerMarkedFinal(c, "timeout")
    BY DEF CallerMarkedFinal
<1> QED
    BY <1>1, FailsKeeps DEF TimesOut

LEMMA UnmountKeeps == ASSUME ConsentInv, NEW c \in Calls, Unmount(c) PROVE ConsentInv'
<1>1. UNCHANGED <<token, waits, asked, net, revived, served, written>>
    BY DEF Unmount
<1>2. CASE c \in Tips /\ InFlight(c)
    BY <1>1, <1>2, OverKeeps DEF Unmount
<1>3. CASE ~(c \in Tips /\ InFlight(c))
    <2>1. UNCHANGED <<pc, answers>>
        BY <1>3 DEF Unmount
    <2> QED
        BY <1>1, <2>1 DEF ConsentInv, Shape, OneAnswer, OneRequest, TipsReplay, PostsAreFinal,
                          InFlight, Try, OneDialog, GrantIsHeard, RetryHasTheGrant
<1> QED
    BY <1>2, <1>3

(* Waits that end: every caller of a granted scope retries, once, with the *)
(* token that ended its wait; nothing else waits for an ended scope.       *)
LEMMA WaitsEndKeeps ==
    ASSUME ConsentInv, NEW granted, NEW given, NEW t, WaitsEnd(granted, given, t),
           granted \subseteq waits, granted \subseteq t.scopes,
           \/ token' = token
           \/ token' = t /\ granted = waits \cap t.scopes,
           UNCHANGED <<answers, served, written>>
    PROVE  ConsentInv'
<1> DEFINE ended == granted \cup given
           again == {c \in Calls : pc[c] = "waiting" /\ Scope(c) \in granted /\ IsActive(c)}
           sent == {Request(c, 2, t) : c \in again}
<1>1. Shape /\ OneAnswer /\ OneRequest /\ TipsReplay /\ PostsAreFinal /\ OneDialog
    BY DEF ConsentInv
<1>2. /\ waits' = waits \ ended /\ net' = net \cup sent
      /\ asked' = [s \in Scopes |-> IF s \in ended THEN 0 ELSE asked[s]]
      /\ pc' = [c \in Calls |-> IF c \in again THEN "retrying"
                                ELSE IF pc[c] = "waiting" /\ Scope(c) \in ended THEN "over" ELSE pc[c]]
      /\ revived' = revived \cup {c \in again : ~mounted[c]}
    BY DEF WaitsEnd
<1>3. \A c \in again : c \in Calls /\ pc[c] = "waiting" /\ pc'[c] = "retrying" /\ Scope(c) \in granted
    BY <1>2
<1>4. \A c \in Calls : pc'[c] # pc[c] => pc[c] = "waiting" /\ pc'[c] \in {"retrying", "over"}
    BY <1>2
<1>5. \A q \in sent : q.call \in again /\ q.try = 2 /\ q.key = <<q.call>> /\ q.scopes = t.scopes
    BY DEF Request, KeyOf
<1>6. \A q, r \in sent : q.call = r.call => q = r
    BY DEF Request, KeyOf
<1>7. \A c \in Calls : pc'[c] = "waiting" <=> pc[c] = "waiting" /\ Scope(c) \notin ended
    BY <1>2
<1>8. revived' = {}
    BY <1>2 DEF ConsentInv, IsActive
<1> HIDE DEF ended, again, sent
<1>9. Shape'
    <2>1. pc' \in [Calls -> {"idle", "trying", "waiting", "retrying", "over"}]
        BY <1>1, <1>2 DEF Shape
    <2> QED
        BY <1>1, <1>2, <1>3, <1>5, <2>1 DEF Shape
<1>10. OneAnswer'
    BY <1>1, <1>4 DEF OneAnswer, InFlight, Shape
<1>11. OneRequest'
    <2>1. \A q \in net, r \in sent : q.call = r.call => q.try = 1
        BY <1>1, <1>3, <1>5 DEF OneRequest, Shape
    <2>2. \A q, r \in net' : q.call = r.call /\ q.try = r.try => q = r
        BY <1>1, <1>2, <1>5, <1>6, <2>1 DEF OneRequest
    <2>3. \A q \in net' : pc'[q.call] # "idle" /\ (q.try = 2 => pc'[q.call] \in {"retrying", "over"})
        BY <1>1, <1>2, <1>3, <1>4, <1>5 DEF OneRequest, Shape
    <2>4. \A q \in net : InFlight(q.call)' /\ q.try = Try(q.call)' =>
              InFlight(q.call) /\ q.try = Try(q.call)
        BY <1>1, <1>4 DEF OneRequest, InFlight, Try, Shape
    <2>5. \A q \in sent : \A a \in answers : a.call # q.call
        BY <1>1, <1>3, <1>5 DEF OneAnswer, InFlight
    <2> QED
        BY <1>1, <1>2, <2>2, <2>3, <2>4, <2>5 DEF OneRequest
<1>12. TipsReplay'
    BY <1>1 DEF TipsReplay
<1>13. PostsAreFinal'
    <2>1. \A q \in sent : q.call \in Posts => written[q.call] = 0 /\ \A r \in net : r.call # q.call
        BY <1>1, <1>3, <1>5 DEF PostsAreFinal
    <2>2. \A q \in sent : \A a \in answers : a.call # q.call
        BY <1>1, <1>3, <1>5 DEF OneAnswer, InFlight
    <2>3. \A q \in net' : q.call \in Posts => written[q.call] = 0 /\ pc'[q.call] # "waiting"
        BY <1>1, <1>2, <1>3, <1>4, <1>5, <2>1 DEF PostsAreFinal, Shape
    <2>4. \A q, r \in net' : q.call \in Posts /\ q.call = r.call => q = r
        BY <1>1, <1>2, <1>6, <2>1 DEF PostsAreFinal
    <2>5. \A c \in Posts : pc'[c] \in {"idle", "waiting"} => written[c] = 0
        BY <1>1, <1>4 DEF PostsAreFinal, Calls
    <2>6. \A a \in answers : \A q \in sent : q.call # a.call
        BY <2>2
    <2> QED
        BY <1>1, <1>2, <2>3, <2>4, <2>5, <2>6 DEF PostsAreFinal
<1>14. OneDialog'
    <2>1. \A s \in Scopes : asked'[s] = IF s \in waits' THEN 1 ELSE 0
        BY <1>1, <1>2 DEF OneDialog
    <2>2. waits' = {Scope(c) : c \in {d \in Calls : pc'[d] = "waiting"}}
        BY <1>1, <1>2, <1>7 DEF OneDialog
    <2> QED
        BY <2>1, <2>2 DEF OneDialog
<1>15. GrantIsHeard'
    BY <1>2 DEF ConsentInv, GrantIsHeard, ended
<1>16. RetryHasTheGrant'
    BY <1>2, <1>3, <1>5 DEF ConsentInv, RetryHasTheGrant
<1> QED
    BY <1>8, <1>9, <1>10, <1>11, <1>12, <1>13, <1>14, <1>15, <1>16 DEF ConsentInv

LEMMA HearPushKeeps == ASSUME ConsentInv, HearPush PROVE ConsentInv'
<1> DEFINE p == Head(pushes)
<1>1. UNCHANGED <<answers, served, written>>
    BY DEF HearPush, server
<1>2. CASE p.what = "refusal"
    <2>1. WaitsEnd({}, waits, token) /\ token' = token
        BY <1>2 DEF HearPush
    <2> QED
        BY <1>1, <2>1, WaitsEndKeeps
<1>3. CASE p.what # "refusal"
    <2>1. WaitsEnd(waits \cap p.token.scopes, {}, p.token) /\ token' = p.token
        BY <1>3 DEF HearPush, GrantedBy
    <2> QED
        BY <1>1, <2>1, WaitsEndKeeps
<1> QED
    BY <1>2, <1>3

LEMMA WaitTimesOutKeeps == ASSUME ConsentInv, NEW s \in Scopes, WaitTimesOut(s) PROVE ConsentInv'
<1>1. WaitsEnd({}, {s}, token) /\ token' = token /\ UNCHANGED <<answers, served, written>>
    BY DEF WaitTimesOut, server
<1> QED
    BY <1>1, WaitsEndKeeps

(* The server: a tip served before is answered and not made again; of a    *)
(* post there is one request, so that its answer is the only word of it.   *)
LEMMA ServeKeeps == ASSUME ConsentInv, NEW q \in net, Serve(q) PROVE ConsentInv'
<1> DEFINE c == q.call
           replay == c \in Tips /\ q.key \in served
           heard == InFlight(c) /\ q.try = Try(c)
<1>1. /\ net' = net \ {q} /\ UNCHANGED <<pc, token, waits, asked, revived>>
      /\ Shape /\ OneAnswer /\ OneRequest /\ TipsReplay /\ PostsAreFinal /\ OneDialog
    BY DEF Serve, page, ConsentInv
<1>2. PICK what :
          /\ answers' = IF heard THEN answers \cup {[call |-> c, what |-> what]} ELSE answers
          /\ served' = IF what = "done" THEN served \cup {q.key} ELSE served
          /\ written' = IF what = "done" /\ ~replay THEN [written EXCEPT ![c] = @ + 1] ELSE written
    BY DEF Serve
<1>3. c \in Calls /\ q.key = <<c>>
    BY <1>1 DEF Shape
<1>4. heard => \A a \in answers : a.call # c
    BY <1>1 DEF OneRequest
<1>5. \A d \in Calls : d # c => written'[d] = written[d]
    BY <1>1, <1>2 DEF Shape
<1>6. Shape'
    BY <1>1, <1>2, <1>3 DEF Shape
<1>7. OneAnswer'
    BY <1>1, <1>2, <1>4 DEF OneAnswer, InFlight
<1>8. OneRequest'
    BY <1>1, <1>2, <1>3 DEF OneRequest, InFlight, Try
<1>9. TipsReplay'
    <2>1. \A d \in Tips : d # c => written'[d] = written[d]
        BY <1>5 DEF Calls
    <2>2. c \in Tips => written'[c] = 0 \/ (written'[c] = 1 /\ <<c>> \in served')
        BY <1>1, <1>2, <1>3 DEF TipsReplay, Shape
    <2> QED
        BY <1>1, <1>2, <2>1, <2>2 DEF TipsReplay
<1>10. PostsAreFinal'
    <2>1. c \in Posts => written[c] = 0 /\ pc[c] \notin {"idle", "waiting"} /\ \A r \in net : r.call = c => r = q
        BY <1>1 DEF PostsAreFinal, OneRequest
    <2>2. c \in Posts => written'[c] \in {0, 1} /\ (what # "done" => written'[c] = 0)
        BY <1>1, <1>2, <1>3, <2>1 DEF Shape
    <2>3. \A a \in answers' : a \in answers \/ (a.call = c /\ a.what = what)
        BY <1>2
    <2>4. \A a \in answers : a.call \in Posts => a.call # c
        BY <1>1 DEF PostsAreFinal
    <2>5. \A d \in Posts : d # c => written'[d] = written[d]
        BY <1>5 DEF Calls
    <2> QED
        BY <1>1, <2>1, <2>2, <2>3, <2>4, <2>5 DEF PostsAreFinal
<1>11. OneDialog' /\ revived' = {} /\ GrantIsHeard' /\ RetryHasTheGrant'
    BY <1>1 DEF ConsentInv, OneDialog, GrantIsHeard, RetryHasTheGrant
<1> QED
    BY <1>6, <1>7, <1>8, <1>9, <1>10, <1>11 DEF ConsentInv

(* The host mints, asks and renews: nothing the rule is about moves.       *)
LEMMA HostKeeps ==
    ASSUME ConsentInv, UNCHANGED <<page, net, revived, server>>
    PROVE  ConsentInv'
BY DEF ConsentInv, page, server, Shape, OneAnswer, OneRequest, TipsReplay, PostsAreFinal, InFlight, Try,
       OneDialog, GrantIsHeard, RetryHasTheGrant

LEMMA ConsentStep == ConsentInv /\ [Next]_vars => ConsentInv'
<1> SUFFICES ASSUME ConsentInv, [Next]_vars PROVE ConsentInv'
    OBVIOUS
<1>1. ASSUME NEW c \in Calls, Ask(c) \/ Hear(c) \/ TimesOut(c) \/ Unmount(c) PROVE ConsentInv'
    BY <1>1, AskKeeps, HearKeeps, TimesOutKeeps, UnmountKeeps
<1>2. CASE HearPush
    BY <1>2, HearPushKeeps
<1>3. CASE Rotate
    BY <1>3, HostKeeps DEF Rotate
<1>4. ASSUME NEW s \in Scopes, WaitTimesOut(s) \/ AnswerDialog(s) PROVE ConsentInv'
    BY <1>4, WaitTimesOutKeeps, HostKeeps DEF AnswerDialog
<1>5. ASSUME NEW q \in net, Serve(q) PROVE ConsentInv'
    BY <1>5, ServeKeeps
<1>6. CASE UNCHANGED vars
    BY <1>6, HostKeeps DEF vars
<1> QED
    BY <1>1, <1>2, <1>3, <1>4, <1>5, <1>6 DEF Next

LEMMA ConsentInvariant == Spec => []ConsentInv
BY InitConsent, ConsentStep, PTL DEF Spec

(* A tip, or a post, is carried out at most once, and none is asked for    *)
(* again when its component is gone, however often its first attempt timed *)
(* out after it was served and in whatever order the grants, the refusals  *)
(* and the answers come (the money rule of withConsentRetry).              *)
THEOREM PaidOnceHolds == Spec => []PaidOnce
<1>1. ASSUME ConsentInv PROVE PaidOnce
    <2>1. \A c \in Tips : written[c] <= 1
        <3>1. \A c \in Tips : written[c] = 0 \/ written[c] = 1
            BY <1>1 DEF ConsentInv, TipsReplay
        <3> QED
            BY <3>1
    <2>2. \A c \in Posts : written[c] <= 1
        BY <1>1 DEF ConsentInv, PostsAreFinal
    <2> QED
        BY <1>1, <2>1, <2>2 DEF ConsentInv, PaidOnce, Calls
<1> QED
    BY <1>1, ConsentInvariant, PTL

(* However many calls wait, one dialog asks for a scope, and every call    *)
(* that waits has a wait that will end it (inFlightConsentWaits).          *)
THEOREM OneDialogHolds == Spec => []OneDialog
<1>1. ConsentInv => OneDialog
    BY DEF ConsentInv
<1> QED
    BY <1>1, ConsentInvariant, PTL

(* No call waits for a scope the page's token has (awaitConsentGrant).     *)
THEOREM GrantHeard == Spec => []GrantIsHeard
<1>1. ConsentInv => GrantIsHeard
    BY DEF ConsentInv
<1> QED
    BY <1>1, ConsentInvariant, PTL

(* A retry is sent with the scope it waited for (postTipOnce).             *)
THEOREM RetryGranted == Spec => []RetryHasTheGrant
<1>1. ConsentInv => RetryHasTheGrant
    BY DEF ConsentInv
<1> QED
    BY <1>1, ConsentInvariant, PTL
=============================================================================
