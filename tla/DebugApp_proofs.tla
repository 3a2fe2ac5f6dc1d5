---------------------------- MODULE DebugApp_proofs ----------------------------
(***************************************************************************)
(* Proofs about the debug frontend and the session it is used in.          *)
(*                                                                         *)
(* Sessions, for any number of devices, for any lives of tokens and codes, *)
(* and however long calls are out or lost.  The argument is the invariant  *)
(* TokensEnd: no token outlives the present by more than AccessLife, and   *)
(* while refresh tokens are refused none outlives the logout by more.  It  *)
(* speaks of the tokens calls carry as well as of those in cookies: an     *)
(* answer that was given before a logout may reach its device after it.    *)
(* Whatever the debug page does, its session is one of these.              *)
(*                                                                         *)
(* The page, for any tree of users, tables, and order and failures of      *)
(* answers: what it shows is what was chosen, sorted as was asked.         *)
(***************************************************************************)
EXTENDS DebugApp, SequenceTheorems, TLAPS

Jars == [access : Nat, refresh : BOOLEAN]
Pages == [user : BOOLEAN, check : {"shut", "me", "refresh", "again", "over"},
          step : {"email", "code"}, due : Nat, kept : BOOLEAN]
CallRecords == [at : {"none", "sent", "ok", "refused"}, by : Nat,
                access : Nat, refresh : BOOLEAN]

-----------------------------------------------------------------------------
(* The type invariant.                                                     *)

LEMMA TypeInit == Init => TypeOK
BY SessionAssumption DEF Init, TypeOK, Shut, NoCall

\* A call that is made is a call.
LEMMA CallTyped ==
  ASSUME TypeOK, NEW cookies \in Jars
  PROVE  Call(cookies) \in CallRecords /\ NoCall \in CallRecords
BY SessionAssumption DEF TypeOK, Call, NoCall, Jars, CallRecords

\* Calls keep their type when one of them does.
LEMMA OneCall ==
  ASSUME TypeOK, NEW d \in Devices, NEW k \in Kinds, NEW c \in CallRecords
  PROVE  [calls EXCEPT ![d][k] = c] \in [Devices -> [Kinds -> CallRecords]]
BY DEF TypeOK, CallRecords

LEMMA Typed ==
  ASSUME TypeOK
  PROVE  /\ jar \in [Devices -> Jars] /\ page \in [Devices -> Pages]
         /\ calls \in [Devices -> [Kinds -> CallRecords]]
         /\ clock \in Nat /\ code \in Nat /\ moves \in Nat
         /\ account \in [on : BOOLEAN, since : Nat] /\ account.since \in Nat
BY DEF TypeOK, Jars, Pages, CallRecords

LEMMA TypeFromParts ==
  ASSUME clock' \in Nat, code' \in Nat, moves' \in Nat,
         account' \in [on : BOOLEAN, since : Nat],
         jar' \in [Devices -> Jars], page' \in [Devices -> Pages],
         calls' \in [Devices -> [Kinds -> CallRecords]]
  PROVE  TypeOK'
BY DEF TypeOK, Jars, Pages, CallRecords

\* The answer of a call.
LEMMA AnswerTyped ==
  ASSUME TypeOK, NEW d \in Devices, NEW k \in Kinds, NEW ok \in BOOLEAN,
         NEW access \in Nat, NEW refresh \in BOOLEAN,
         Answered(d, k, ok, access, refresh)
  PROVE  calls' \in [Devices -> [Kinds -> CallRecords]]
<1> DEFINE c == [calls[d][k] EXCEPT !.at = IF ok THEN "ok" ELSE "refused",
                                    !.access = access, !.refresh = refresh]
<1>1. calls[d][k] \in CallRecords
  BY Typed
<1>2. c \in CallRecords
  BY <1>1 DEF CallRecords
<1>3. calls' = [calls EXCEPT ![d][k] = c]
  BY DEF Answered
<1> HIDE DEF c
<1> QED BY <1>2, <1>3, OneCall

\* What the server does changes no cookie and no page.
LEMMA ServesTyped ==
  ASSUME TypeOK, NEW d \in Devices, Serves(d)
  PROVE  TypeOK'
<1> USE SessionAssumption
<1>1. CASE ServeMe(d)
  <2>1. calls' \in [Devices -> [Kinds -> CallRecords]]
    <3> DEFINE ok == calls[d]["me"].access > clock
    <3>1. ok \in BOOLEAN
      OBVIOUS
    <3>2. Answered(d, "me", ok, 0, FALSE)
      BY <1>1 DEF ServeMe
    <3> HIDE DEF ok
    <3> QED BY <3>1, <3>2, AnswerTyped DEF Kinds
  <2> QED BY <1>1, <2>1, Typed, TypeFromParts DEF ServeMe
<1>2. ASSUME NEW k \in {"refresh", "auto"}, ServeRefresh(d, k)
      PROVE  TypeOK'
  <2> DEFINE taken == RefreshTaken(d, k)
             access == IF taken THEN clock + AccessLife ELSE 0
  <2>1. k \in Kinds
    BY <1>2 DEF Kinds
  <2>2. calls[d][k].refresh \in BOOLEAN
    BY <2>1, Typed DEF CallRecords
  <2>3. taken \in BOOLEAN
    BY <2>2, Zenon DEF RefreshTaken
  <2>4. access \in Nat
    BY Typed
  <2>5. Answered(d, k, taken, access, FALSE)
    BY <1>2 DEF ServeRefresh
  <2> HIDE DEF taken, access
  <2>6. calls' \in [Devices -> [Kinds -> CallRecords]]
    BY <2>1, <2>3, <2>4, <2>5, AnswerTyped
  <2> QED BY <1>2, <2>6, Typed, TypeFromParts DEF ServeRefresh
<1>3. CASE ServeRequest(d)
  <2>1. calls' \in [Devices -> [Kinds -> CallRecords]]
    BY <1>3, AnswerTyped DEF ServeRequest, Kinds
  <2> QED BY <1>3, <2>1, Typed, TypeFromParts DEF ServeRequest
<1>4. ASSUME NEW right \in BOOLEAN, ServeVerify(d, right)
      PROVE  TypeOK'
  <2> DEFINE good == right /\ clock <= code
             access == IF good THEN clock + AccessLife ELSE 0
  <2>1. good \in BOOLEAN /\ access \in Nat
    BY Typed
  <2>2. Answered(d, "verify", good, access, good)
    BY <1>4 DEF ServeVerify
  <2>3. /\ code' = IF right THEN 0 ELSE code
        /\ account' = IF good THEN [account EXCEPT !.on = TRUE] ELSE account
        /\ UNCHANGED <<clock, jar, page, moves>>
    BY <1>4 DEF ServeVerify
  <2> HIDE DEF good, access
  <2>4. calls' \in [Devices -> [Kinds -> CallRecords]]
    BY <2>1, <2>2, AnswerTyped DEF Kinds
  <2>5. account' \in [on : BOOLEAN, since : Nat]
    BY <2>3, Typed
  <2> QED BY <2>3, <2>4, <2>5, Typed, TypeFromParts
<1>5. CASE ServeLogout(d)
  <2>1. calls' \in [Devices -> [Kinds -> CallRecords]]
    BY <1>5, AnswerTyped DEF ServeLogout, Kinds
  <2>2. account' \in [on : BOOLEAN, since : Nat]
    BY <1>5, Typed DEF ServeLogout
  <2> QED BY <1>5, <2>1, <2>2, Typed, TypeFromParts DEF ServeLogout
<1> QED BY <1>1, <1>2, <1>3, <1>4, <1>5 DEF Serves

\* What a page hears changes its cookies, its state and its calls.
LEMMA HearsTyped ==
  ASSUME TypeOK, NEW d \in Devices, HearsAny(d)
  PROVE  TypeOK'
<1>1. /\ jar[d] \in Jars /\ page[d] \in Pages
      /\ \A k \in Kinds : calls[d][k] \in CallRecords
      /\ NoCall \in CallRecords
      /\ {"me", "refresh", "auto", "request", "verify", "logout"} = Kinds
  BY Typed, SessionAssumption DEF NoCall, CallRecords, Kinds
<1>2. ASSUME NEW k \in Kinds, Over(d, k)
      PROVE  calls' \in [Devices -> [Kinds -> CallRecords]]
  BY <1>1, <1>2, OneCall DEF Over
<1>3. Found(d) \in Pages /\ NobodyThere(d) \in Pages
  <2> DEFINE kept == IF page[d].check = "me" THEN jar[d].access >= page[d].due ELSE page[d].kept
  <2>1. kept \in BOOLEAN
    <3>1. (jar[d].access >= page[d].due) \in BOOLEAN /\ page[d].kept \in BOOLEAN
      BY <1>1 DEF Pages
    <3> QED BY <3>1, Zenon
  <2>2. Found(d) = [page[d] EXCEPT !.user = TRUE, !.check = "over", !.kept = kept]
    BY <1>1 DEF Found, Pages
  <2> HIDE DEF kept
  <2>3. Found(d) \in Pages
    BY <1>1, <2>1, <2>2 DEF Pages
  <2>4. NobodyThere(d) \in Pages
    BY <1>1 DEF NobodyThere, Pages
  <2> QED BY <2>3, <2>4
<1>4. CASE HearMe(d)
  <2>1. page' \in [Devices -> Pages]
    <3>1. [page[d] EXCEPT !.check = "refresh"] \in Pages
      BY <1>1 DEF Pages
    <3> QED BY <1>3, <1>4, <3>1, Typed DEF HearMe
  <2>2. calls' \in [Devices -> [Kinds -> CallRecords]]
    <3>1. CASE calls[d]["me"].at = "refused" /\ page[d].check = "me"
      <4>1. calls' = [calls EXCEPT ![d]["me"] = NoCall, ![d]["refresh"] = Call(jar[d])]
        BY <1>4, <3>1 DEF HearMe
      <4>2. Call(jar[d]) \in CallRecords
        BY <1>1, CallTyped
      <4> QED BY <4>1, <4>2, <1>1, Typed
    <3>2. CASE ~(calls[d]["me"].at = "refused" /\ page[d].check = "me")
      BY <3>2, <1>1, <1>2, <1>4 DEF HearMe
    <3> QED BY <3>1, <3>2
  <2> QED BY <1>4, <2>1, <2>2, Typed, TypeFromParts DEF HearMe, Hears
<1>5. CASE HearRefresh(d)
  <2> DEFINE cookies == [jar[d] EXCEPT !.access = calls[d]["refresh"].access]
  <2>1. cookies \in Jars
    BY <1>1 DEF Jars, CallRecords
  <2>2. CASE calls[d]["refresh"].at = "ok"
    <3>1. /\ jar' = [jar EXCEPT ![d] = cookies]
          /\ page' = [page EXCEPT ![d].check = "again", ![d].kept = TRUE]
          /\ calls' = [calls EXCEPT ![d]["refresh"] = NoCall, ![d]["me"] = Call(cookies)]
      BY <1>5, <2>2 DEF HearRefresh
    <3> HIDE DEF cookies
    <3>2. Call(cookies) \in CallRecords
      BY <2>1, CallTyped
    <3>3. calls' \in [Devices -> [Kinds -> CallRecords]]
      BY <3>1, <3>2, <1>1, Typed
    <3>4. jar' \in [Devices -> Jars]
      BY <3>1, <2>1, Typed
    <3>5. page' \in [Devices -> Pages]
      BY <3>1, <1>1, Typed DEF Pages
    <3> QED BY <3>3, <3>4, <3>5, <1>5, Typed, TypeFromParts DEF HearRefresh, Hears
  <2>3. CASE calls[d]["refresh"].at # "ok"
    <3>1. page' = [page EXCEPT ![d] = NobodyThere(d)] /\ jar' = jar /\ Over(d, "refresh")
      BY <1>5, <2>3 DEF HearRefresh
    <3>2. page' \in [Devices -> Pages]
      BY <3>1, <1>3, Typed
    <3> QED BY <3>1, <3>2, <1>1, <1>2, <1>5, Typed, TypeFromParts DEF HearRefresh, Hears
  <2> QED BY <2>2, <2>3
<1>6. CASE HearAuto(d)
  <2>1. page' \in [Devices -> Pages]
    BY <1>1, <1>6, Typed DEF HearAuto, Pages
  <2>2. jar' \in [Devices -> Jars]
    BY <1>1, <1>6, Typed DEF HearAuto, Jars, CallRecords
  <2> QED BY <2>1, <2>2, <1>1, <1>2, <1>6, Typed, TypeFromParts DEF HearAuto, Hears
<1>7. CASE HearRequest(d)
  <2>1. page' \in [Devices -> Pages]
    BY <1>1, <1>7, Typed DEF HearRequest, Pages
  <2> QED BY <2>1, <1>1, <1>2, <1>7, Typed, TypeFromParts DEF HearRequest, Hears
<1>8. CASE HearVerify(d)
  <2>1. CASE calls[d]["verify"].at = "ok"
    <3>1. /\ page' = [page EXCEPT ![d].user = TRUE, ![d].kept = TRUE]
          /\ jar' = [jar EXCEPT ![d] = [access |-> calls[d]["verify"].access, refresh |-> TRUE]]
      BY <1>8, <2>1 DEF HearVerify
    <3>2. page' \in [Devices -> Pages]
      BY <3>1, <1>1, Typed DEF Pages
    <3>3. jar' \in [Devices -> Jars]
      BY <3>1, <1>1, Typed DEF Jars, CallRecords
    <3> QED BY <3>2, <3>3, <1>1, <1>2, <1>8, Typed, TypeFromParts DEF HearVerify, Hears
  <2>2. CASE calls[d]["verify"].at # "ok"
    BY <2>2, <1>1, <1>2, <1>8, Typed, TypeFromParts DEF HearVerify, Hears
  <2> QED BY <2>1, <2>2
<1>9. CASE HearLogout(d)
  <2>1. page' \in [Devices -> Pages]
    BY <1>1, <1>9, Typed DEF HearLogout, Pages
  <2>2. jar' \in [Devices -> Jars]
    BY <1>1, <1>9, Typed DEF HearLogout, Jars, NoCookies
  <2> QED BY <2>1, <2>2, <1>1, <1>2, <1>9, Typed, TypeFromParts DEF HearLogout, Hears
<1>10. ASSUME NEW k \in Kinds, Lose(d, k)
       PROVE  TypeOK'
  <2>1. [page[d] EXCEPT !.kept = FALSE] \in Pages
    BY <1>1 DEF Pages
  <2>2. page' \in [Devices -> Pages]
    BY <2>1, <1>1, <1>3, <1>10, Typed DEF Lose
  <2> QED BY <2>2, <1>2, <1>10, Typed, TypeFromParts DEF Lose, Hears
<1> QED BY <1>4, <1>5, <1>6, <1>7, <1>8, <1>9, <1>10 DEF HearsAny

\* Time passes, the timer asks, and the learner uses a page.
LEMMA OthersTyped ==
  ASSUME TypeOK, NEW d \in Devices, Tick \/ TimerRefresh(d) \/ Uses(d)
  PROVE  TypeOK'
<1>1. jar[d] \in Jars /\ page[d] \in Pages /\ Call(jar[d]) \in CallRecords /\ NoCall \in CallRecords
  BY Typed, CallTyped
<1>2. CASE Tick
  BY <1>2, Typed, TypeFromParts DEF Tick
<1>3. CASE TimerRefresh(d)
  <2>1. calls' \in [Devices -> [Kinds -> CallRecords]]
    BY <1>1, <1>3, OneCall DEF TimerRefresh, Kinds
  <2>2. page' \in [Devices -> Pages]
    BY <1>1, <1>3, Typed, SessionAssumption DEF TimerRefresh, Pages
  <2> QED BY <2>1, <2>2, <1>3, Typed, TypeFromParts DEF TimerRefresh
<1>4. CASE Open(d)
  <2>1. Asking(jar[d]) \in [Kinds -> CallRecords]
    BY <1>1 DEF Asking
  <2>2. Opened \in Pages
    <3>1. clock + Interval \in Nat
      BY Typed, SessionAssumption
    <3>2. Shut \in Pages
      BY DEF Shut, Pages
    <3> QED BY <3>1, <3>2 DEF Opened, Pages
  <2> QED BY <2>1, <2>2, <1>4, Typed, TypeFromParts DEF Open, Move
<1>5. ASSUME NEW k \in Kinds, NEW step, Submits(d, k, step)
      PROVE  TypeOK'
  BY <1>1, <1>5, OneCall, Typed, TypeFromParts DEF Submits, Move
<1>6. CASE ChangeEmail(d)
  <2>1. page' \in [Devices -> Pages]
    BY <1>1, <1>6, Typed DEF ChangeEmail, Pages
  <2> QED BY <2>1, <1>6, Typed, TypeFromParts DEF ChangeEmail, Move
<1>7. CASE Logout(d)
  <2>1. calls' \in [Devices -> [Kinds -> CallRecords]]
    BY <1>1, <1>7, OneCall DEF Logout, Kinds
  <2> QED BY <2>1, <1>7, Typed, TypeFromParts DEF Logout, Move
<1> QED BY <1>2, <1>3, <1>4, <1>5, <1>6, <1>7 DEF Uses, RequestCode, Verify, Kinds

LEMMA TypeStep == TypeOK /\ [Next]_vars => TypeOK'
<1> SUFFICES ASSUME TypeOK, [Next]_vars PROVE TypeOK'
  OBVIOUS
<1>1. CASE Tick
  <2>1. CASE Devices = {}
    BY <1>1, <2>1, Typed, TypeFromParts DEF Tick
  <2>2. CASE Devices # {}
    BY <1>1, <2>2, OthersTyped
  <2> QED BY <2>1, <2>2
<1>2. ASSUME NEW d \in Devices, Serves(d) \/ HearsAny(d) \/ TimerRefresh(d) \/ Uses(d)
      PROVE  TypeOK'
  BY <1>2, ServesTyped, HearsTyped, OthersTyped
<1>3. CASE UNCHANGED vars
  BY <1>3, Typed, TypeFromParts DEF vars
<1> QED BY <1>1, <1>2, <1>3 DEF Next

\* Every variable keeps its type, at every value of the constants.
THEOREM TypeCorrect == Spec => []TypeOK
BY TypeInit, TypeStep, PTL DEF Spec

-----------------------------------------------------------------------------
(* Tokens.                                                                 *)

Accounts == [on : BOOLEAN, since : Nat]

\* A token ends in time, at a moment and in a state of the account.
Ends(token, now, acc) ==
  /\ token <= now + AccessLife
  /\ ~acc.on => token <= acc.since + AccessLife

TokensEnd ==
  /\ account.since <= clock
  /\ \A d \in Devices :
       /\ Ends(jar[d].access, clock, account)
       /\ \A k \in Kinds : Ends(calls[d][k].access, clock, account)

TokenInv == TypeOK /\ TokensEnd

LEMMA TokensInit == Init => TokensEnd
BY SessionAssumption DEF Init, TokensEnd, Ends, NoCall

\* A token that ends in time does so later, too, also after a logout.
LEMMA EndsLater ==
  ASSUME NEW token \in Nat, NEW now \in Nat, NEW later \in Nat, now <= later,
         NEW acc \in Accounts, NEW next \in Accounts,
         next = acc \/ next.on \/ next.since = now,
         Ends(token, now, acc)
  PROVE  Ends(token, later, next)
<1>1. acc.since \in Nat /\ next.since \in Nat /\ AccessLife \in Nat
  BY SessionAssumption DEF Accounts
<1>2. token <= now + AccessLife
  BY DEF Ends
<1>3. token <= later + AccessLife
  BY <1>1, <1>2
<1>4. ASSUME ~next.on PROVE token <= next.since + AccessLife
  BY <1>1, <1>2, <1>4 DEF Ends
<1> QED BY <1>3, <1>4 DEF Ends

\* Tokens go on ending in time where each is one that did before the step or
\* one that does after it.
LEMMA TokensKept ==
  ASSUME TokenInv, TypeOK', clock <= clock', account'.since <= clock',
         account' = account \/ account'.on \/ account'.since = clock,
         \A d \in Devices :
           /\ \/ Ends(jar'[d].access, clock, account)
              \/ Ends(jar'[d].access, clock', account')
           /\ \A k \in Kinds :
                \/ Ends(calls'[d][k].access, clock, account)
                \/ Ends(calls'[d][k].access, clock', account')
  PROVE  TokensEnd'
<1>1. account \in Accounts /\ account' \in Accounts /\ clock \in Nat /\ clock' \in Nat
  BY DEF TokenInv, TypeOK, Accounts
<1>2. ASSUME NEW d \in Devices PROVE Ends(jar'[d].access, clock', account')
  <2>1. jar'[d].access \in Nat
    BY DEF TypeOK
  <2> QED BY <1>1, <2>1, EndsLater
<1>3. ASSUME NEW d \in Devices, NEW k \in Kinds
      PROVE  Ends(calls'[d][k].access, clock', account')
  <2>1. calls'[d][k].access \in Nat
    BY DEF TypeOK
  <2> QED BY <1>1, <2>1, EndsLater
<1> QED BY <1>2, <1>3 DEF TokensEnd

\* No token, and one of the server that is good from now on.
LEMMA NoneEnds ==
  ASSUME TypeOK PROVE Ends(0, clock, account)
BY SessionAssumption DEF TypeOK, Ends

LEMMA NewEnds ==
  ASSUME TypeOK, NEW acc, acc.on PROVE Ends(clock + AccessLife, clock, acc)
BY SessionAssumption DEF TypeOK, Ends

LEMMA AnswerEnds ==
  ASSUME TokenInv, NEW d \in Devices, NEW k \in Kinds, NEW ok, NEW token, NEW refresh,
         Answered(d, k, ok, token, refresh),
         Ends(token, clock, account) \/ Ends(token, clock', account')
  PROVE  \A e \in Devices, j \in Kinds :
           \/ Ends(calls'[e][j].access, clock, account)
           \/ Ends(calls'[e][j].access, clock', account')
<1> DEFINE c == [calls[d][k] EXCEPT !.at = IF ok THEN "ok" ELSE "refused",
                                    !.access = token, !.refresh = refresh]
<1>1. calls[d][k] \in CallRecords /\ calls \in [Devices -> [Kinds -> CallRecords]]
  BY Typed DEF TokenInv
<1>2. c.access = token
  BY <1>1 DEF CallRecords
<1>3. calls' = [calls EXCEPT ![d][k] = c]
  BY DEF Answered
<1> HIDE DEF c
<1> QED BY <1>1, <1>2, <1>3 DEF TokenInv, TokensEnd

LEMMA AnswerKeeps ==
  ASSUME TokenInv, TypeOK', NEW d \in Devices, NEW k \in Kinds, NEW ok, NEW token, NEW refresh,
         Answered(d, k, ok, token, refresh), UNCHANGED <<clock, jar>>,
         account' = account \/ account'.on \/ account'.since = clock,
         account'.since <= clock,
         Ends(token, clock, account) \/ Ends(token, clock, account')
  PROVE  TokensEnd'
<1>1. \A e \in Devices : Ends(jar'[e].access, clock, account)
  BY DEF TokenInv, TokensEnd
<1>2. \A e \in Devices, j \in Kinds :
        \/ Ends(calls'[e][j].access, clock, account)
        \/ Ends(calls'[e][j].access, clock', account')
  BY AnswerEnds
<1>3. clock <= clock' /\ account'.since <= clock'
  BY Typed DEF TokenInv
<1> QED BY <1>1, <1>2, <1>3, TokensKept

LEMMA ServesTokens ==
  ASSUME TokenInv, TypeOK', NEW d \in Devices, Serves(d)
  PROVE  TokensEnd'
<1>1. TypeOK /\ clock \in Nat /\ account.since \in Nat /\ account \in [on : BOOLEAN, since : Nat]
  BY Typed DEF TokenInv
<1>2. \A e \in Devices : Ends(jar[e].access, clock, account)
  BY DEF TokenInv, TokensEnd
<1>3. account.since <= clock
  BY DEF TokenInv, TokensEnd
<1>4. CASE ServeMe(d)
  BY <1>1, <1>2, <1>3, <1>4, NoneEnds, AnswerKeeps DEF ServeMe, Kinds
<1>5. ASSUME NEW k \in {"refresh", "auto"}, ServeRefresh(d, k)
      PROVE  TokensEnd'
  <2> DEFINE taken == RefreshTaken(d, k)
             token == IF taken THEN clock + AccessLife ELSE 0
  <2>1. Ends(token, clock, account)
    BY <1>1, NewEnds, NoneEnds DEF RefreshTaken
  <2>2. Answered(d, k, taken, token, FALSE) /\ UNCHANGED <<clock, account, jar>>
    BY <1>5 DEF ServeRefresh
  <2> HIDE DEF taken, token
  <2> QED BY <1>1, <1>2, <1>3, <2>1, <2>2, AnswerKeeps DEF Kinds
<1>6. CASE ServeRequest(d)
  BY <1>1, <1>2, <1>3, <1>6, NoneEnds, AnswerKeeps DEF ServeRequest, Kinds
<1>7. ASSUME NEW right \in BOOLEAN, ServeVerify(d, right)
      PROVE  TokensEnd'
  <2> DEFINE good == right /\ clock <= code
             token == IF good THEN clock + AccessLife ELSE 0
  <2>1. /\ account' = IF good THEN [account EXCEPT !.on = TRUE] ELSE account
        /\ Answered(d, "verify", good, token, good)
        /\ UNCHANGED <<clock, jar>>
    BY <1>7 DEF ServeVerify
  <2>2. CASE good
    <3>1. account'.on /\ account'.since = account.since
      BY <1>1, <2>1, <2>2
    <3>2. Ends(token, clock', account')
      BY <1>1, <2>1, <2>2, <3>1, NewEnds
    <3> HIDE DEF good, token
    <3> QED BY <1>1, <1>2, <1>3, <2>1, <3>1, <3>2, AnswerKeeps DEF Kinds
  <2>3. CASE ~good
    <3>1. account' = account /\ Ends(token, clock, account)
      BY <1>1, <2>1, <2>3, NoneEnds
    <3> HIDE DEF good, token
    <3> QED BY <1>1, <1>2, <1>3, <2>1, <3>1, AnswerKeeps DEF Kinds
  <2> QED BY <2>2, <2>3
<1>8. CASE ServeLogout(d)
  <2>1. account' = account \/ account'.since = clock
    BY <1>8 DEF ServeLogout
  <2>2. Answered(d, "logout", TRUE, 0, FALSE) /\ UNCHANGED <<clock, jar>>
    BY <1>8 DEF ServeLogout
  <2>3. account'.since <= clock
    BY <1>1, <1>3, <2>1
  <2> QED BY <1>1, <2>1, <2>2, <2>3, NoneEnds, AnswerKeeps DEF Kinds
<1> QED BY <1>4, <1>5, <1>6, <1>7, <1>8 DEF Serves

\* What a device hears, and what it asks, only moves tokens.
LEMMA MovesTokens ==
  ASSUME TokenInv, TypeOK', UNCHANGED <<clock, account>>, NEW d \in Devices,
         \/ jar' = jar
         \/ \E j \in Jars : jar' = [jar EXCEPT ![d] = j] /\ Ends(j.access, clock, account),
         \A e \in Devices, k \in Kinds : Ends(calls'[e][k].access, clock, account)
  PROVE  TokensEnd'
<1>1. jar \in [Devices -> Jars] /\ clock \in Nat
  BY Typed DEF TokenInv
<1>2. \A e \in Devices : Ends(jar[e].access, clock, account)
  BY DEF TokenInv, TokensEnd
<1>3. \A e \in Devices : Ends(jar'[e].access, clock, account)
  BY <1>1, <1>2
<1> QED BY <1>1, <1>3, TokensKept DEF TokenInv, TokensEnd

LEMMA HearsTokens ==
  ASSUME TokenInv, TypeOK', NEW d \in Devices, HearsAny(d)
  PROVE  TokensEnd'
<1>1. /\ TypeOK /\ jar[d] \in Jars /\ clock \in Nat
      /\ calls \in [Devices -> [Kinds -> CallRecords]]
      /\ \A k \in Kinds : calls[d][k] \in CallRecords
      /\ {"me", "refresh", "auto", "request", "verify", "logout"} = Kinds
  BY Typed DEF TokenInv, Kinds
<1>2. /\ \A e \in Devices : Ends(jar[e].access, clock, account)
      /\ \A e \in Devices, k \in Kinds : Ends(calls[e][k].access, clock, account)
      /\ Ends(0, clock, account)
  BY <1>1, NoneEnds DEF TokenInv, TokensEnd
<1>3. ASSUME NEW k \in Kinds, Over(d, k)
      PROVE  \A e \in Devices, j \in Kinds : Ends(calls'[e][j].access, clock, account)
  <2>1. NoCall.access = 0
    BY DEF NoCall
  <2>2. calls' = [calls EXCEPT ![d][k] = NoCall]
    BY <1>3 DEF Over
  <2> QED BY <1>1, <1>2, <2>1, <2>2
<1>4. ASSUME NEW j \in Kinds, NEW k \in Kinds, NEW cookies \in Jars,
             Ends(cookies.access, clock, account),
             calls' = [calls EXCEPT ![d][j] = NoCall, ![d][k] = Call(cookies)]
      PROVE  \A e \in Devices, i \in Kinds : Ends(calls'[e][i].access, clock, account)
  <2>1. NoCall.access = 0 /\ Call(cookies).access = cookies.access
    BY DEF NoCall, Call
  <2> QED BY <1>1, <1>2, <1>4, <2>1
<1>5. CASE HearMe(d)
  <2>1. UNCHANGED <<clock, account, jar>>
    BY <1>5 DEF HearMe, Hears
  <2>2. \/ Over(d, "me")
        \/ calls' = [calls EXCEPT ![d]["me"] = NoCall, ![d]["refresh"] = Call(jar[d])]
    BY <1>5 DEF HearMe
  <2>3. \A e \in Devices, k \in Kinds : Ends(calls'[e][k].access, clock, account)
    BY <1>1, <1>2, <1>3, <1>4, <2>2
  <2> QED BY <2>1, <2>3, MovesTokens
<1>6. CASE HearRefresh(d)
  <2> DEFINE cookies == [jar[d] EXCEPT !.access = calls[d]["refresh"].access]
  <2>1. cookies \in Jars /\ cookies.access = calls[d]["refresh"].access
    BY <1>1 DEF Jars, CallRecords
  <2>2. Ends(cookies.access, clock, account)
    BY <1>1, <1>2, <2>1
  <2>3. \/ /\ jar' = [jar EXCEPT ![d] = cookies]
           /\ calls' = [calls EXCEPT ![d]["refresh"] = NoCall, ![d]["me"] = Call(cookies)]
        \/ jar' = jar /\ Over(d, "refresh")
    BY <1>6 DEF HearRefresh
  <2>4. UNCHANGED <<clock, account>>
    BY <1>6 DEF HearRefresh, Hears
  <2> HIDE DEF cookies
  <2>5. \A e \in Devices, k \in Kinds : Ends(calls'[e][k].access, clock, account)
    BY <1>1, <1>3, <1>4, <2>1, <2>2, <2>3
  <2> QED BY <2>1, <2>2, <2>3, <2>4, <2>5, MovesTokens
<1>7. CASE HearAuto(d)
  <2> DEFINE cookies == [jar[d] EXCEPT !.access = calls[d]["auto"].access]
  <2>1. cookies \in Jars /\ cookies.access = calls[d]["auto"].access
    BY <1>1 DEF Jars, CallRecords
  <2>2. Ends(cookies.access, clock, account)
    BY <1>1, <1>2, <2>1
  <2>3. jar' = [jar EXCEPT ![d] = cookies] \/ jar' = jar
    BY <1>1, <1>7 DEF HearAuto
  <2>4. UNCHANGED <<clock, account>> /\ Over(d, "auto")
    BY <1>7 DEF HearAuto, Hears
  <2> HIDE DEF cookies
  <2> QED BY <1>1, <1>3, <2>1, <2>2, <2>3, <2>4, MovesTokens
<1>8. CASE HearRequest(d)
  BY <1>1, <1>3, <1>8, MovesTokens DEF HearRequest, Hears
<1>9. CASE HearVerify(d)
  <2> DEFINE cookies == [access |-> calls[d]["verify"].access, refresh |-> TRUE]
  <2>1. cookies \in Jars /\ Ends(cookies.access, clock, account)
    BY <1>1, <1>2 DEF Jars, CallRecords
  <2>2. jar' = [jar EXCEPT ![d] = cookies] \/ jar' = jar
    BY <1>9 DEF HearVerify
  <2>3. UNCHANGED <<clock, account>> /\ Over(d, "verify")
    BY <1>9 DEF HearVerify, Hears
  <2> HIDE DEF cookies
  <2> QED BY <1>1, <1>3, <2>1, <2>2, <2>3, MovesTokens
<1>10. CASE HearLogout(d)
  <2>1. NoCookies \in Jars /\ Ends(NoCookies.access, clock, account)
    BY <1>2 DEF NoCookies, Jars
  <2>2. jar' = [jar EXCEPT ![d] = NoCookies] /\ UNCHANGED <<clock, account>> /\ Over(d, "logout")
    BY <1>10 DEF HearLogout, Hears
  <2> QED BY <1>1, <1>3, <2>1, <2>2, MovesTokens
<1>11. ASSUME NEW k \in Kinds, Lose(d, k)
       PROVE  TokensEnd'
  BY <1>3, <1>11, MovesTokens DEF Lose, Hears
<1> QED BY <1>5, <1>6, <1>7, <1>8, <1>9, <1>10, <1>11 DEF HearsAny

\* Pages ask with the cookies there are.
LEMMA AsksTokens ==
  ASSUME TokenInv, TypeOK', NEW d \in Devices, TimerRefresh(d) \/ Uses(d)
  PROVE  TokensEnd'
<1>1. /\ UNCHANGED <<clock, account, jar>>
      /\ \/ calls' = calls
         \/ \E k \in Kinds : calls' = [calls EXCEPT ![d][k] = Call(jar[d])]
         \/ calls' = [calls EXCEPT ![d] = Asking(jar[d])]
  BY DEF TimerRefresh, Uses, Open, RequestCode, Verify, ChangeEmail, Logout, Submits, Move, Kinds
<1>2. Call(jar[d]).access = jar[d].access /\ NoCall.access = 0
  BY DEF Call, NoCall
<1>3. \A k \in Kinds : Asking(jar[d])[k].access \in {0, jar[d].access}
  BY <1>2 DEF Asking
<1>4. /\ Ends(jar[d].access, clock, account) /\ Ends(0, clock, account)
      /\ \A e \in Devices, k \in Kinds : Ends(calls[e][k].access, clock, account)
      /\ calls \in [Devices -> [Kinds -> CallRecords]]
  BY NoneEnds, Typed DEF TokenInv, TokensEnd
<1>5. \A e \in Devices, k \in Kinds : Ends(calls'[e][k].access, clock, account)
  <2>1. CASE calls' = [calls EXCEPT ![d] = Asking(jar[d])]
    BY <2>1, <1>3, <1>4
  <2>2. CASE \E k \in Kinds : calls' = [calls EXCEPT ![d][k] = Call(jar[d])]
    BY <2>2, <1>2, <1>4
  <2> QED BY <1>1, <1>4, <2>1, <2>2
<1> QED BY <1>1, <1>5, MovesTokens

LEMMA TokensStep == TokenInv /\ [Next]_vars => TokenInv'
<1> SUFFICES ASSUME TokenInv, [Next]_vars PROVE TokenInv'
  OBVIOUS
<1>1. TypeOK'
  BY TypeStep DEF TokenInv
<1>2. CASE Tick
  <2>1. UNCHANGED <<account, jar, calls>> /\ clock' = clock + 1 /\ clock \in Nat
    BY <1>2, Typed DEF Tick, TokenInv
  <2>2. account.since <= clock' /\ clock <= clock' /\ account.since \in Nat
    BY <2>1, Typed DEF TokenInv, TokensEnd
  <2> QED BY <1>1, <2>1, <2>2, TokensKept DEF TokenInv, TokensEnd
<1>3. ASSUME NEW d \in Devices, Serves(d) \/ HearsAny(d) \/ TimerRefresh(d) \/ Uses(d)
      PROVE  TokensEnd'
  BY <1>1, <1>3, ServesTokens, HearsTokens, AsksTokens
<1>4. CASE UNCHANGED vars
  BY <1>1, <1>4 DEF vars, TokenInv, TokensEnd
<1> QED BY <1>1, <1>2, <1>3, <1>4 DEF Next, TokenInv

\* Once the life of an access token has passed since a logout, no device holds
\* a good token, and none is being sent one, until somebody signs in.
THEOREM LogoutIsFinal == Spec => []NobodyAfterLogout
<1>1. TokenInv => NobodyAfterLogout
  <2> SUFFICES ASSUME TokenInv, ~account.on, clock >= account.since + AccessLife,
                      NEW d \in Devices
               PROVE  jar[d].access <= clock /\ \A k \in Kinds : calls[d][k].access <= clock
    BY DEF NobodyAfterLogout
  <2>1. clock \in Nat /\ account.since \in Nat /\ AccessLife \in Nat
    BY Typed, SessionAssumption DEF TokenInv
  <2>2. \A token \in Nat : Ends(token, clock, account) => token <= clock
    BY <2>1 DEF Ends
  <2>3. jar[d].access \in Nat /\ \A k \in Kinds : calls[d][k].access \in Nat
    BY DEF TokenInv, TypeOK
  <2> QED BY <2>2, <2>3 DEF TokenInv, TokensEnd
<1>2. Init => TokenInv
  BY TypeInit, TokensInit DEF TokenInv
<1> QED BY <1>1, <1>2, TokensStep, PTL DEF Spec

-----------------------------------------------------------------------------
(* Staying signed in.  A token that was granted while its call was out     *)
(* lasts beyond the next refresh, because Interval and Latency together    *)
(* are no longer than the life of a token; so while the timer has not      *)
(* fired, a page that was given its token has one until its next refresh.  *)

Granting == {"refresh", "auto", "verify"}

\* A call is out no longer than Latency, and grants a token for a full life.
CallTimely(c, k) ==
  /\ c.at # "none" => clock <= c.by /\ c.by <= clock + Latency
  /\ k \in Granting /\ c.at = "ok" => c.access + Latency >= c.by + AccessLife

\* The token of a device is good until its page refreshes it.
KeptToDue(d) ==
  (page[d].user \/ page[d].check = "again") /\ page[d].kept /\ ~Out(d, "auto")
    => jar[d].access >= page[d].due

Timely(d) ==
  /\ page[d].due <= clock + Interval
  /\ Out(d, "me") => page[d].check \in {"me", "again"}
  /\ Out(d, "refresh") => page[d].check = "refresh"
  /\ page[d].user \/ Out(d, "verify") \/ Out(d, "logout") => page[d].check = "over"
  /\ \A k \in Kinds : CallTimely(calls[d][k], k)
  /\ KeptToDue(d)

KeptInv == TypeOK /\ \A d \in Devices : Timely(d)

LEMMA TimelyInit == Init => KeptInv
<1> SUFFICES ASSUME Init, NEW d \in Devices PROVE Timely(d)
  BY TypeInit DEF KeptInv
<1>1. /\ page[d] = Shut /\ \A k \in Kinds : calls[d][k] = NoCall
      /\ clock \in Nat /\ Interval \in Nat
  BY SessionAssumption DEF Init
<1>2. Shut.due = 0 /\ Shut.user = FALSE /\ Shut.check = "shut" /\ NoCall.at = "none"
  BY DEF Shut, NoCall
<1> QED BY <1>1, <1>2 DEF Timely, KeptToDue, CallTimely, Out, Kinds

\* A device that takes no step stays as it is.
LEMMA Frame ==
  ASSUME TypeOK, NEW d \in Devices,
         Serves(d) \/ HearsAny(d) \/ TimerRefresh(d) \/ Uses(d),
         NEW e \in Devices, e # d
  PROVE  /\ clock' = clock /\ jar'[e] = jar[e] /\ page'[e] = page[e]
         /\ calls'[e] = calls[e]
<1>1. /\ jar \in [Devices -> Jars] /\ page \in [Devices -> Pages]
      /\ calls \in [Devices -> [Kinds -> CallRecords]]
  BY Typed
<1>2. CASE Serves(d)
  BY <1>1, <1>2 DEF Serves, ServeMe, ServeRefresh, ServeRequest, ServeVerify, ServeLogout, Answered
<1>3. CASE HearsAny(d)
  BY <1>1, <1>3 DEF HearsAny, HearMe, HearRefresh, HearAuto, HearRequest, HearVerify, HearLogout,
       Lose, Hears, Over
<1>4. CASE TimerRefresh(d) \/ Uses(d)
  BY <1>1, <1>4 DEF TimerRefresh, Uses, Open, RequestCode, Verify, ChangeEmail, Logout, Submits, Move
<1> QED BY <1>2, <1>3, <1>4

LEMMA OthersTimely ==
  ASSUME NEW e \in Devices, Timely(e), clock' = clock, jar'[e] = jar[e],
         page'[e] = page[e], calls'[e] = calls[e]
  PROVE  Timely(e)'
BY DEF Timely, KeptToDue, CallTimely, Out

\* Calls that begin, and none.
LEMMA NewCallTimely ==
  ASSUME TypeOK, NEW cookies, NEW k \in Kinds
  PROVE  /\ CallTimely(NoCall, k) /\ CallTimely(Call(cookies), k)
         /\ Call(cookies).at = "sent" /\ NoCall.at = "none"
BY SessionAssumption DEF TypeOK, CallTimely, NoCall, Call

\* A token that was granted is good beyond the next refresh.
LEMMA GrantLasts ==
  ASSUME KeptInv, NEW d \in Devices, NEW k \in Granting, calls[d][k].at = "ok"
  PROVE  calls[d][k].access >= clock + Interval /\ calls[d][k].access >= page[d].due
<1>1. /\ calls[d][k] \in CallRecords /\ page[d] \in Pages /\ clock \in Nat
      /\ CallTimely(calls[d][k], k) /\ page[d].due <= clock + Interval
  BY Typed DEF KeptInv, Timely, Granting, Kinds
<1>2. calls[d][k].access \in Nat /\ calls[d][k].by \in Nat /\ page[d].due \in Nat
  BY <1>1 DEF CallRecords, Pages
<1>3. /\ calls[d][k].by >= clock
      /\ calls[d][k].access + Latency >= calls[d][k].by + AccessLife
  BY <1>1 DEF CallTimely
<1> QED BY <1>1, <1>2, <1>3, SessionAssumption

\* Whatever is served is the answer of a call that was sent, and a token that
\* is granted is good for a full life.
Served(d) ==
  /\ UNCHANGED <<clock, jar, page>>
  /\ \E k \in Kinds, ok \in BOOLEAN, token \in Nat, refresh \in BOOLEAN :
       /\ Sent(d, k) /\ Answered(d, k, ok, token, refresh)
       /\ k \in Granting /\ ok => token = clock + AccessLife

LEMMA ServesTimely ==
  ASSUME KeptInv, TypeOK', NEW d \in Devices, Serves(d)
  PROVE  Timely(d)'
<1>1. /\ TypeOK /\ Timely(d)
      /\ calls \in [Devices -> [Kinds -> CallRecords]]
  BY Typed DEF KeptInv
<1>2. Served(d)
  <2>1. CASE ServeMe(d)
    <3> DEFINE ok == calls[d]["me"].access > clock
    <3>1. ok \in BOOLEAN
      OBVIOUS
    <3>2. Sent(d, "me") /\ Answered(d, "me", ok, 0, FALSE) /\ UNCHANGED <<clock, jar, page>>
      BY <2>1 DEF ServeMe
    <3> HIDE DEF ok
    <3> QED BY <3>1, <3>2 DEF Kinds, Granting, Served
  <2>2. ASSUME NEW k \in {"refresh", "auto"}, ServeRefresh(d, k)
        PROVE  Served(d)
    <3> DEFINE taken == RefreshTaken(d, k)
               token == IF taken THEN clock + AccessLife ELSE 0
    <3>1. k \in Kinds /\ calls[d][k] \in CallRecords /\ clock + AccessLife \in Nat
      BY <1>1, Typed, SessionAssumption DEF Kinds
    <3>2. calls[d][k].refresh \in BOOLEAN
      BY <3>1 DEF CallRecords
    <3>3. taken \in BOOLEAN
      BY <3>2, Zenon DEF RefreshTaken
    <3>4. token \in Nat /\ (taken => token = clock + AccessLife)
      BY <3>1
    <3>5. Sent(d, k) /\ Answered(d, k, taken, token, FALSE) /\ UNCHANGED <<clock, jar, page>>
      BY <2>2 DEF ServeRefresh
    <3> HIDE DEF taken, token
    <3> QED BY <3>1, <3>3, <3>4, <3>5 DEF Served
  <2>3. CASE ServeRequest(d)
    BY <2>3 DEF ServeRequest, Kinds, Granting, Served
  <2>4. ASSUME NEW right \in BOOLEAN, ServeVerify(d, right)
        PROVE  Served(d)
    <3> DEFINE good == right /\ clock <= code
               token == IF good THEN clock + AccessLife ELSE 0
    <3>1. good \in BOOLEAN /\ token \in Nat /\ (good => token = clock + AccessLife)
      BY <1>1, Typed, SessionAssumption
    <3>2. /\ Sent(d, "verify") /\ Answered(d, "verify", good, token, good)
          /\ UNCHANGED <<clock, jar, page>>
      BY <2>4 DEF ServeVerify
    <3> HIDE DEF good, token
    <3> QED BY <3>1, <3>2 DEF Kinds, Served
  <2>5. CASE ServeLogout(d)
    BY <2>5 DEF ServeLogout, Kinds, Granting, Served
  <2> QED BY <2>1, <2>2, <2>3, <2>4, <2>5 DEF Serves
<1>3. PICK k \in Kinds, ok \in BOOLEAN, token \in Nat, refresh \in BOOLEAN :
        /\ Sent(d, k) /\ Answered(d, k, ok, token, refresh)
        /\ k \in Granting /\ ok => token = clock + AccessLife
  BY <1>2 DEF Served
<1> DEFINE c == [calls[d][k] EXCEPT !.at = IF ok THEN "ok" ELSE "refused",
                                    !.access = token, !.refresh = refresh]
<1>4. calls[d][k] \in CallRecords
  BY <1>1
<1>5. c.at = (IF ok THEN "ok" ELSE "refused") /\ c.by = calls[d][k].by /\ c.access = token
  BY <1>4 DEF CallRecords
<1>6. calls' = [calls EXCEPT ![d][k] = c]
  BY <1>3 DEF Answered
<1> HIDE DEF c
<1>7. /\ calls'[d][k] = c
      /\ \A j \in Kinds : j # k => calls'[d][j] = calls[d][j]
  BY <1>1, <1>6
<1>8. CallTimely(c, k)
  <2>1. /\ calls[d][k].at = "sent" /\ CallTimely(calls[d][k], k)
        /\ clock \in Nat /\ calls[d][k].by \in Nat
    BY <1>1, <1>3, <1>4, Typed DEF Sent, Timely, CallRecords
  <2>2. clock <= c.by /\ c.by <= clock + Latency
    BY <1>5, <2>1 DEF CallTimely
  <2>3. ASSUME k \in Granting, ok
        PROVE  c.access + Latency >= c.by + AccessLife
    BY <1>3, <1>5, <2>1, <2>2, <2>3, SessionAssumption
  <2> QED BY <1>5, <2>2, <2>3 DEF CallTimely
<1>9. \A j \in Kinds : /\ CallTimely(calls'[d][j], j)
                       /\ calls'[d][j].at = "none" <=> calls[d][j].at = "none"
  <2>1. c.at # "none" /\ calls[d][k].at # "none"
    BY <1>3, <1>5 DEF Sent
  <2> QED BY <1>1, <1>7, <1>8, <2>1 DEF Timely
<1> QED BY <1>1, <1>2, <1>9 DEF Served, Timely, KeptToDue, CallTimely, Out, Kinds

\* A step that leaves the time is judged by its device's calls, page and jar.
LEMMA TimelyFromParts ==
  ASSUME clock' = clock, NEW d \in Devices,
         page'[d].due <= clock + Interval,
         calls'[d]["me"].at # "none" => page'[d].check \in {"me", "again"},
         calls'[d]["refresh"].at # "none" => page'[d].check = "refresh",
         page'[d].user \/ calls'[d]["verify"].at # "none" \/ calls'[d]["logout"].at # "none"
           => page'[d].check = "over",
         \A k \in Kinds : CallTimely(calls'[d][k], k),
         page'[d].user \/ page'[d].check = "again" =>
           (page'[d].kept /\ calls'[d]["auto"].at = "none" => jar'[d].access >= page'[d].due)
  PROVE  Timely(d)'
BY DEF Timely, KeptToDue, CallTimely, Out

LEMMA HearsTimely ==
  ASSUME KeptInv, TypeOK', NEW d \in Devices, HearsAny(d)
  PROVE  Timely(d)'
<1>1. /\ TypeOK /\ Timely(d) /\ clock \in Nat
      /\ calls \in [Devices -> [Kinds -> CallRecords]]
      /\ page \in [Devices -> Pages] /\ page[d] \in Pages
      /\ jar \in [Devices -> Jars] /\ jar[d] \in Jars
      /\ {"me", "refresh", "auto", "request", "verify", "logout"} = Kinds
  BY Typed DEF KeptInv, Kinds
<1>2. ASSUME NEW k \in Kinds, Over(d, k)
      PROVE  /\ \A j \in Kinds : CallTimely(calls'[d][j], j)
             /\ calls'[d][k].at = "none"
             /\ \A j \in Kinds : j # k => calls'[d][j] = calls[d][j]
  <2>1. calls' = [calls EXCEPT ![d][k] = NoCall]
    BY <1>2 DEF Over
  <2> QED BY <1>1, <2>1, NewCallTimely DEF Timely
<1>3. /\ Found(d).due = page[d].due /\ Found(d).check = "over"
      /\ Found(d).kept => jar[d].access >= page[d].due \/ (page[d].kept /\ page[d].check # "me")
      /\ NobodyThere(d).due = page[d].due /\ NobodyThere(d).check = "over" /\ ~NobodyThere(d).user
  BY <1>1 DEF Found, NobodyThere, Pages
<1>4. CASE HearMe(d)
  <2>1. clock' = clock /\ jar' = jar
    BY <1>4 DEF HearMe, Hears
  <2>2. CASE calls[d]["me"].at = "refused" /\ page[d].check = "me"
    <3>1. /\ page' = [page EXCEPT ![d].check = "refresh"]
          /\ calls' = [calls EXCEPT ![d]["me"] = NoCall, ![d]["refresh"] = Call(jar[d])]
      BY <1>4, <2>2 DEF HearMe
    <3>2. /\ page'[d].due = page[d].due /\ page'[d].user = page[d].user
          /\ page'[d].check = "refresh"
      BY <3>1, <1>1 DEF Pages
    <3>3. \A k \in Kinds : CallTimely(calls'[d][k], k)
      BY <3>1, <1>1, NewCallTimely DEF Timely
    <3>4. /\ \A k \in {"verify", "logout"} : calls'[d][k] = calls[d][k]
          /\ calls'[d]["me"].at = "none"
      BY <3>1, <1>1, NewCallTimely
    <3> QED BY <1>1, <2>1, <2>2, <3>2, <3>3, <3>4, TimelyFromParts DEF Timely, Out
  <2>3. CASE ~(calls[d]["me"].at = "refused" /\ page[d].check = "me")
    <3>1. page'[d] \in {Found(d), NobodyThere(d)} /\ Over(d, "me")
      BY <1>1, <1>4, <2>3 DEF HearMe
    <3>2. page'[d].due = page[d].due /\ page'[d].check = "over"
      BY <1>3, <3>1
    <3>3. page[d].check \in {"me", "again"}
      BY <1>1, <1>4 DEF HearMe, Hears, Timely, Out
    <3>4. ASSUME page'[d].user, page'[d].kept, calls'[d]["auto"].at = "none"
          PROVE  jar'[d].access >= page'[d].due
      BY <1>1, <1>2, <1>3, <2>1, <3>1, <3>2, <3>3, <3>4 DEF Timely, KeptToDue, Out
    <3>5. calls'[d]["me"].at = "none" /\ calls'[d]["refresh"].at = "none"
      BY <1>1, <1>2, <3>1, <3>3 DEF Timely, Out
    <3> QED BY <1>1, <1>2, <2>1, <3>1, <3>2, <3>4, <3>5, TimelyFromParts DEF Timely
  <2> QED BY <2>2, <2>3
<1>5. CASE HearRefresh(d)
  <2> DEFINE cookies == [jar[d] EXCEPT !.access = calls[d]["refresh"].access]
  <2>1. clock' = clock
    BY <1>5 DEF HearRefresh, Hears
  <2>2. CASE calls[d]["refresh"].at = "ok"
    <3>1. /\ jar' = [jar EXCEPT ![d] = cookies]
          /\ page' = [page EXCEPT ![d].check = "again", ![d].kept = TRUE]
          /\ calls' = [calls EXCEPT ![d]["refresh"] = NoCall, ![d]["me"] = Call(cookies)]
      BY <1>5, <2>2 DEF HearRefresh
    <3>2. jar'[d].access = calls[d]["refresh"].access
      BY <3>1, <1>1 DEF Jars
    <3>3. page'[d].due = page[d].due /\ page'[d].check = "again" /\ page'[d].user = page[d].user
      BY <3>1, <1>1 DEF Pages
    <3> HIDE DEF cookies
    <3>4. /\ \A k \in Kinds : CallTimely(calls'[d][k], k)
          /\ \A k \in {"verify", "logout"} : calls'[d][k] = calls[d][k]
          /\ calls'[d]["refresh"].at = "none"
      BY <3>1, <1>1, NewCallTimely DEF Timely
    <3>5. page[d].check # "over"
      BY <1>1, <1>5, <2>2 DEF HearRefresh, Hears, Timely, Out
    <3>6. jar'[d].access >= page'[d].due
      BY <2>2, <3>2, <3>3, GrantLasts DEF Granting
    <3> QED BY <1>1, <2>1, <3>3, <3>4, <3>5, <3>6, TimelyFromParts DEF Timely, Out
  <2>3. CASE calls[d]["refresh"].at # "ok"
    <3>1. page' = [page EXCEPT ![d] = NobodyThere(d)] /\ jar' = jar /\ Over(d, "refresh")
      BY <1>5, <2>3 DEF HearRefresh
    <3>2. page'[d] = NobodyThere(d)
      BY <3>1, <1>1
    <3>3. page[d].check = "refresh"
      BY <1>1, <1>5, <2>3 DEF HearRefresh, Hears, Timely, Out
    <3> QED BY <1>1, <1>2, <1>3, <2>1, <3>1, <3>2, <3>3, TimelyFromParts DEF Timely, Out
  <2> QED BY <2>2, <2>3
<1>6. CASE HearAuto(d)
  <2>1. clock' = clock /\ Over(d, "auto")
    BY <1>6 DEF HearAuto, Hears
  <2>2. /\ page'[d].due = page[d].due /\ page'[d].check = page[d].check
        /\ page'[d].user = page[d].user
        /\ page'[d].kept = (calls[d]["auto"].at = "ok")
    BY <1>1, <1>6 DEF HearAuto, Pages
  <2>3. ASSUME page'[d].kept PROVE jar'[d].access >= page'[d].due
    <3>1. calls[d]["auto"].at = "ok"
      BY <2>2, <2>3
    <3>2. jar'[d].access = calls[d]["auto"].access
      BY <1>1, <1>6, <3>1 DEF HearAuto, Jars
    <3> QED BY <2>2, <3>1, <3>2, GrantLasts DEF Granting
  <2>4. /\ \A j \in Kinds : CallTimely(calls'[d][j], j)
        /\ \A j \in {"me", "refresh", "verify", "logout"} : calls'[d][j] = calls[d][j]
    BY <1>1, <1>2, <2>1
  <2>5. /\ page'[d].due <= clock + Interval
        /\ calls'[d]["me"].at # "none" => page'[d].check \in {"me", "again"}
        /\ calls'[d]["refresh"].at # "none" => page'[d].check = "refresh"
        /\ page'[d].user \/ calls'[d]["verify"].at # "none" \/ calls'[d]["logout"].at # "none"
             => page'[d].check = "over"
    BY <1>1, <2>2, <2>4 DEF Timely, Out
  <2> QED BY <2>1, <2>3, <2>4, <2>5, TimelyFromParts
<1>7. CASE HearRequest(d)
  <2>1. clock' = clock /\ jar' = jar /\ Over(d, "request")
    BY <1>7 DEF HearRequest, Hears
  <2>2. /\ page'[d].due = page[d].due /\ page'[d].check = page[d].check
        /\ page'[d].user = page[d].user /\ page'[d].kept = page[d].kept
    BY <1>1, <1>7 DEF HearRequest, Pages
  <2>3. /\ \A j \in Kinds : CallTimely(calls'[d][j], j)
        /\ \A j \in {"me", "refresh", "auto", "verify", "logout"} : calls'[d][j] = calls[d][j]
    BY <1>1, <1>2, <2>1
  <2>4. /\ page'[d].due <= clock + Interval
        /\ calls'[d]["me"].at # "none" => page'[d].check \in {"me", "again"}
        /\ calls'[d]["refresh"].at # "none" => page'[d].check = "refresh"
        /\ page'[d].user \/ calls'[d]["verify"].at # "none" \/ calls'[d]["logout"].at # "none"
             => page'[d].check = "over"
    BY <1>1, <2>2, <2>3 DEF Timely, Out
  <2>5. page'[d].user \/ page'[d].check = "again" =>
          (page'[d].kept /\ calls'[d]["auto"].at = "none" => jar'[d].access >= page'[d].due)
    BY <1>1, <2>1, <2>2, <2>3 DEF Timely, KeptToDue, Out
  <2> QED BY <2>1, <2>3, <2>4, <2>5, TimelyFromParts
<1>8. CASE HearVerify(d)
  <2>1. clock' = clock /\ Over(d, "verify") /\ page[d].check = "over"
    BY <1>1, <1>8 DEF HearVerify, Hears, Timely, Out
  <2>2. CASE calls[d]["verify"].at = "ok"
    <3>1. /\ page' = [page EXCEPT ![d].user = TRUE, ![d].kept = TRUE]
          /\ jar' = [jar EXCEPT ![d] = [access |-> calls[d]["verify"].access, refresh |-> TRUE]]
      BY <1>8, <2>2 DEF HearVerify
    <3>2. page'[d].due = page[d].due /\ page'[d].check = "over"
      BY <1>1, <2>1, <3>1 DEF Pages
    <3>3. jar'[d].access >= page'[d].due
      BY <1>1, <2>2, <3>1, <3>2, GrantLasts DEF Granting
    <3> QED BY <1>1, <1>2, <2>1, <3>2, <3>3, TimelyFromParts DEF Timely, Out
  <2>3. CASE calls[d]["verify"].at # "ok"
    <3>1. UNCHANGED <<page, jar>>
      BY <1>8, <2>3 DEF HearVerify
    <3> QED BY <1>1, <1>2, <2>1, <3>1, TimelyFromParts, SMTT(40) DEF Timely, Out, KeptToDue
  <2> QED BY <2>2, <2>3
<1>9. CASE HearLogout(d)
  <2>1. clock' = clock /\ Over(d, "logout") /\ page[d].check = "over"
    BY <1>1, <1>9 DEF HearLogout, Hears, Timely, Out
  <2>2. page'[d].due = page[d].due /\ page'[d].check = "over" /\ ~page'[d].user
    BY <1>1, <1>9, <2>1 DEF HearLogout, Pages
  <2> QED BY <1>1, <1>2, <2>1, <2>2, TimelyFromParts, SMTT(40) DEF Timely, Out
<1>10. ASSUME NEW k \in Kinds, Lose(d, k)
       PROVE  Timely(d)'
  <2>1. clock' = clock /\ jar' = jar /\ Over(d, k) /\ Out(d, k)
    BY <1>10 DEF Lose, Hears, Out
  <2>2. CASE k \in {"me", "refresh"}
    <3>1. page'[d] = NobodyThere(d)
      BY <1>1, <1>10, <2>2 DEF Lose
    <3>2. calls'[d]["me"].at = "none" /\ calls'[d]["refresh"].at = "none"
      BY <1>1, <1>2, <2>1, <2>2 DEF Timely, Out
    <3> QED BY <1>1, <1>2, <1>3, <2>1, <3>1, <3>2, TimelyFromParts DEF Timely
  <2>3. CASE k = "auto"
    <3>1. page' = [page EXCEPT ![d].kept = FALSE]
      BY <1>1, <1>10, <2>3 DEF Lose
    <3>2. /\ page'[d].due = page[d].due /\ page'[d].check = page[d].check
          /\ page'[d].user = page[d].user /\ ~page'[d].kept
      BY <1>1, <3>1 DEF Pages
    <3> QED BY <1>1, <1>2, <2>1, <2>3, <3>2, TimelyFromParts DEF Timely, Out
  <2>4. CASE k \in {"request", "verify", "logout"}
    <3>1. page'[d] = page[d]
      BY <1>1, <1>10, <2>4 DEF Lose
    <3> QED BY <1>1, <1>2, <2>1, <2>4, <3>1, TimelyFromParts DEF Timely, Out, KeptToDue
  <2> QED BY <1>1, <2>2, <2>3, <2>4
<1> QED BY <1>4, <1>5, <1>6, <1>7, <1>8, <1>9, <1>10 DEF HearsAny

LEMMA AsksTimely ==
  ASSUME KeptInv, TypeOK', NEW d \in Devices, TimerRefresh(d) \/ Uses(d)
  PROVE  Timely(d)'
<1>1. /\ TypeOK /\ Timely(d) /\ clock \in Nat /\ Interval \in Nat
      /\ calls \in [Devices -> [Kinds -> CallRecords]]
      /\ page \in [Devices -> Pages] /\ page[d] \in Pages
      /\ {"me", "refresh", "auto", "request", "verify", "logout"} = Kinds
  BY Typed, SessionAssumption DEF KeptInv, Kinds
<1>2. ASSUME NEW k \in Kinds, calls' = [calls EXCEPT ![d][k] = Call(jar[d])]
      PROVE  /\ \A j \in Kinds : CallTimely(calls'[d][j], j)
             /\ calls'[d][k].at = "sent"
             /\ \A j \in Kinds : j # k => calls'[d][j] = calls[d][j]
  BY <1>1, <1>2, NewCallTimely DEF Timely
<1>3. UNCHANGED <<clock, jar>>
  BY DEF TimerRefresh, Uses, Open, RequestCode, Verify, ChangeEmail, Logout, Submits, Move
<1>4. CASE TimerRefresh(d)
  <2>1. /\ page' = [page EXCEPT ![d].due = clock + Interval]
        /\ calls' = [calls EXCEPT ![d]["auto"] = Call(jar[d])]
    BY <1>4 DEF TimerRefresh
  <2>2. /\ page'[d].due = clock + Interval /\ page'[d].check = page[d].check
        /\ page'[d].user = page[d].user
    BY <1>1, <2>1 DEF Pages
  <2>3. /\ \A j \in Kinds : CallTimely(calls'[d][j], j)
        /\ calls'[d]["auto"].at = "sent"
        /\ \A j \in {"me", "refresh", "verify", "logout"} : calls'[d][j] = calls[d][j]
    BY <1>1, <1>2, <2>1
  <2>4. /\ page'[d].due <= clock + Interval
        /\ calls'[d]["me"].at # "none" => page'[d].check \in {"me", "again"}
        /\ calls'[d]["refresh"].at # "none" => page'[d].check = "refresh"
        /\ page'[d].user \/ calls'[d]["verify"].at # "none" \/ calls'[d]["logout"].at # "none"
             => page'[d].check = "over"
    BY <1>1, <2>2, <2>3 DEF Timely, Out
  <2> QED BY <1>3, <2>3, <2>4, TimelyFromParts
<1>5. CASE Open(d)
  <2>1. page'[d] = Opened /\ calls'[d] = Asking(jar[d])
    BY <1>1, <1>5 DEF Open
  <2>2. Opened.due = clock + Interval /\ Opened.check = "me" /\ ~Opened.user
    BY DEF Opened, Shut
  <2>3. /\ \A k \in Kinds : CallTimely(calls'[d][k], k)
        /\ \A k \in Kinds \ {"me"} : calls'[d][k].at = "none"
    BY <1>1, <2>1, NewCallTimely, ZenonT(40) DEF Asking
  <2> QED BY <1>1, <1>3, <2>1, <2>2, <2>3, TimelyFromParts
<1>6. ASSUME NEW k \in {"request", "verify"}, NEW step, Submits(d, k, step)
      PROVE  Timely(d)'
  <2>1. calls' = [calls EXCEPT ![d][k] = Call(jar[d])] /\ page' = page /\ page[d].check = "over"
    BY <1>6 DEF Submits, AtLogin
  <2>2. k \in Kinds
    BY <1>1
  <2>3. /\ \A j \in Kinds : CallTimely(calls'[d][j], j)
        /\ \A j \in {"me", "refresh", "auto"} : calls'[d][j] = calls[d][j]
    BY <1>1, <1>2, <2>1, <2>2
  <2>4. /\ page'[d].due <= clock + Interval
        /\ calls'[d]["me"].at # "none" => page'[d].check \in {"me", "again"}
        /\ calls'[d]["refresh"].at # "none" => page'[d].check = "refresh"
        /\ page'[d].user \/ calls'[d]["verify"].at # "none" \/ calls'[d]["logout"].at # "none"
             => page'[d].check = "over"
    BY <1>1, <2>1, <2>3 DEF Timely, Out
  <2>5. page'[d].user \/ page'[d].check = "again" =>
          (page'[d].kept /\ calls'[d]["auto"].at = "none" => jar'[d].access >= page'[d].due)
    BY <1>1, <1>3, <2>1, <2>3 DEF Timely, KeptToDue, Out
  <2> QED BY <1>3, <2>3, <2>4, <2>5, TimelyFromParts
<1>7. CASE ChangeEmail(d)
  <2>1. calls' = calls /\ page' = [page EXCEPT ![d].step = "email"]
    BY <1>7 DEF ChangeEmail
  <2>2. /\ page'[d].due = page[d].due /\ page'[d].check = page[d].check
        /\ page'[d].user = page[d].user /\ page'[d].kept = page[d].kept
    BY <1>1, <2>1 DEF Pages
  <2> QED BY <1>1, <1>3, <2>1, <2>2, TimelyFromParts DEF Timely, Out, KeptToDue
<1>8. CASE Logout(d)
  <2>1. calls' = [calls EXCEPT ![d]["logout"] = Call(jar[d])] /\ page' = page /\ page[d].user
    BY <1>8 DEF Logout
  <2>2. page[d].check = "over"
    BY <1>1, <2>1 DEF Timely
  <2>3. /\ \A j \in Kinds : CallTimely(calls'[d][j], j)
        /\ \A j \in {"me", "refresh", "auto"} : calls'[d][j] = calls[d][j]
    BY <1>1, <1>2, <2>1
  <2>4. /\ page'[d].due <= clock + Interval
        /\ calls'[d]["me"].at # "none" => page'[d].check \in {"me", "again"}
        /\ calls'[d]["refresh"].at # "none" => page'[d].check = "refresh"
        /\ page'[d].user \/ calls'[d]["verify"].at # "none" \/ calls'[d]["logout"].at # "none"
             => page'[d].check = "over"
    BY <1>1, <2>1, <2>2, <2>3 DEF Timely, Out
  <2>5. page'[d].user \/ page'[d].check = "again" =>
          (page'[d].kept /\ calls'[d]["auto"].at = "none" => jar'[d].access >= page'[d].due)
    BY <1>1, <1>3, <2>1, <2>3 DEF Timely, KeptToDue, Out
  <2> QED BY <1>3, <2>3, <2>4, <2>5, TimelyFromParts
<1> QED BY <1>4, <1>5, <1>6, <1>7, <1>8 DEF Uses, RequestCode, Verify

\* Time passes: no call is due to be over by now.
LEMMA TickTimely ==
  ASSUME KeptInv, NEW d \in Devices, Tick
  PROVE  Timely(d)'
<1>1. /\ UNCHANGED <<jar, page, calls>> /\ clock' = clock + 1 /\ clock \in Nat
      /\ \A k \in Kinds : Out(d, k) => calls[d][k].by > clock
      /\ page[d] \in Pages /\ \A k \in Kinds : calls[d][k] \in CallRecords
      /\ Timely(d)
  BY Typed DEF Tick, KeptInv
<1>2. /\ page[d].due \in Nat /\ \A k \in Kinds : calls[d][k].by \in Nat
      /\ Interval \in Nat /\ Latency \in Nat
  BY <1>1, SessionAssumption DEF Pages, CallRecords
<1>3. page[d].due <= clock' + Interval
  BY <1>1, <1>2 DEF Timely
<1>4. ASSUME NEW k \in Kinds, calls[d][k].at # "none"
      PROVE  clock' <= calls[d][k].by /\ calls[d][k].by <= clock' + Latency
  BY <1>1, <1>2, <1>4 DEF Timely, CallTimely, Out
<1> QED BY <1>1, <1>3, <1>4 DEF Timely, CallTimely, KeptToDue, Out

LEMMA KeptStep == KeptInv /\ [Next]_vars => KeptInv'
<1> SUFFICES ASSUME KeptInv, [Next]_vars PROVE KeptInv'
  OBVIOUS
<1>1. TypeOK /\ TypeOK'
  BY TypeStep DEF KeptInv
<1>2. ASSUME NEW e \in Devices PROVE Timely(e)'
  <2>1. CASE Tick
    BY <2>1, TickTimely
  <2>2. ASSUME NEW d \in Devices, Serves(d) \/ HearsAny(d) \/ TimerRefresh(d) \/ Uses(d)
        PROVE  Timely(e)'
    <3>1. CASE d = e
      BY <1>1, <2>2, <3>1, ServesTimely, HearsTimely, AsksTimely
    <3>2. CASE d # e
      BY <1>1, <2>2, <3>2, Frame, OthersTimely DEF KeptInv
    <3> QED BY <3>1, <3>2
  <2>3. CASE UNCHANGED vars
    BY <2>3, OthersTimely DEF vars, KeptInv
  <2> QED BY <2>1, <2>2, <2>3 DEF Next
<1> QED BY <1>1, <1>2 DEF KeptInv

\* A page that shows a user has a good token until its next refresh, unless
\* its last refresh failed or it was opened with a token that ends before.
THEOREM SessionsAreKept == Spec => []KeptAuthorised
<1>1. KeptInv => KeptAuthorised
  <2> SUFFICES ASSUME KeptInv, NEW d \in Devices, page[d].user, page[d].kept,
                      ~Out(d, "auto"), page[d].due > clock
               PROVE  jar[d].access > clock
    BY DEF KeptAuthorised
  <2>1. clock \in Nat /\ page[d].due \in Nat /\ jar[d].access \in Nat
    BY DEF KeptInv, TypeOK
  <2>2. jar[d].access >= page[d].due
    BY DEF KeptInv, Timely, KeptToDue
  <2> QED BY <2>1, <2>2
<1> QED BY <1>1, TimelyInit, KeptStep, PTL DEF Spec

-----------------------------------------------------------------------------
(* The session behind the debug page.                                      *)

\* The debug frontend implements the session it is used in.
THEOREM ImplementsSession == AppSpec => Spec
<1>1. AppInit => Init
  BY DEF AppInit
<1>2. [AppNext]_appVars => [Next]_vars
  BY DEF AppNext, OnPage, OnSession, appVars
<1> QED BY <1>1, <1>2, PTL DEF AppSpec, Spec

\* In the debug frontend, too, a logout leaves no good token behind for longer
\* than the life of one.
THEOREM AppLogoutIsFinal == AppSpec => []NobodyAfterLogout
BY ImplementsSession, LogoutIsFinal, PTL

\* The debug page, while it shows a user and its last refresh has not failed,
\* has a token that is good until the next.
THEOREM AppSessionsAreKept == AppSpec => []KeptAuthorised
BY ImplementsSession, SessionsAreKept, PTL

-----------------------------------------------------------------------------
(* The table of a result: its column in its order.                         *)

Cells == [num : Int \cup {None}, text : Int] \cup {None}

\* The cells of a column that reads as numbers, or of one that reads as text.
Column(S) ==
  /\ S \subseteq Cells
  /\ \A a, b \in S : None \in {a, b} \/ (Debug!Numeric(a) <=> Debug!Numeric(b))

LEMMA CompareIs ==
  ASSUME NEW S, Column(S), NEW a \in S, NEW b \in S
  PROVE  /\ Debug!CompareValues(a, b) \in Int
         /\ Debug!CompareValues(a, b) < 0 <=> Debug!Before(a, b)
         /\ Debug!CompareValues(a, b) > 0 <=> Debug!Before(b, a)
<1>1. a # None => a.num \in Int \cup {None} /\ a.text \in Int
  BY DEF Column, Cells
<1>2. b # None => b.num \in Int \cup {None} /\ b.text \in Int
  BY DEF Column, Cells
<1>3. None \in {a, b} \/ (Debug!Numeric(a) <=> Debug!Numeric(b))
  BY DEF Column
<1>4. CASE a = b \/ None \in {a, b}
  BY <1>4 DEF Debug!CompareValues, Debug!Before
<1>5. CASE a # b /\ None \notin {a, b}
  BY <1>1, <1>2, <1>3, <1>5 DEF Debug!CompareValues, Debug!Before, Debug!Numeric
<1> QED BY <1>4, <1>5

LEMMA BeforeOrders ==
  ASSUME NEW S, Column(S), NEW a \in S, NEW b \in S, NEW c \in S
  PROVE  /\ ~(Debug!Before(a, b) /\ Debug!Before(b, a))
         /\ Debug!Before(a, b) /\ Debug!Before(b, c) => Debug!Before(a, c)
<1>1. \A x \in {a, b, c} : x # None => x.num \in Int \cup {None} /\ x.text \in Int
  BY DEF Column, Cells
<1>2. \A x, y \in {a, b, c} : None \in {x, y} \/ (Debug!Numeric(x) <=> Debug!Numeric(y))
  BY DEF Column
<1> QED BY <1>1, <1>2 DEF Debug!Before, Debug!Numeric

\* Whether a cell is to be above another.
Above(sign, a, b) == IF sign = 1 THEN Debug!Before(a, b) ELSE Debug!Before(b, a)

InOrder(sign, rows) ==
  \A i, j \in DOMAIN rows : i < j => ~Above(sign, rows[j], rows[i])

Inserts == INSTANCE Loop_proofs WITH Body <- Debug!Insert

LEMMA InsertedAt ==
  ASSUME NEW S, NEW rows \in Seq(S), NEW cell \in S, NEW n \in 1..(Len(rows) + 1)
  PROVE  LET out == Debug!InsertAt(rows, n, cell)
         IN  /\ out \in Seq(S) /\ Len(out) = Len(rows) + 1
             /\ \A k \in 1..Len(out) :
                  out[k] = IF k < n THEN rows[k] ELSE IF k = n THEN cell ELSE rows[k - 1]
<1> DEFINE front == SubSeq(rows, 1, n - 1)
           back == SubSeq(rows, n, Len(rows))
           out == (front \o <<cell>>) \o back
<1>1. Len(rows) \in Nat /\ n \in Nat /\ n >= 1 /\ n <= Len(rows) + 1
  OBVIOUS
<1>2. front \in Seq(S) /\ Len(front) = n - 1 /\ \A k \in 1..(n - 1) : front[k] = rows[k]
  BY <1>1
<1>3. /\ back \in Seq(S) /\ Len(back) = Len(rows) - n + 1
      /\ \A k \in 1..(Len(rows) - n + 1) : back[k] = rows[n + k - 1]
  BY <1>1
<1>4. Debug!InsertAt(rows, n, cell) = out
  BY DEF Debug!InsertAt
<1> HIDE DEF front, back
<1>5. /\ front \o <<cell>> \in Seq(S) /\ Len(front \o <<cell>>) = n
      /\ \A k \in 1..n : (front \o <<cell>>)[k] = IF k < n THEN rows[k] ELSE cell
  BY <1>1, <1>2
<1> DEFINE half == front \o <<cell>>
<1>6. /\ half \in Seq(S) /\ Len(half) = n
      /\ \A k \in 1..n : half[k] = IF k < n THEN rows[k] ELSE cell
  BY <1>5
<1>7. out = half \o back
  OBVIOUS
<1> HIDE DEF half, out
<1>8. /\ out \in Seq(S) /\ Len(out) = Len(rows) + 1
      /\ \A k \in 1..Len(out) : out[k] = IF k <= Len(half) THEN half[k] ELSE back[k - Len(half)]
  BY <1>1, <1>3, <1>6, <1>7
<1>9. ASSUME NEW k \in 1..Len(out)
      PROVE  out[k] = IF k < n THEN rows[k] ELSE IF k = n THEN cell ELSE rows[k - 1]
  <2>1. CASE k <= n
    BY <1>1, <1>6, <1>8, <2>1
  <2>2. CASE k > n
    <3>1. k - n \in 1..(Len(rows) - n + 1) /\ n + (k - n) - 1 = k - 1
      BY <1>1, <1>8, <2>2
    <3>2. back[k - n] = rows[k - 1]
      BY <1>3, <3>1
    <3> QED BY <1>1, <1>6, <1>8, <2>2, <3>2
  <2> QED BY <1>1, <2>1, <2>2
<1> QED BY <1>4, <1>8, <1>9

\* One more cell goes where the order is kept.
LEMMA InsertKeepsOrder ==
  ASSUME NEW S, Column(S), NEW sign \in {1, -1}, NEW rows \in Seq(S), InOrder(sign, rows),
         NEW cell \in S
  PROVE  Debug!Insert(sign, rows, cell) \in Seq(S) /\ InOrder(sign, Debug!Insert(sign, rows, cell))
<1> DEFINE after == {i \in DOMAIN rows : Debug!CompareValues(cell, rows[i]) * sign < 0}
           n == IF after = {} THEN Len(rows) + 1 ELSE CHOOSE i \in after : \A j \in after : i <= j
           out == Debug!InsertAt(rows, n, cell)
<1>1. Debug!Insert(sign, rows, cell) = out
  BY DEF Debug!Insert
<1>2. \A i \in DOMAIN rows : rows[i] \in S
  OBVIOUS
<1>3. \A i \in DOMAIN rows : i \in after <=> Above(sign, cell, rows[i])
  <2> SUFFICES ASSUME NEW i \in DOMAIN rows PROVE i \in after <=> Above(sign, cell, rows[i])
    OBVIOUS
  <2> DEFINE v == Debug!CompareValues(cell, rows[i])
  <2>1. v \in Int /\ (v < 0 <=> Debug!Before(cell, rows[i])) /\ (v > 0 <=> Debug!Before(rows[i], cell))
    BY <1>2, CompareIs
  <2>2. i \in after <=> v * sign < 0
    OBVIOUS
  <2> HIDE DEF v, after
  <2>3. CASE sign = 1
    BY <2>1, <2>2, <2>3 DEF Above
  <2>4. CASE sign = -1
    <3>1. v * sign = -v
      BY <2>1, <2>4
    <3> QED BY <2>1, <2>2, <2>4, <3>1 DEF Above
  <2> QED BY <2>3, <2>4
<1>4. after \in SUBSET Nat /\ after \subseteq DOMAIN rows
  OBVIOUS
<1> HIDE DEF after
<1>5. /\ n \in 1..(Len(rows) + 1) /\ (n \in DOMAIN rows => n \in after)
      /\ \A i \in after : n <= i
  <2>1. CASE after = {}
    BY <2>1
  <2>2. CASE after # {}
    <3>1. \E i \in after : \A j \in after : i <= j
      BY <1>4, <2>2, Inserts!LeastOf
    <3>2. n \in after /\ \A j \in after : n <= j
      BY <2>2, <3>1
    <3> HIDE DEF n
    <3>3. n \in DOMAIN rows /\ DOMAIN rows = 1..Len(rows) /\ Len(rows) \in Nat
      BY <1>4, <3>2
    <3> QED BY <3>2, <3>3
  <2> QED BY <2>1, <2>2
<1> HIDE DEF n
<1>6. /\ out \in Seq(S) /\ Len(out) = Len(rows) + 1
      /\ \A k \in 1..Len(out) :
           out[k] = IF k < n THEN rows[k] ELSE IF k = n THEN cell ELSE rows[k - 1]
  BY <1>5, InsertedAt
<1>7. ASSUME NEW i \in DOMAIN out, NEW j \in DOMAIN out, i < j
      PROVE  ~Above(sign, out[j], out[i])
  <2>0. Len(rows) \in Nat /\ n \in Nat /\ i \in 1..(Len(rows) + 1) /\ j \in 1..(Len(rows) + 1)
    BY <1>5, <1>6
  <2> HIDE DEF out
\* Where a cell of the longer column was.
  <2>1. ASSUME NEW k \in 1..(Len(rows) + 1), k # n
        PROVE  LET was == IF k < n THEN k ELSE k - 1
               IN  was \in DOMAIN rows /\ out[k] = rows[was]
    BY <1>5, <1>6, <2>0, <2>1
  <2>2. CASE i # n /\ j # n
    <3> DEFINE from == IF i < n THEN i ELSE i - 1
               to == IF j < n THEN j ELSE j - 1
    <3>1. from \in DOMAIN rows /\ out[i] = rows[from] /\ to \in DOMAIN rows /\ out[j] = rows[to]
      BY <2>0, <2>1, <2>2
    <3>2. from < to
      BY <1>7, <2>0, <2>2
    <3> QED BY <3>1, <3>2 DEF InOrder
  <2>3. CASE i = n
    <3> DEFINE to == j - 1
    <3>1. out[i] = cell /\ to \in DOMAIN rows /\ out[j] = rows[to] /\ n <= to
      BY <1>6, <1>7, <2>0, <2>1, <2>3
    <3>2. n \in DOMAIN rows /\ n \in after
      BY <1>5, <2>0, <3>1
    <3>3. Above(sign, cell, rows[n]) /\ rows[n] \in S /\ rows[to] \in S
      BY <1>2, <1>3, <3>1, <3>2
    <3>4. n = to \/ ~Above(sign, rows[to], rows[n])
      BY <3>1, <3>2, <2>0 DEF InOrder
    <3>5. ~Above(sign, rows[to], cell)
      <4>1. /\ ~(Debug!Before(rows[to], cell) /\ Debug!Before(cell, rows[to]))
            /\ Debug!Before(rows[to], cell) /\ Debug!Before(cell, rows[n]) => Debug!Before(rows[to], rows[n])
        BY <3>3, BeforeOrders
      <4>2. Debug!Before(rows[n], cell) /\ Debug!Before(cell, rows[to]) => Debug!Before(rows[n], rows[to])
        BY <3>3, BeforeOrders
      <4> QED BY <3>3, <3>4, <4>1, <4>2 DEF Above
    <3> QED BY <3>1, <3>5
  <2>4. CASE j = n
    <3>1. out[j] = cell /\ i \in DOMAIN rows /\ out[i] = rows[i] /\ i \notin after
      BY <1>5, <1>6, <1>7, <2>0, <2>1, <2>4
    <3> QED BY <1>3, <3>1
  <2> QED BY <2>2, <2>3, <2>4
<1>8. InOrder(sign, out)
  BY <1>7 DEF InOrder
<1> QED BY <1>1, <1>6, <1>8

\* Rows inserted one by one are in order.
LEMMA SortedIs ==
  ASSUME NEW S, Column(S), NEW sign \in {1, -1}, NEW found \in Seq(S)
  PROVE  InOrder(sign, Debug!Inserting!Loop(sign, <<>>, found))
<1> DEFINE Inv == {rows \in Seq(S) : InOrder(sign, rows)}
<1>1. <<>> \in Inv /\ Len(found) \in Nat
  BY DEF InOrder
<1>2. ASSUME NEW i \in 1..Len(found), NEW rows \in Inv PROVE Debug!Insert(sign, rows, found[i]) \in Inv
  <2>1. found[i] \in S
    OBVIOUS
  <2> QED BY <2>1, InsertKeepsOrder
<1>3. \A rows \in Inv : InOrder(sign, rows)
  OBVIOUS
<1> HIDE DEF Inv
<1>4. Inserts!After(sign, <<>>, found, Len(found)) \in Inv
  BY <1>1, <1>2, Inserts!AfterKeeps
<1>5. Debug!Inserting!Loop(sign, <<>>, found) = Inserts!After(sign, <<>>, found, Len(found))
  BY Zenon DEF Debug!Inserting!Loop, Debug!Inserting!After, Inserts!After
<1> QED BY <1>3, <1>4, <1>5

Keeps == INSTANCE Loop_proofs WITH Body <- Debug!KeepIf

\* What the search leaves is of the column.
LEMMA KeepIs ==
  ASSUME NEW S, NEW rows \in Seq(S), NEW T
  PROVE  Debug!Keep(rows, T) \in Seq(S)
<1> DEFINE Inv == Seq(S)
<1>1. <<>> \in Inv /\ Len(rows) \in Nat
  OBVIOUS
<1>2. ASSUME NEW i \in 1..Len(rows), NEW acc \in Inv PROVE Debug!KeepIf(T, acc, rows[i]) \in Inv
  <2>1. rows[i] \in S
    OBVIOUS
  <2> QED BY <2>1 DEF Debug!KeepIf
<1> HIDE DEF Inv
<1>3. Keeps!After(T, <<>>, rows, Len(rows)) \in Inv
  BY <1>1, <1>2, Keeps!AfterKeeps
<1>4. Debug!Keep(rows, T) = Keeps!After(T, <<>>, rows, Len(rows))
  BY Zenon DEF Debug!Keep, Debug!Filter!Loop, Debug!Filter!After, Keeps!After
<1> QED BY <1>3, <1>4 DEF Inv

SqlType ==
  [rows : Seq(Cells) \cup {None}, error : BOOLEAN, limit : Limits \cup {20}, ran : Limits \cup {20},
   running : BOOLEAN, may : BOOLEAN, query : Cells, sorted : BOOLEAN, dir : {"asc", "desc"}]

LEMMA ColumnSorted ==
  ASSUME sql \in SqlType
  PROVE  Debug!SortedAsAsked
<1> SUFFICES ASSUME sql.rows # None, sql.sorted, Debug!OneKind(sql.rows)
             PROVE  LET rows == Debug!Filtered(sql)
                    IN  \A i, j \in DOMAIN rows : i < j =>
                          IF sql.dir = "asc" THEN ~Debug!Before(rows[j], rows[i])
                          ELSE ~Debug!Before(rows[i], rows[j])
  BY DEF Debug!SortedAsAsked
<1> DEFINE S == {sql.rows[i] : i \in DOMAIN sql.rows}
           found == IF sql.query = None THEN sql.rows ELSE Debug!Keep(sql.rows, {sql.query})
           sign == IF sql.dir = "asc" THEN 1 ELSE -1
           rows == Debug!Filtered(sql)
<1>1. sql.rows \in Seq(Cells) /\ sql.dir \in {"asc", "desc"}
  BY DEF SqlType
<1>2. sql.rows \in Seq(S) /\ S \subseteq Cells
  BY <1>1
<1>3. Column(S)
  BY <1>2 DEF Column, Debug!OneKind
<1>4. rows = Debug!Inserting!Loop(sign, <<>>, found)
  BY DEF Debug!Filtered
<1> HIDE DEF S, rows
<1>5. found \in Seq(S)
  BY <1>2, KeepIs
<1>6. sign \in {1, -1} /\ (sign = 1 <=> sql.dir = "asc")
  OBVIOUS
<1> HIDE DEF found, sign
<1>7. InOrder(sign, rows)
  BY <1>3, <1>4, <1>5, <1>6, SortedIs
<1> QED BY <1>6, <1>7 DEF InOrder, Above, rows

-----------------------------------------------------------------------------
(* The page: its types, and what its lists show.                           *)

\* Calls for the lists of some nodes.
Calling(nodes) == Seq([list : Debug!Levels, of : nodes, may : BOOLEAN])

PageTyped ==
  /\ sql \in SqlType /\ \E nodes : asked \in Calling(nodes)
  /\ amiss \in [late : SUBSET Debug!Levels, astray : SUBSET Debug!Levels]

DebugInv == PageTyped /\ Debug!BrowsedIsChosen

\* The lists below another, and which that is.
Lower == {"subjects", "chats", "messages", "logs"}

LEMMA AboveIs ==
  /\ Debug!Above("subjects") = "users" /\ Debug!Above("chats") = "subjects"
  /\ Debug!Above("messages") = "chats" /\ Debug!Above("logs") = "traces"
  /\ \A l \in Debug!Levels : ~Debug!Top(l) <=> l \in Lower
<1>1. None \notin Debug!Levels
  BY NoneIsNoList
<1>2. ASSUME NEW u \in Debug!Levels, NEW l \in Lower, Debug!Below[u] = l
      PROVE  u = CASE l = "subjects" -> "users" [] l = "chats" -> "subjects"
                   [] l = "messages" -> "chats" [] OTHER -> "traces"
  BY <1>1, <1>2 DEF Debug!Below, Debug!Levels, Lower
<1>3. /\ Debug!Below["users"] = "subjects" /\ Debug!Below["subjects"] = "chats"
      /\ Debug!Below["chats"] = "messages" /\ Debug!Below["traces"] = "logs"
      /\ {"users", "subjects", "chats", "traces"} \subseteq Debug!Levels
  BY DEF Debug!Below, Debug!Levels
<1> QED BY <1>2, <1>3 DEF Debug!Above, Debug!Top, Debug!Levels, Lower

\* What a list shows depends on what is chosen, listed and asked for.
LEMMA BrowsedSame ==
  ASSUME DebugInv, UNCHANGED <<lists, chosen, asked, amiss>>
  PROVE  Debug!BrowsedIsChosen'
BY DEF DebugInv, Debug!BrowsedIsChosen, Debug!Above, Debug!Rests, Debug!Elements

LEMMA MountedKeeps ==
  ASSUME NEW t, Debug!Mounted(t)
  PROVE  DebugInv'
<1>1. /\ lists' = [l \in Debug!Levels |-> None] /\ chosen' = [l \in Debug!Levels |-> None]
      /\ sql' = Debug!Blank /\ amiss' = Debug!NothingAmiss
      /\ asked' = IF t = "trace" THEN <<Debug!Call("traces", Root)>> ELSE <<>>
  BY DEF Debug!Mounted
<1>3. Debug!Blank \in SqlType
  BY DEF Debug!Blank, SqlType, Cells
<1>4. asked' \in Calling({Root})
  <2> DEFINE call == Debug!Call("traces", Root)
             T == [list : Debug!Levels, of : {Root}, may : BOOLEAN]
  <2>1. call \in T /\ asked' = IF t = "trace" THEN <<call>> ELSE <<>>
    BY <1>1 DEF Debug!Call, Debug!Levels
  <2> HIDE DEF call, T
  <2>2. asked' \in Seq(T)
    BY <2>1
  <2> QED BY <2>2 DEF Calling, T
<1>5. PageTyped'
  BY <1>1, <1>3, <1>4 DEF PageTyped, Debug!NothingAmiss
<1>6. ASSUME NEW l \in Debug!Levels, ~Debug!Top(l) PROVE chosen'[Debug!Above(l)] = None
  BY <1>1, <1>6, AboveIs DEF Lower, Debug!Levels
<1>7. Debug!BrowsedIsChosen'
  BY <1>6 DEF Debug!BrowsedIsChosen, Debug!Above, Debug!Top
<1> QED BY <1>5, <1>7 DEF DebugInv

LEMMA AsksTyped ==
  ASSUME PageTyped, NEW l \in Debug!Levels, NEW of, Debug!Asks(l, of)
  PROVE  /\ \E nodes : asked' \in Calling(nodes)
         /\ \A m : m # l /\ (\A n \in DOMAIN asked' : asked'[n].list # m)
                     => \A n \in DOMAIN asked : asked[n].list # m
         /\ \E n \in DOMAIN asked' : asked'[n].list = l
<1>0. PICK nodes : asked \in Calling(nodes)
  BY DEF PageTyped
<1> DEFINE call == Debug!Call(l, of)
           S == [list : Debug!Levels, of : nodes, may : BOOLEAN]
           T == [list : Debug!Levels, of : nodes \cup {of}, may : BOOLEAN]
<1>1. call \in T /\ call.list = l /\ S \subseteq T
  BY DEF Debug!Call
<1>2. asked' = Append(asked, call) /\ asked \in Seq(S)
  BY <1>0 DEF Debug!Asks, Calling
<1> HIDE DEF call, S, T
<1>3. asked \in Seq(T)
  BY <1>1, <1>2, SeqMonotonic
<1>4. asked' \in Seq(T)
  BY <1>1, <1>2, <1>3
<1>5. asked' \in Calling(nodes \cup {of})
  BY <1>4 DEF Calling, T
<1>6. /\ \A m : m # l /\ (\A n \in DOMAIN asked' : asked'[n].list # m)
                  => \A n \in DOMAIN asked : asked[n].list # m
      /\ \E n \in DOMAIN asked' : asked'[n].list = l
  BY <1>1, <1>2, <1>3
<1> QED BY <1>5, <1>6

LEMMA ReloadKeeps ==
  ASSUME DebugInv, NEW l \in {"users", "traces"}, Debug!Reload(l)
  PROVE  DebugInv'
<1>1. l \in Debug!Levels /\ Debug!Asks(l, Root) /\ UNCHANGED <<lists, chosen, sql, amiss>>
  BY DEF Debug!Reload, Debug!Levels
<1>2. /\ \E nodes : asked' \in Calling(nodes)
      /\ \A m : m # l /\ (\A n \in DOMAIN asked' : asked'[n].list # m)
                  => \A n \in DOMAIN asked : asked[n].list # m
  BY <1>1, AsksTyped DEF DebugInv
<1>3. PageTyped'
  BY <1>1, <1>2 DEF DebugInv, PageTyped
<1>4. \A m \in Debug!Levels : ~Debug!Top(m) => m # l
  BY DEF Debug!Top
<1>5. Debug!BrowsedIsChosen'
  BY <1>1, <1>2, <1>4
     DEF DebugInv, Debug!BrowsedIsChosen, Debug!Above, Debug!Rests, Debug!Elements, Debug!Top
<1> QED BY <1>3, <1>5 DEF DebugInv

LEMMA ChooseKeeps ==
  ASSUME DebugInv, NEW l \in {"users", "subjects", "chats", "traces"},
         NEW n \in Debug!Elements(l, lists[l]), Debug!Choose(l, n)
  PROVE  DebugInv'
<1> DEFINE b == Debug!Below[l]
<1>1. /\ chosen' = [d \in Debug!Levels |-> IF d = l THEN n ELSE IF d \in Debug!Deeper(l) THEN None ELSE chosen[d]]
      /\ lists' = [d \in Debug!Levels |-> IF d \in Debug!Deeper(l) \ {b} THEN None ELSE lists[d]]
      /\ amiss' = [amiss EXCEPT !.astray = IF lists[l] = Debug!Wanted(l) THEN @ \ {l} ELSE @ \cup {l}]
      /\ Debug!Asks(b, n) /\ sql' = sql
  BY DEF Debug!Choose
<1>2. l \in Debug!Levels /\ b \in Debug!Levels
  BY DEF Debug!Levels, Debug!Below
<1>3. /\ \E nodes : asked' \in Calling(nodes)
      /\ \A m : m # b /\ (\A k \in DOMAIN asked' : asked'[k].list # m)
                  => \A k \in DOMAIN asked : asked[k].list # m
      /\ \E k \in DOMAIN asked' : asked'[k].list = b
  BY <1>1, <1>2, AsksTyped DEF DebugInv
<1>4. /\ amiss' \in [late : SUBSET Debug!Levels, astray : SUBSET Debug!Levels]
      /\ amiss'.late = amiss.late
      /\ amiss'.astray = IF lists[l] = Debug!Wanted(l) THEN amiss.astray \ {l} ELSE amiss.astray \cup {l}
  BY <1>1, <1>2 DEF DebugInv, PageTyped
<1>5. PageTyped'
  BY <1>1, <1>3, <1>4 DEF DebugInv, PageTyped
<1>6. ASSUME NEW m \in Lower,
             chosen'[Debug!Above(m)] # None
      PROVE  /\ (\A k \in DOMAIN asked' : asked'[k].list # m) /\ m \notin amiss'.late
                  => lists'[m] = chosen'[Debug!Above(m)]
             /\ chosen'[m] # None /\ m \notin amiss'.astray
                  => chosen'[m] \in Debug!Elements(m, chosen'[Debug!Above(m)])
  <2>1. /\ m \in Debug!Levels /\ Debug!Above(m) \in Debug!Levels /\ ~Debug!Top(m)
    BY AboveIs DEF Lower, Debug!Levels
  <2>2. CASE m = b
    <3>1. m \in Debug!Deeper(l) /\ m # l
      BY <2>2 DEF Debug!Deeper, Debug!Below, Debug!Levels
    <3>2. chosen'[m] = None
      BY <1>1, <2>1, <3>1
    <3> QED BY <1>3, <2>2, <3>2
  <2>3. CASE m # b
    <3>1. Debug!Above(m) # l /\ Debug!Above(m) \notin Debug!Deeper(l)
      <4>1. Debug!Above(m) \notin Debug!Deeper(l)
        BY <1>1, <1>6, <2>1 DEF Debug!Deeper, Debug!Levels
      <4>2. Debug!Above(m) # l
        BY <2>3, AboveIs DEF Lower, Debug!Below
      <4> QED BY <4>1, <4>2
    <3>2. chosen'[Debug!Above(m)] = chosen[Debug!Above(m)]
      BY <1>1, <2>1, <3>1
    <3>3. m \notin Debug!Deeper(l)
      BY <2>3, <3>1, AboveIs DEF Lower, Debug!Deeper, Debug!Below
    <3>4. lists'[m] = lists[m]
      BY <1>1, <2>1, <3>3
    <3>5. /\ (\A k \in DOMAIN asked : asked[k].list # m) /\ m \notin amiss.late
               => lists[m] = chosen[Debug!Above(m)]
          /\ chosen[m] # None /\ m \notin amiss.astray
               => chosen[m] \in Debug!Elements(m, chosen[Debug!Above(m)])
      BY <1>6, <2>1, <3>2 DEF DebugInv, Debug!BrowsedIsChosen, Debug!Rests
    <3>6. (\A k \in DOMAIN asked' : asked'[k].list # m) /\ m \notin amiss'.late
            => lists'[m] = chosen'[Debug!Above(m)]
      BY <1>3, <1>4, <2>3, <3>2, <3>4, <3>5
    <3>7. CASE m # l
      <4>1. chosen'[m] = chosen[m]
        BY <1>1, <2>1, <3>3, <3>7
      <4>2. m \notin amiss'.astray => m \notin amiss.astray
        BY <1>4, <3>7
      <4> QED BY <3>2, <3>5, <3>6, <4>1, <4>2
    <3>8. CASE m = l
      <4>1. chosen'[m] = n
        BY <1>1, <2>1, <3>8
      <4>2. m \notin amiss'.astray => lists[l] = Debug!Wanted(l)
        BY <1>4, <3>8
      <4>3. Debug!Wanted(l) = chosen[Debug!Above(m)]
        BY <2>1, <3>8 DEF Debug!Wanted
      <4> QED BY <3>2, <3>6, <3>8, <4>1, <4>2, <4>3
    <3> QED BY <3>7, <3>8
  <2> QED BY <2>2, <2>3
<1>7. Debug!BrowsedIsChosen'
  <2>1. \A m \in Debug!Levels : ~Debug!Top(m) => m \in Lower
    BY AboveIs
  <2> HIDE DEF b
  <2> QED BY <1>6, <2>1 DEF Debug!BrowsedIsChosen, Debug!Above, Debug!Rests, Debug!Elements, Debug!Top
<1> QED BY <1>5, <1>7 DEF DebugInv

\* A call answered is out no more; the others are.
LEMMA AnsweredCall ==
  ASSUME PageTyped, NEW n \in DOMAIN asked, asked' = Debug!RemoveAt(asked, n)
  PROVE  /\ \E nodes : asked' \in Calling(nodes)
         /\ asked[n].list \in Debug!Levels
         /\ \A m : m # asked[n].list /\ (\A k \in DOMAIN asked' : asked'[k].list # m)
                     => \A k \in DOMAIN asked : asked[k].list # m
<1>0. PICK nodes : asked \in Calling(nodes)
  BY DEF PageTyped
<1> DEFINE S == [list : Debug!Levels, of : nodes, may : BOOLEAN]
           front == SubSeq(asked, 1, n - 1)
           back == SubSeq(asked, n + 1, Len(asked))
<1>1. \A call \in S : call.list \in Debug!Levels
  OBVIOUS
<1>2. asked \in Seq(S) /\ asked' = front \o back
  BY <1>0 DEF Calling, Debug!RemoveAt
<1> HIDE DEF S
<1>3. Len(asked) \in Nat /\ n \in 1..Len(asked)
  BY <1>2
<1>4. /\ front \in Seq(S) /\ Len(front) = n - 1 /\ \A k \in 1..(n - 1) : front[k] = asked[k]
      /\ back \in Seq(S) /\ Len(back) = Len(asked) - n
      /\ \A k \in 1..(Len(asked) - n) : back[k] = asked[n + k]
  BY <1>2, <1>3, SMTT(40)
<1> HIDE DEF front, back
<1>5. /\ asked' \in Seq(S) /\ Len(asked') = Len(asked) - 1
      /\ \A k \in 1..(Len(asked) - 1) : asked'[k] = IF k <= n - 1 THEN front[k] ELSE back[k - (n - 1)]
  BY <1>2, <1>3, <1>4, SMTT(40)
<1>6. ASSUME NEW m, m # asked[n].list, \A k \in DOMAIN asked' : asked'[k].list # m,
             NEW k \in DOMAIN asked
      PROVE  asked[k].list # m
  <2>1. CASE k = n
    BY <1>6, <2>1
  <2>2. CASE k < n
    <3>1. k \in DOMAIN asked' /\ asked'[k] = asked[k]
      BY <1>2, <1>3, <1>4, <1>5, <2>2
    <3> QED BY <1>6, <3>1
  <2>3. CASE k > n
    <3> DEFINE j == (k - 1) - (n - 1)
    <3>0. k \in Nat /\ k <= Len(asked)
      BY <1>2
    <3>1. /\ k - 1 \in DOMAIN asked' /\ k - 1 \in 1..(Len(asked) - 1) /\ ~(k - 1 <= n - 1)
          /\ j \in 1..(Len(asked) - n) /\ n + j = k
      BY <1>3, <1>5, <2>3, <3>0
    <3> HIDE DEF j
    <3>2. asked'[k - 1] = back[j]
      BY <1>5, <3>1 DEF j
    <3>3. back[j] = asked[k]
      BY <1>4, <3>1
    <3> QED BY <1>6, <3>1, <3>2, <3>3
  <2> QED BY <1>2, <1>3, <2>1, <2>2, <2>3
<1>7. asked[n].list \in Debug!Levels
  BY <1>1, <1>2
<1>8. asked' \in Calling(nodes)
  BY <1>5 DEF Calling, S
<1> QED BY <1>6, <1>7, <1>8

LEMMA PageAnswerKeeps ==
  ASSUME DebugInv, NEW n \in DOMAIN asked, NEW good \in BOOLEAN, Debug!Answer(n, good)
  PROVE  DebugInv'
<1> DEFINE l == asked[n].list
           of == asked[n].of
           forgotten == IF l = "users" THEN Debug!Deeper(l) ELSE {}
<1>1. /\ asked' = Debug!RemoveAt(asked, n) /\ sql' = sql
      /\ lists' = IF good THEN [d \in Debug!Levels |-> IF d = l THEN of
                                   ELSE IF d \in forgotten THEN None ELSE lists[d]]
                  ELSE lists
      /\ chosen' = IF good /\ l = "users"
                   THEN [d \in Debug!Levels |-> IF d \in {l} \cup forgotten THEN None ELSE chosen[d]]
                   ELSE chosen
      /\ amiss' = [amiss EXCEPT !.late = IF good /\ of = Debug!Wanted(l) THEN @ \ {l} ELSE @ \cup {l}]
  BY DEF Debug!Answer
<1>2. /\ \E nodes : asked' \in Calling(nodes)
      /\ l \in Debug!Levels
      /\ \A m : m # l /\ (\A k \in DOMAIN asked' : asked'[k].list # m)
                  => \A k \in DOMAIN asked : asked[k].list # m
  BY <1>1, AnsweredCall DEF DebugInv
<1> HIDE DEF l, of
<1>3. /\ amiss' \in [late : SUBSET Debug!Levels, astray : SUBSET Debug!Levels]
      /\ amiss'.astray = amiss.astray
      /\ amiss'.late = IF good /\ of = Debug!Wanted(l) THEN amiss.late \ {l} ELSE amiss.late \cup {l}
  BY <1>1, <1>2 DEF DebugInv, PageTyped
<1>4. PageTyped'
  BY <1>1, <1>2, <1>3 DEF DebugInv, PageTyped
<1>5. ASSUME NEW m \in Lower, chosen'[Debug!Above(m)] # None
      PROVE  /\ (\A k \in DOMAIN asked' : asked'[k].list # m) /\ m \notin amiss'.late
                  => lists'[m] = chosen'[Debug!Above(m)]
             /\ chosen'[m] # None /\ m \notin amiss'.astray
                  => chosen'[m] \in Debug!Elements(m, chosen'[Debug!Above(m)])
  <2>1. /\ m \in Debug!Levels /\ Debug!Above(m) \in Debug!Levels /\ ~Debug!Top(m)
    BY AboveIs DEF Lower, Debug!Levels
\* New users clear what was chosen below them.
  <2>2. ASSUME good, l = "users" PROVE m = "logs"
    BY <1>1, <1>5, <2>1, <2>2, AboveIs DEF Lower, Debug!Deeper
  <2>3. chosen'[m] = chosen[m] /\ chosen'[Debug!Above(m)] = chosen[Debug!Above(m)]
    <3>1. CASE good /\ l = "users"
      <4>1. m = "logs" /\ Debug!Above(m) = "traces"
        BY <2>2, <3>1, AboveIs
      <4> QED BY <1>1, <2>1, <3>1, <4>1 DEF Debug!Deeper
    <3>2. CASE ~(good /\ l = "users")
      BY <1>1, <3>2
    <3> QED BY <3>1, <3>2
  <2>4. lists'[m] = IF good /\ m = l THEN of ELSE lists[m]
    <3>1. CASE good /\ l = "users"
      <4>1. m = "logs"
        BY <2>2, <3>1
      <4> QED BY <1>1, <2>1, <3>1, <4>1 DEF Debug!Deeper
    <3>2. CASE good /\ l # "users"
      BY <1>1, <2>1, <3>2
    <3>3. CASE ~good
      BY <1>1, <3>3
    <3> QED BY <3>1, <3>2, <3>3
  <2>5. /\ (\A k \in DOMAIN asked : asked[k].list # m) /\ m \notin amiss.late
             => lists[m] = chosen[Debug!Above(m)]
        /\ chosen[m] # None /\ m \notin amiss.astray
             => chosen[m] \in Debug!Elements(m, chosen[Debug!Above(m)])
    BY <1>5, <2>1, <2>3 DEF DebugInv, Debug!BrowsedIsChosen, Debug!Rests
  <2>6. CASE m # l
    BY <1>2, <1>3, <2>3, <2>4, <2>5, <2>6
  <2>7. CASE m = l
    <3>1. Debug!Wanted(l) = chosen[Debug!Above(m)]
      BY <2>1, <2>7 DEF Debug!Wanted
    <3> QED BY <1>3, <2>3, <2>4, <2>5, <2>7, <3>1
  <2> QED BY <2>6, <2>7
<1>6. Debug!BrowsedIsChosen'
  <2>1. \A m \in Debug!Levels : ~Debug!Top(m) => m \in Lower
    BY AboveIs
  <2> QED BY <1>5, <2>1 DEF Debug!BrowsedIsChosen, Debug!Above, Debug!Rests, Debug!Elements, Debug!Top
<1> QED BY <1>4, <1>6 DEF DebugInv

\* The editor and its table.
LEMMA EditorKeeps ==
  ASSUME DebugInv, NEW next \in SqlType, Debug!Editor(next)
  PROVE  DebugInv'
<1>1. sql' = next /\ UNCHANGED <<lists, chosen, asked, amiss>>
  BY DEF Debug!Editor
<1>2. PageTyped'
  BY <1>1 DEF DebugInv, PageTyped
<1> QED BY <1>1, <1>2, BrowsedSame DEF DebugInv

LEMMA SqlKeeps ==
  ASSUME DebugInv,
         \/ Debug!Execute \/ Debug!Executed \/ Debug!ToggleSort
         \/ \E n \in Limits : Debug!SetLimit(n)
         \/ \E rows \in Tables : \E i \in DOMAIN rows : rows[i] # None /\ Debug!Search(rows[i])
  PROVE  DebugInv'
<1>1. sql \in SqlType
  BY DEF DebugInv, PageTyped
<1>2. \A rows \in Tables : rows \in Seq(Cells)
  BY DebugAppAssumption DEF Cells
<1>3. CASE Debug!Execute
  <2> DEFINE may == jar[Here].access > clock
             next == [Debug!Blank EXCEPT !.limit = sql.limit, !.ran = sql.limit, !.running = TRUE,
                                         !.may = may]
  <2>1. may \in BOOLEAN
    OBVIOUS
  <2>2. Debug!Editor(next)
    BY <1>3 DEF Debug!Execute
  <2> HIDE DEF may
  <2>3. next \in SqlType
    BY <1>1, <2>1, ZenonT(40) DEF SqlType, Debug!Blank, Cells
  <2> QED BY <2>2, <2>3, EditorKeeps
<1>4. CASE Debug!Executed
  <2>1. CASE Debug!Editor([sql EXCEPT !.running = FALSE, !.error = TRUE])
    <3>1. [sql EXCEPT !.running = FALSE, !.error = TRUE] \in SqlType
      BY <1>1 DEF SqlType
    <3> QED BY <2>1, <3>1, EditorKeeps
  <2>2. ASSUME NEW rows \in Tables, NEW n \in {sql.ran, Len(rows)},
               Debug!Editor([sql EXCEPT !.running = FALSE,
                               !.rows = IF n = None \/ n > Len(rows) THEN rows ELSE SubSeq(rows, 1, n)])
        PROVE  DebugInv'
    <3> DEFINE cut == IF n = None \/ n > Len(rows) THEN rows ELSE SubSeq(rows, 1, n)
               next == [sql EXCEPT !.running = FALSE, !.rows = cut]
    <3>1. cut \in Seq(Cells)
      <4>1. rows \in Seq(Cells) /\ Len(rows) \in Nat
        BY <1>2
      <4>2. n \in Nat \cup {None}
        BY <1>1, <4>1, DebugAppAssumption DEF SqlType
      <4> QED BY <4>1, <4>2
    <3> HIDE DEF cut
    <3>2. next \in SqlType
      BY <1>1, <3>1 DEF SqlType
    <3>3. Debug!Editor(next)
      BY <2>2 DEF cut
    <3> QED BY <3>2, <3>3, EditorKeeps
  <2> QED BY <1>4, <2>1, <2>2 DEF Debug!Executed
<1>5. CASE Debug!ToggleSort
  <2> DEFINE next == IF ~sql.sorted THEN [sql EXCEPT !.sorted = TRUE, !.dir = "asc"]
                     ELSE IF sql.dir = "asc" THEN [sql EXCEPT !.dir = "desc"]
                     ELSE [sql EXCEPT !.sorted = FALSE, !.dir = "asc"]
  <2>1. next \in SqlType
    BY <1>1 DEF SqlType
  <2>2. Debug!Editor(next)
    BY <1>5 DEF Debug!ToggleSort
  <2> QED BY <2>1, <2>2, EditorKeeps
<1>6. ASSUME NEW n \in Limits, Debug!SetLimit(n) PROVE DebugInv'
  <2>1. [sql EXCEPT !.limit = n] \in SqlType
    BY <1>1 DEF SqlType
  <2> QED BY <1>6, <2>1, EditorKeeps DEF Debug!SetLimit
<1>7. ASSUME NEW c \in Cells, Debug!Search(c) PROVE DebugInv'
  <2>1. [sql EXCEPT !.query = c] \in SqlType
    BY <1>1 DEF SqlType
  <2> QED BY <1>7, <2>1, EditorKeeps DEF Debug!Search
<1>8. \A rows \in Tables : \A i \in DOMAIN rows : rows[i] \in Cells
  BY <1>2
<1> QED BY <1>3, <1>4, <1>5, <1>6, <1>7, <1>8

LEMMA PageKeeps ==
  ASSUME DebugInv, Debug!PageStep
  PROVE  DebugInv'
<1>1. CASE \E t \in {"browser", "sql", "trace"} : Debug!SwitchTab(t)
  BY <1>1, MountedKeeps DEF Debug!SwitchTab
<1>2. CASE Debug!Expand
  <2>1. UNCHANGED <<lists, chosen, asked, amiss, sql>>
    BY <1>2 DEF Debug!Expand
  <2> QED BY <2>1, BrowsedSame DEF DebugInv, PageTyped
<1> QED BY <1>1, <1>2, ReloadKeeps, ChooseKeeps, PageAnswerKeeps, SqlKeeps DEF Debug!PageStep

LEMMA DebugInvHolds == AppSpec => []DebugInv
<1>1. AppInit => DebugInv
  <2> SUFFICES ASSUME Debug!Closed PROVE DebugInv
    BY DEF AppInit
  <2>1. /\ sql = Debug!Blank /\ amiss = Debug!NothingAmiss /\ asked = <<>>
        /\ chosen = [l \in Debug!Levels |-> None]
    BY DEF Debug!Closed
  <2>2. Debug!Blank \in SqlType
    BY DEF Debug!Blank, SqlType, Cells
  <2>3. asked \in Calling({})
    BY <2>1 DEF Calling
  <2>4. PageTyped
    BY <2>1, <2>2, <2>3 DEF PageTyped, Debug!NothingAmiss
  <2>5. \A l \in Debug!Levels : ~Debug!Top(l) => chosen[Debug!Above(l)] = None
    BY <2>1, AboveIs DEF Lower, Debug!Levels
  <2> QED BY <2>4, <2>5 DEF DebugInv, Debug!BrowsedIsChosen
<1>2. DebugInv /\ [AppNext]_appVars => DebugInv'
  <2> SUFFICES ASSUME DebugInv, [AppNext]_appVars PROVE DebugInv'
    OBVIOUS
  <2>1. CASE OnPage
    BY <2>1, PageKeeps DEF OnPage
  <2>2. ASSUME NEW t, Debug!Mounted(t) PROVE DebugInv'
    BY <2>2, MountedKeeps
  <2>3. CASE UNCHANGED pageVars
    <3>1. UNCHANGED <<lists, chosen, asked, amiss, sql>>
      BY <2>3 DEF pageVars
    <3> QED BY <3>1, BrowsedSame DEF DebugInv, PageTyped
  <2>4. OnPage \/ (\E t : Debug!Mounted(t)) \/ UNCHANGED pageVars
    BY Zenon DEF AppNext, OnSession, appVars
  <2> QED BY <2>1, <2>2, <2>3, <2>4
<1> QED BY <1>1, <1>2, PTL DEF AppSpec

\* What the debug page shows is what was chosen, for any tree of users, any
\* order of answers and any failures of them, unless the last answer of a list
\* was late; and a column is shown in its order, for any table.
\* (BrowserPanel, TracePanel, SqlResultsTable)
THEOREM ShownChosenHolds == AppSpec => []ShownIsChosen
<1>1. DebugInv => ShownIsChosen
  BY ColumnSorted DEF DebugInv, PageTyped, ShownIsChosen, Debug!ShownIsChosen
<1> QED BY <1>1, DebugInvHolds, PTL
================================================================================
