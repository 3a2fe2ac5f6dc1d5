-------------------------------- MODULE Session --------------------------------
(***************************************************************************)
(* Signing in and staying signed in: contexts/AuthContext.tsx and          *)
(* pages/LoginPage.tsx, which both frontends have, the calls of lib/api.ts *)
(* they make, and the routes that answer (backend/app/routes/auth.py).     *)
(*                                                                         *)
(* One learner uses one tab on each of several devices.  A browser keeps   *)
(* an access token of a few minutes and a refresh token, both in cookies;  *)
(* the server keeps for the learner, not for the device, whether refresh   *)
(* tokens are taken.  An access token cannot be taken back.  Time is in    *)
(* minutes; the 180 days of a refresh token are beyond any run.            *)
(***************************************************************************)
EXTENDS Naturals

CONSTANTS
  Devices,
  AccessLife,  \* ACCESS_TOKEN_EXPIRY_MINUTES, and the age of the cookie
  Interval,    \* the pages' setInterval
  CodeLife,    \* how long a code of an e-mail is good
  Latency,     \* bound: how long a call is out before it is answered or lost
  MaxTime,     \* bound: minutes
  MaxMoves     \* bound: what the learner does

\* ACCESS_TOKEN_EXPIRY_MINUTES is 3 and the timer's interval 2.
ASSUME SessionAssumption ==
  /\ {AccessLife, Interval, CodeLife, Latency, MaxTime, MaxMoves} \subseteq Nat
  /\ Interval + Latency <= AccessLife /\ Latency < Interval

VARIABLES
  clock,
  code,     \* when the code that was sent last expires, 0 if there is none
  account,  \* whether refresh tokens are taken, and since when not
  jar,      \* the cookies of each device
  page,     \* the state of the page of each device
  calls,    \* the calls of each device, one of a kind
  moves

vars == <<clock, code, account, jar, page, calls, moves>>

-----------------------------------------------------------------------------
(* Cookies and calls.                                                      *)

\* A token is when it expires.
NoCookies == [access |-> 0, refresh |-> FALSE]

\* me and refresh are those of checkSession, auto is that of the timer.
Kinds == {"me", "refresh", "auto", "request", "verify", "logout"}

NoCall == [at |-> "none", by |-> 0, access |-> 0, refresh |-> FALSE]

\* A request carries the cookies of its device.
Call(cookies) ==
  [at |-> "sent", by |-> clock + Latency, access |-> cookies.access, refresh |-> cookies.refresh]

Out(d, k) == calls[d][k].at # "none"
Sent(d, k) == calls[d][k].at = "sent"

\* An answer, with the cookies it sets.
Answered(d, k, ok, access, refresh) ==
  calls' = [calls EXCEPT ![d][k] =
             [@ EXCEPT !.at = IF ok THEN "ok" ELSE "refused",
                       !.access = access, !.refresh = refresh]]

-----------------------------------------------------------------------------
(* The server.  No handler awaits anything between reading and writing.    *)

\* get_me: an access token is judged by itself.
ServeMe(d) ==
  /\ Sent(d, "me")
  /\ Answered(d, "me", calls[d]["me"].access > clock, 0, FALSE)
  /\ UNCHANGED <<clock, code, account, jar, page, moves>>

\* Mutant: a refresh token is judged by itself, too.
RefreshTakenAlways(d, k) == calls[d][k].refresh

RefreshTaken(d, k) == calls[d][k].refresh /\ account.on

\* refresh: it sets an access token only.  Refusing, it means to delete both
\* cookies, but an HTTPException is answered without them.
ServeRefresh(d, k) ==
  /\ Sent(d, k)
  /\ Answered(d, k, RefreshTaken(d, k),
              IF RefreshTaken(d, k) THEN clock + AccessLife ELSE 0, FALSE)
  /\ UNCHANGED <<clock, code, account, jar, page, moves>>

\* request_code: earlier codes are deleted.
ServeRequest(d) ==
  /\ Sent(d, "request")
  /\ code' = clock + CodeLife
  /\ Answered(d, "request", TRUE, 0, FALSE)
  /\ UNCHANGED <<clock, account, jar, page, moves>>

\* verify: the right code is used up even if it comes too late.  A login takes
\* the refresh tokens of every device again.
ServeVerify(d, right) ==
  LET good == right /\ clock <= code
  IN  /\ Sent(d, "verify") /\ (right => code # 0)
      /\ code' = IF right THEN 0 ELSE code
      /\ account' = IF good THEN [account EXCEPT !.on = TRUE] ELSE account
      /\ Answered(d, "verify", good, IF good THEN clock + AccessLife ELSE 0, good)
      /\ UNCHANGED <<clock, jar, page, moves>>

\* logout: with a refresh token it revokes those of every device.
ServeLogout(d) ==
  /\ Sent(d, "logout")
  /\ account' = IF calls[d]["logout"].refresh /\ account.on
                THEN [on |-> FALSE, since |-> clock] ELSE account
  /\ Answered(d, "logout", TRUE, 0, FALSE)
  /\ UNCHANGED <<clock, code, jar, page, moves>>

-----------------------------------------------------------------------------
(* What the page hears.  A refused call and one that is lost both throw,    *)
(* but the answer of get_me is looked at first.                            *)

Hears(d, k, at) ==
  /\ calls[d][k].at \in at
  /\ UNCHANGED <<clock, code, account, moves>>

Over(d, k) == calls' = [calls EXCEPT ![d][k] = NoCall]

\* kept only serves the property: the tokens this page was given lead to the
\* next refresh, or the one it found does.
Found(d) == [page[d] EXCEPT !.user = TRUE, !.check = "over",
               !.kept = IF page[d].check = "me" THEN jar[d].access >= page[d].due ELSE @]

NobodyThere(d) == [page[d] EXCEPT !.user = FALSE, !.check = "over"]

\* checkSession: who is signed in, by the token there is or by a new one.
HearMe(d) ==
  /\ Hears(d, "me", {"ok", "refused"})
  /\ UNCHANGED jar
  /\ IF calls[d]["me"].at = "refused" /\ page[d].check = "me"
     THEN /\ page' = [page EXCEPT ![d].check = "refresh"]
          /\ calls' = [calls EXCEPT ![d]["me"] = NoCall, ![d]["refresh"] = Call(jar[d])]
     ELSE /\ page' = [page EXCEPT ![d] =
                       IF calls[d]["me"].at = "ok" THEN Found(d) ELSE NobodyThere(d)]
          /\ Over(d, "me")

HearRefresh(d) ==
  LET cookies == [jar[d] EXCEPT !.access = calls[d]["refresh"].access]
  IN  /\ Hears(d, "refresh", {"ok", "refused"})
      /\ IF calls[d]["refresh"].at = "ok"
         THEN /\ jar' = [jar EXCEPT ![d] = cookies]
              /\ page' = [page EXCEPT ![d].check = "again", ![d].kept = TRUE]
              /\ calls' = [calls EXCEPT ![d]["refresh"] = NoCall, ![d]["me"] = Call(cookies)]
         ELSE /\ page' = [page EXCEPT ![d] = NobodyThere(d)]
              /\ UNCHANGED jar /\ Over(d, "refresh")

\* Mutant: only the answer is read and its cookie is not kept.
HearAutoOnly(d) ==
  /\ Hears(d, "auto", {"ok", "refused"})
  /\ page' = [page EXCEPT ![d].kept = calls[d]["auto"].at = "ok"]
  /\ UNCHANGED jar /\ Over(d, "auto")

\* The answer of the timer's refresh; nobody looks at a refusal.
HearAuto(d) ==
  /\ Hears(d, "auto", {"ok", "refused"})
  /\ page' = [page EXCEPT ![d].kept = calls[d]["auto"].at = "ok"]
  /\ jar' = IF calls[d]["auto"].at = "ok"
            THEN [jar EXCEPT ![d].access = calls[d]["auto"].access] ELSE jar
  /\ Over(d, "auto")

\* handleRequestCode after its await.
HearRequest(d) ==
  /\ Hears(d, "request", {"ok"})
  /\ page' = [page EXCEPT ![d].step = "code"]
  /\ UNCHANGED jar /\ Over(d, "request")

\* login, and handleVerify after its await: a refusal leaves the form open.
HearVerify(d) ==
  /\ Hears(d, "verify", {"ok", "refused"})
  /\ IF calls[d]["verify"].at = "ok"
     THEN /\ page' = [page EXCEPT ![d].user = TRUE, ![d].kept = TRUE]
          /\ jar' = [jar EXCEPT ![d] = [access |-> calls[d]["verify"].access, refresh |-> TRUE]]
     ELSE UNCHANGED <<page, jar>>
  /\ Over(d, "verify")

\* logout, and handleLogout after its await.
HearLogout(d) ==
  /\ Hears(d, "logout", {"ok"})
  /\ page' = [page EXCEPT ![d].user = FALSE, ![d].step = "email"]
  /\ jar' = [jar EXCEPT ![d] = NoCookies]
  /\ Over(d, "logout")

\* A call, or its answer with its cookies, is lost.
Lose(d, k) ==
  /\ Hears(d, k, {"sent", "ok", "refused"})
  /\ page' = [page EXCEPT ![d] = IF k \in {"me", "refresh"} THEN NobodyThere(d)
                                 ELSE IF k = "auto" THEN [@ EXCEPT !.kept = FALSE] ELSE @]
  /\ UNCHANGED jar /\ Over(d, k)

-----------------------------------------------------------------------------
(* Time.                                                                   *)

\* Timers are punctual, and no call is out longer than Latency.
Tick ==
  /\ clock < MaxTime /\ clock' = clock + 1
  /\ \A d \in Devices : /\ page[d].check = "shut" \/ page[d].due > clock
                        /\ \A k \in Kinds : Out(d, k) => calls[d][k].by > clock
  /\ UNCHANGED <<code, account, jar, page, calls, moves>>

\* The page's timer, whether somebody is signed in or not.
TimerRefresh(d) ==
  /\ page[d].check # "shut" /\ page[d].due = clock /\ ~Out(d, "auto")
  /\ page' = [page EXCEPT ![d].due = clock + Interval]
  /\ calls' = [calls EXCEPT ![d]["auto"] = Call(jar[d])]
  /\ UNCHANGED <<clock, code, account, jar, moves>>

-----------------------------------------------------------------------------
(* The learner.                                                            *)

Move == moves < MaxMoves /\ moves' = moves + 1 /\ UNCHANGED <<clock, code, account, jar>>

Shut == [user |-> FALSE, check |-> "shut", step |-> "email", due |-> 0, kept |-> FALSE]

Opened == [Shut EXCEPT !.check = "me", !.due = clock + Interval]

Asking(cookies) == [k \in Kinds |-> IF k = "me" THEN Call(cookies) ELSE NoCall]

\* The page is opened anew: it asks who is signed in, and its timer starts.
\* Answers to the page before are not taken.
Open(d) ==
  /\ Move
  /\ page' = [page EXCEPT ![d] = Opened]
  /\ calls' = [calls EXCEPT ![d] = Asking(jar[d])]

\* The login page is shown; its button waits for the call before.
AtLogin(d) == page[d].check = "over" /\ ~page[d].user
Idle(d) == ~Out(d, "request") /\ ~Out(d, "verify")

Submits(d, k, step) ==
  /\ AtLogin(d) /\ Idle(d) /\ page[d].step = step /\ Move
  /\ calls' = [calls EXCEPT ![d][k] = Call(jar[d])]
  /\ UNCHANGED page

RequestCode(d) == Submits(d, "request", "email")
Verify(d) == Submits(d, "verify", "code")

ChangeEmail(d) ==
  /\ AtLogin(d) /\ page[d].step = "code" /\ Move
  /\ page' = [page EXCEPT ![d].step = "email"]
  /\ UNCHANGED calls

Logout(d) ==
  /\ page[d].user /\ ~Out(d, "logout") /\ Move
  /\ calls' = [calls EXCEPT ![d]["logout"] = Call(jar[d])]
  /\ UNCHANGED page

-----------------------------------------------------------------------------
\* No page is open, on devices that were used some time ago or never: refresh
\* tokens may be left, revoked or not, and no access token is.
Init ==
  /\ clock = AccessLife /\ code = 0 /\ moves = 0
  /\ account \in [on : BOOLEAN, since : {0}]
  /\ jar \in [Devices -> [access : {0}, refresh : BOOLEAN]]
  /\ page = [d \in Devices |-> Shut]
  /\ calls = [d \in Devices |-> [k \in Kinds |-> NoCall]]

Serves(d) ==
  \/ ServeMe(d) \/ ServeRequest(d) \/ ServeLogout(d)
  \/ \E k \in {"refresh", "auto"} : ServeRefresh(d, k)
  \/ \E right \in BOOLEAN : ServeVerify(d, right)

HearsAny(d) ==
  \/ HearMe(d) \/ HearRefresh(d) \/ HearAuto(d)
  \/ HearRequest(d) \/ HearVerify(d) \/ HearLogout(d)
  \/ \E k \in Kinds : Lose(d, k)

Uses(d) == Open(d) \/ RequestCode(d) \/ Verify(d) \/ ChangeEmail(d) \/ Logout(d)

Next ==
  \/ Tick
  \/ \E d \in Devices : Serves(d) \/ HearsAny(d) \/ TimerRefresh(d) \/ Uses(d)

Spec == Init /\ [][Next]_vars

-----------------------------------------------------------------------------
(* Properties.                                                             *)

TypeOK ==
  /\ {clock, code, moves, account.since} \subseteq Nat
  /\ account \in [on : BOOLEAN, since : Nat]
  /\ jar \in [Devices -> [access : Nat, refresh : BOOLEAN]]
  /\ page \in [Devices -> [user : BOOLEAN, check : {"shut", "me", "refresh", "again", "over"},
                           step : {"email", "code"}, due : Nat, kept : BOOLEAN]]
  /\ calls \in [Devices -> [Kinds -> [at : {"none", "sent", "ok", "refused"}, by : Nat,
                                      access : Nat, refresh : BOOLEAN]]]

\* A page that shows a user has a token that is good until its next refresh,
\* unless its last refresh failed, or it was opened with a token that ends
\* before the first one: the timer counts from the opening of the page and not
\* from the token.  (setInterval and checkSession of AuthContext)
KeptAuthorised ==
  \A d \in Devices :
    page[d].user /\ page[d].kept /\ ~Out(d, "auto") /\ page[d].due > clock
      => jar[d].access > clock

\* Once an access token's life has passed since a logout, no token that any
\* device holds or is being sent is good, until somebody signs in again: no
\* refresh, login or late answer of the time before brings one back.
\* (logout and refresh of routes/auth.py)
NobodyAfterLogout ==
  ~account.on /\ clock >= account.since + AccessLife =>
    \A d \in Devices :
      jar[d].access <= clock /\ \A k \in Kinds : calls[d][k].access <= clock
================================================================================
