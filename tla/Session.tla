------------------------------ MODULE Session ------------------------------
(***************************************************************************)
(* The login session of one browser: its cookies, the BFF that carries     *)
(* their tokens to the backend and renews them when the access token has   *)
(* expired (proxyToBackend), and the backend's rotation of refresh tokens, *)
(* for calls that are under way at the same time.                          *)
(*                                                                         *)
(* Access and refresh token are issued, set and cleared together: a pair   *)
(* is a number, and 0 is no cookies.  The member of staff stays active and *)
(* unlocked, a refresh token is used within its 12 hours, and a login that *)
(* is refused is left out: it changes no token and no cookie.              *)
(***************************************************************************)
EXTENDS Integers, FiniteSets

CONSTANTS Call,         \* the HTTP calls of the browser
          Kinds,        \* what they may be: api, logout, login
          MayBreak,     \* whether timeouts, errors and lost answers occur
          MaxPairs      \* bound: token pairs issued

ASSUME KindAssumption == Kinds \subseteq {"api", "logout", "login"}

ASSUME BoundAssumption == MayBreak \in BOOLEAN /\ MaxPairs \in Nat \ {0}

Pair == 1 .. MaxPairs

NoCookies == 0

Keep == -1      \* a response without Set-Cookie

VARIABLES jar,          \* the pair in the browser's cookies
          issued,       \* how many pairs were issued
          expired,      \* the pairs whose access token has expired
          revokedBy,    \* the calls that revoked the refresh token of a pair
          call,         \* what became of each call
          page,         \* the page on the screen
          lapsed,       \* the cookies have expired on the register page
          failed        \* calls that failed, or were not answered in time or at all

vars == <<jar, issued, expired, revokedBy, call, page, lapsed, failed>>

where == <<page, lapsed>>

Unsent == [kind |-> "api", at |-> "none", bff |-> "idle", pair |-> NoCookies,
           got |-> NoCookies, times |-> 0, status |-> "none", cookies |-> Keep]

(* Somebody has just logged in and sees the register.                      *)
Init ==
  /\ jar = 1
  /\ issued = 1
  /\ expired = {}
  /\ revokedBy = [p \in Pair |-> {}]
  /\ call = [c \in Call |-> Unsent]
  /\ page = "register"
  /\ lapsed = FALSE
  /\ failed = {}

-----------------------------------------------------------------------------
(* What the BFF answers while the browser waits; a logout always clears.   *)
Replied(r, status, cookies) ==
  IF r.bff # "waiting" THEN r
  ELSE [r EXCEPT !.bff = "replied", !.status = status,
                 !.cookies = IF r.kind = "logout" THEN NoCookies ELSE cookies]

(* The backend is done with what it was asked; the BFF replies.            *)
Finish(c, r, status, cookies) ==
  call' = [call EXCEPT ![c] = Replied([r EXCEPT !.at = "none"], status, cookies)]

(* The next step of the BFF, unless it has given up.                       *)
Then(c, label) ==
  call' = [call EXCEPT ![c].at = IF call[c].bff = "waiting" THEN label ELSE "none"]

Executed(c) == [call[c] EXCEPT !.times = @ + 1]

Revoke(p, c) ==
  revokedBy' = IF p = NoCookies THEN revokedBy
                                ELSE [revokedBy EXCEPT ![p] = @ \cup {c}]

(* LoginForm sends logins, the register everything else; the browser adds  *)
(* its cookies.                                                            *)
Send(c, kind) ==
  /\ call[c].bff = "idle"
  /\ page = IF kind = "login" THEN "login" ELSE "register"
  /\ LET r == [call[c] EXCEPT !.kind = kind, !.bff = "waiting", !.pair = jar]
     IN  IF kind = "logout" /\ jar = NoCookies
           THEN Finish(c, r, "ok", NoCookies)
           ELSE call' = [call EXCEPT ![c] =
                          [r EXCEPT !.at = IF kind = "login" THEN "issue" ELSE "auth"]]
  /\ UNCHANGED <<jar, issued, expired, revokedBy, where, failed>>

(* The work itself; for a logout, the refresh token in its body, which is  *)
(* the one the browser sent, also when it was exchanged meanwhile.         *)
Execute(c, cookies) ==
  /\ Finish(c, Executed(c), "ok", cookies)
  /\ IF call[c].kind = "logout" THEN Revoke(call[c].pair, c) ELSE UNCHANGED revokedBy

(* get_current_staff_id, and the service behind it.                        *)
Authorise(c) ==
  /\ call[c].at = "auth"
  /\ \/ /\ call[c].pair = NoCookies
        /\ Finish(c, call[c], "TOKEN_INVALID", Keep)
        /\ UNCHANGED revokedBy
     \/ /\ call[c].pair \in expired
        /\ Then(c, "find")
        /\ UNCHANGED revokedBy
     \/ /\ call[c].pair \in Pair \ expired
        /\ Execute(c, Keep)
  /\ UNCHANGED <<jar, issued, expired, where, failed>>

(* AuthService.refresh: a read and two commits.                            *)
FindToken(c) ==
  /\ call[c].at = "find"
  /\ IF revokedBy[call[c].pair] # {}
       THEN Finish(c, call[c], "TOKEN_INVALID", NoCookies)
       ELSE call' = [call EXCEPT ![c].at = "revoke"]
  /\ UNCHANGED <<jar, issued, expired, revokedBy, where, failed>>

RevokeToken(c) ==
  /\ call[c].at = "revoke"
  /\ Revoke(call[c].pair, c)
  /\ call' = [call EXCEPT ![c].at = "issue"]
  /\ UNCHANGED <<jar, issued, expired, where, failed>>

(* _issue_tokens, after a refresh or a login.                              *)
IssueTokens(c) ==
  /\ call[c].at = "issue"
  /\ issued < MaxPairs
  /\ issued' = issued + 1
  /\ IF call[c].kind = "login"
       THEN Finish(c, [Executed(c) EXCEPT !.got = issued'], "ok", issued')
       ELSE IF call[c].bff = "waiting"
         THEN call' = [call EXCEPT ![c].at = "resend", ![c].got = issued']
         ELSE call' = [call EXCEPT ![c].at = "none"]
  /\ UNCHANGED <<jar, expired, revokedBy, where, failed>>

\* mutant: the resend carries the token of the request again
Resend_OldToken(c) ==
  /\ call[c].at = "resend"
  /\ IF call[c].pair \in expired
       THEN Finish(c, call[c], "TOKEN_EXPIRED", call[c].got) /\ UNCHANGED revokedBy
       ELSE Execute(c, call[c].got)
  /\ UNCHANGED <<jar, issued, expired, where, failed>>

\* mutant: the answer to the resend is relayed without the new cookies
Resend_KeepsCookies(c) ==
  /\ call[c].at = "resend"
  /\ Execute(c, Keep)
  /\ UNCHANGED <<jar, issued, expired, where, failed>>

(* Once, with the new access token; its answer takes the cookies along.    *)
Resend(c) ==
  /\ call[c].at = "resend"
  /\ Execute(c, call[c].got)
  /\ UNCHANGED <<jar, issued, expired, where, failed>>

-----------------------------------------------------------------------------
\* mutant: nothing is answered when the backend fails
BackendFails_NoAnswer(c) ==
  /\ MayBreak
  /\ call[c].at # "none"
  /\ call' = [call EXCEPT ![c].at = "none"]
  /\ failed' = failed \cup {c}
  /\ UNCHANGED <<jar, issued, expired, revokedBy, where>>

(* A 500 of the backend.  For a refresh, refreshTokens makes no difference *)
(* between errors; what was committed before stays.                        *)
BackendFails(c) ==
  /\ MayBreak
  /\ call[c].at # "none"
  /\ LET r == call[c]
     IN  CASE r.kind = "login" \/ r.at = "auth" -> Finish(c, r, "INTERNAL_ERROR", Keep)
           [] r.at = "resend" -> Finish(c, r, "INTERNAL_ERROR", r.got)
           [] OTHER           -> Finish(c, r, "TOKEN_INVALID", NoCookies)
  /\ failed' = failed \cup {c}
  /\ UNCHANGED <<jar, issued, expired, revokedBy, where>>

\* mutant: a call that was not answered in time is sent again, and both arrive
GiveUp_SendsAgain(c) ==
  /\ MayBreak
  /\ call[c].at \in {"auth", "resend"}
  /\ call[c].bff = "waiting"
  /\ call' = [call EXCEPT ![c] = IF call[c].kind = "api" THEN Executed(c) ELSE @]
  /\ failed' = failed \cup {c}
  /\ UNCHANGED <<jar, issued, expired, revokedBy, where>>

(* callBackend is aborted after 15 s, at any of its uses: the browser gets *)
(* a 500 without the cookies, and the backend carries on.                  *)
GiveUp(c) ==
  /\ MayBreak
  /\ call[c].at # "none"
  /\ call[c].bff = "waiting"
  /\ call' = [call EXCEPT ![c] = Replied(call[c], "INTERNAL_ERROR", Keep)]
  /\ failed' = failed \cup {c}
  /\ UNCHANGED <<jar, issued, expired, revokedBy, where>>

JarAfter(c) == IF call[c].cookies = Keep THEN jar ELSE call[c].cookies

Refused(c) == call[c].status \in {"TOKEN_INVALID", "TOKEN_EXPIRED"}

\* mutant: a 401 is a notice like other errors
PageAfter_Notice(c) ==
  CASE call[c].kind = "logout" -> "login"
    [] call[c].kind = "login" /\ call[c].status = "ok" -> "register"
    [] OTHER -> page

(* handleFailure, onLogout, and onSubmit after its await.                  *)
PageAfter(c) ==
  CASE call[c].kind = "logout" \/ Refused(c) -> "login"
    [] call[c].kind = "login" /\ call[c].status = "ok" -> "register"
    [] OTHER -> page

(* Responses reach the browser in any order, and their handlers run also   *)
(* when the page that sent the call has been left by a link.               *)
Deliver(c) ==
  /\ call[c].bff = "replied"
  /\ call' = [call EXCEPT ![c].bff = "delivered"]
  /\ jar' = JarAfter(c)
  /\ page' = PageAfter(c)
  /\ lapsed' = (lapsed /\ jar' = NoCookies /\ page' = "register")
  /\ UNCHANGED <<issued, expired, revokedBy, failed>>

Lose(c) ==
  /\ MayBreak
  /\ call[c].bff = "replied"
  /\ call' = [call EXCEPT ![c].bff = "lost"]
  /\ page' = IF call[c].kind = "logout" THEN "login" ELSE page
  /\ lapsed' = (lapsed /\ page' = "register")
  /\ failed' = failed \cup {c}
  /\ UNCHANGED <<jar, issued, expired, revokedBy>>

(* The register is opened or loaded again: proxy lets it pass with cookies *)
(* only, and what the old page waits for never arrives.                    *)
Open ==
  LET dropped == {c \in Call : call[c].bff \in {"waiting", "replied"}}
  IN  /\ call' = [c \in Call |-> IF c \in dropped THEN [call[c] EXCEPT !.bff = "lost"]
                                                  ELSE call[c]]
      /\ failed' = failed \cup dropped
      /\ page' = IF jar = NoCookies THEN "login" ELSE "register"
      /\ lapsed' = FALSE
      /\ UNCHANGED <<jar, issued, expired, revokedBy>>

(* An hour passes; it shows when the cookies are sent, or were just before.*)
Expire(p) ==
  /\ p \in ({jar} \cup {call[c].pair : c \in Call}) \ (expired \cup {NoCookies})
  /\ expired' = expired \cup {p}
  /\ UNCHANGED <<jar, issued, revokedBy, call, where, failed>>

(* The Max-Age of the cookies ends while the register stays open.           *)
CookiesLapse ==
  /\ page = "register"
  /\ jar # NoCookies
  /\ jar' = NoCookies
  /\ lapsed' = TRUE
  /\ UNCHANGED <<issued, expired, revokedBy, call, page, failed>>

Next ==
  \/ \E c \in Call :
       \/ \E kind \in Kinds : Send(c, kind)
       \/ Authorise(c) \/ FindToken(c) \/ RevokeToken(c) \/ IssueTokens(c) \/ Resend(c)
       \/ BackendFails(c) \/ GiveUp(c) \/ Deliver(c) \/ Lose(c)
  \/ \E p \in Pair : Expire(p)
  \/ Open \/ CookiesLapse

Spec == Init /\ [][Next]_vars

-----------------------------------------------------------------------------
Over(c) == call[c].bff \in {"delivered", "lost"} /\ call[c].at = "none"

(* Types; only issued pairs are in cookies, expire or are revoked, and the *)
(* BFF replies with nothing but an old answer once the backend is done.    *)
TypeOK ==
  /\ issued \in Pair
  /\ jar \in 0 .. issued
  /\ expired \subseteq 1 .. issued
  /\ revokedBy \in [Pair -> SUBSET Call]
  /\ \A p \in Pair : revokedBy[p] # {} => p =< issued
  /\ page \in {"register", "login"}
  /\ lapsed \in BOOLEAN
  /\ failed \subseteq Call
  /\ \A c \in Call :
       /\ call[c].at \in {"none", "auth", "find", "revoke", "issue", "resend"}
       /\ call[c].bff \in {"idle", "waiting", "replied", "delivered", "lost"}
       /\ call[c].bff = "waiting" => call[c].at # "none"
       /\ call[c].pair \in 0 .. issued
       /\ call[c].got \in 0 .. issued
       /\ call[c].cookies \in Keep .. issued

(* However a call ends, what it asks for is done once at most: the resend  *)
(* follows only a refusal, never a timeout or an error.                    *)
ExecutedOnce == \A c \in Call : call[c].times =< 1

(* IT-05: renewals go unnoticed.  A logged-in browser is refused only      *)
(* because the refresh token it sent was used up by another of its calls,  *)
(* or because this very call failed.  The other call need not be under way *)
(* any more: after one that used up the token and then failed, the cookies *)
(* still name it, and the next call is refused although it races nobody.   *)
RefusedOnlyWhenUsedUp ==
  \A c \in Call : Refused(c) /\ call[c].pair # NoCookies =>
                    c \in failed \/ revokedBy[call[c].pair] \ {c} # {}

(* When nothing is under way, the cookies are gone or can still be         *)
(* renewed, whatever the order the answers came in; unless every call that *)
(* used them up failed after it had, so that the new ones are lost.        *)
CookiesCanBeRenewed ==
  (\A c \in Call : call[c].bff = "idle" \/ Over(c)) /\ jar # NoCookies =>
    revokedBy[jar] \subseteq failed

(* NFR-SEC-01: nobody sees the register without cookies, not even by an    *)
(* answer that comes late, but for cookies that expire under the open page.*)
RegisterNeedsCookies == page = "register" /\ jar = NoCookies => lapsed
=============================================================================
