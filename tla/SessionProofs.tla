--------------------------- MODULE SessionProofs ---------------------------
(***************************************************************************)
(* What a session promises, for any number of calls and token pairs.       *)
(*                                                                         *)
(* The inductive invariant follows a pair from its issue to the cookies:   *)
(* as long as an answer that carries it is pending nobody else knows it,   *)
(* so it is not used up before it arrives; and who used up a pair brings   *)
(* other cookies, unless its call fails.                                   *)
(***************************************************************************)
EXTENDS Session, TLAPS

At == {"none", "auth", "find", "revoke", "issue", "resend"}

Bff == {"idle", "waiting", "replied", "delivered", "lost"}

Status == {"none", "ok", "TOKEN_INVALID", "INTERNAL_ERROR"}

Record == [kind : {"api", "logout", "login"}, at : At, bff : Bff, pair : 0 .. MaxPairs,
           got : 0 .. MaxPairs, times : Nat, status : Status, cookies : Keep .. MaxPairs]

Types ==
  /\ issued \in Pair
  /\ jar \in 0 .. issued
  /\ expired \subseteq 1 .. issued
  /\ revokedBy \in [Pair -> SUBSET Call]
  /\ page \in {"register", "login"}
  /\ lapsed \in BOOLEAN
  /\ failed \subseteq Call
  /\ call \in [Call -> Record]

(* What the place of a call in the backend and in the BFF says of it.      *)
BackendOK(c) ==
  /\ call[c].pair =< issued /\ call[c].got =< issued
  /\ call[c].at # "none" => call[c].times = 0 /\ call[c].bff # "idle"
  /\ call[c].at # "none" /\ call[c].bff # "waiting" => c \in failed
  /\ call[c].at \in {"auth", "find", "revoke", "resend"} => call[c].kind # "login"
  /\ call[c].at \in {"find", "revoke"} => call[c].pair # NoCookies
  /\ call[c].at \in {"auth", "find", "revoke", "issue"} => call[c].got = NoCookies
  /\ call[c].at = "resend" => call[c].got # NoCookies
  /\ call[c].times =< 1

AnswerOK(c) ==
  /\ call[c].bff = "idle" =>
       /\ call[c].at = "none" /\ call[c].times = 0 /\ call[c].got = NoCookies
       /\ call[c].status = "none" /\ call[c].cookies = Keep
  /\ call[c].bff = "waiting" =>
       call[c].at # "none" /\ call[c].status = "none" /\ call[c].cookies = Keep
  /\ call[c].bff = "lost" => c \in failed
  /\ call[c].cookies \in {Keep, NoCookies, call[c].got}
  /\ call[c].bff = "replied" =>
       /\ call[c].cookies = NoCookies => call[c].kind = "logout" \/ Refused(c)
       /\ call[c].kind = "login" /\ call[c].status = "ok" =>
            call[c].cookies \notin {Keep, NoCookies}

(* Who used up a pair had sent it, and brings other cookies.               *)
RevokerOK(c) ==
  \A p \in Pair : c \in revokedBy[p] =>
    /\ p = call[c].pair
    /\ call[c].at \notin {"auth", "find", "revoke"}
    /\ call[c].bff # "idle"
    /\ call[c].bff = "replied" /\ c \notin failed => call[c].cookies # Keep
    /\ call[c].bff = "delivered" /\ c \notin failed => jar # p

Pending(c) == call[c].bff \in {"waiting", "replied"} /\ call[c].got # NoCookies

(* Nobody knows a pair before the answer that carries it.                  *)
PendingOK(c) ==
  Pending(c) =>
    /\ call[c].got # jar
    /\ \A d \in Call : /\ call[d].pair # call[c].got
                       /\ Pending(d) /\ d # c => call[d].got # call[c].got

RefusedOK(c) ==
  Refused(c) /\ call[c].pair # NoCookies =>
    c \in failed \/ revokedBy[call[c].pair] \ {c} # {}

CallOK(c) == BackendOK(c) /\ AnswerOK(c) /\ RevokerOK(c) /\ PendingOK(c) /\ RefusedOK(c)

IInv == Types /\ RegisterNeedsCookies /\ \A c \in Call : CallOK(c)


USE KindAssumption, BoundAssumption DEF Pair, NoCookies, Keep

-----------------------------------------------------------------------------
LEMMA InitInv == Init => IInv
<1> SUFFICES ASSUME Init PROVE IInv
  OBVIOUS
<1>1. Unsent \in Record
  BY DEF Unsent, Record, At, Bff, Status
<1>2. Types
  <2>1. call \in [Call -> Record]
    BY <1>1 DEF Init
  <2>2. revokedBy \in [Pair -> SUBSET Call]
    BY DEF Init
  <2>3. issued \in Pair /\ jar \in 0 .. issued /\ expired \subseteq 1 .. issued
    BY DEF Init
  <2>4. page \in {"register", "login"} /\ lapsed \in BOOLEAN /\ failed \subseteq Call
    BY DEF Init
  <2>5. QED
    BY <2>1, <2>2, <2>3, <2>4 DEF Types
<1>3. ASSUME NEW c \in Call PROVE CallOK(c)
  <2>1. call[c] = Unsent /\ \A p \in Pair : revokedBy[p] = {}
    BY DEF Init
  <2>2. QED
    BY <2>1 DEF Init, Unsent, CallOK, BackendOK, AnswerOK, RevokerOK, PendingOK, Pending,
                RefusedOK, Refused
<1>4. RegisterNeedsCookies
  BY DEF Init, RegisterNeedsCookies
<1>5. QED
  BY <1>2, <1>3, <1>4 DEF IInv

(* What the backend's last answer makes of a call.                         *)
LEMMA Finished ==
  ASSUME Types, NEW c \in Call, NEW r \in Record, NEW status \in Status,
         NEW cookies \in Keep .. MaxPairs, Finish(c, r, status, cookies)
  PROVE  /\ call' \in [Call -> Record]
         /\ \A d \in Call \ {c} : call'[d] = call[d]
         /\ call'[c].at = "none" /\ call'[c].kind = r.kind /\ call'[c].pair = r.pair
         /\ call'[c].got = r.got /\ call'[c].times = r.times
         /\ r.bff # "waiting" => /\ call'[c].bff = r.bff
                                 /\ call'[c].status = r.status
                                 /\ call'[c].cookies = r.cookies
         /\ r.bff = "waiting" =>
              /\ call'[c].bff = "replied"
              /\ call'[c].status = status
              /\ call'[c].cookies = IF r.kind = "logout" THEN NoCookies ELSE cookies
<1> DEFINE s == [r EXCEPT !.at = "none"]
<1> DEFINE k == IF r.kind = "logout" THEN NoCookies ELSE cookies
<1>1. /\ s \in Record /\ s.at = "none" /\ s.kind = r.kind /\ s.pair = r.pair /\ s.got = r.got
      /\ s.times = r.times /\ s.bff = r.bff /\ s.status = r.status /\ s.cookies = r.cookies
  BY DEF Record, At
<1>2. call' = [call EXCEPT ![c] = Replied(s, status, cookies)]
  BY DEF Finish
<1> HIDE DEF s
<1>3. CASE r.bff # "waiting"
  <2>1. call' = [call EXCEPT ![c] = s]
    BY <1>1, <1>2, <1>3 DEF Replied
  <2>2. QED
    BY <1>1, <1>3, <2>1 DEF Types
<1>4. CASE r.bff = "waiting"
  <2>1. call' = [call EXCEPT ![c] = [s EXCEPT !.bff = "replied", !.status = status,
                                              !.cookies = k]]
    BY <1>1, <1>2, <1>4 DEF Replied
  <2>2. k \in -1 .. MaxPairs
    OBVIOUS
  <2> HIDE DEF k
  <2> DEFINE u == [s EXCEPT !.bff = "replied", !.status = status, !.cookies = k]
  <2>3. /\ u \in Record /\ u.at = s.at /\ u.kind = s.kind /\ u.pair = s.pair
        /\ u.got = s.got /\ u.times = s.times
        /\ u.bff = "replied" /\ u.status = status /\ u.cookies = k
    BY <1>1, <2>2 DEF Record, Bff
  <2> HIDE DEF u
  <2>4. call' = [call EXCEPT ![c] = u]
    BY <2>1 DEF u
  <2>5. QED
    BY <1>1, <1>4, <2>3, <2>4 DEF Types, k
<1>5. QED
  BY <1>3, <1>4

(* What a step of one call in the backend or the BFF must leave alone, and *)
(* what it must see to for its own call.                                   *)
LEMMA OneCall ==
  ASSUME IInv, NEW c \in Call, Types',
         UNCHANGED <<jar, page, lapsed>>, issued =< issued', failed \subseteq failed',
         \A d \in Call \ {c} : call'[d] = call[d],
         \A p \in Pair : \/ revokedBy'[p] = revokedBy[p]
                         \/ revokedBy'[p] = revokedBy[p] \cup {c},
         \/ call'[c].pair = call[c].pair
         \/ call'[c].pair = jar,
         \/ call'[c].got = call[c].got /\ (Pending(c)' => Pending(c))
         \/ call'[c].got > issued /\ call'[c].pair = call[c].pair
         \/ call'[c].got = NoCookies,
         BackendOK(c)', AnswerOK(c)', RevokerOK(c)', RefusedOK(c)'
  PROVE  IInv'
<1>0. \A d \in Call : /\ call[d].pair =< issued /\ call[d].got =< issued
                      /\ call[d].pair \in Nat /\ call[d].got \in Nat
                      /\ call'[d].pair \in Nat /\ call'[d].got \in Nat
  BY DEF IInv, CallOK, BackendOK, Types, Record
<1>1. issued \in Nat /\ issued' \in Nat /\ jar \in Nat /\ jar =< issued
  BY DEF IInv, Types
<1>2. ASSUME NEW d \in Call \ {c} PROVE BackendOK(d)' /\ AnswerOK(d)' /\ RefusedOK(d)'
  <2>1. CallOK(d) /\ call[d].pair \in 0 .. MaxPairs
    BY DEF IInv, Types, Record
  <2>2. BackendOK(d)'
    BY <1>0, <1>1, <2>1 DEF CallOK, BackendOK
  <2>3. AnswerOK(d)'
    BY <2>1 DEF CallOK, AnswerOK, Refused
  <2>4. RefusedOK(d)'
    BY <2>1 DEF CallOK, RefusedOK, Refused
  <2>5. QED
    BY <2>2, <2>3, <2>4
<1>3. ASSUME NEW d \in Call \ {c} PROVE RevokerOK(d)'
  <2>1. RevokerOK(d)
    BY DEF IInv, CallOK
  <2>2. \A p \in Pair : d \in revokedBy'[p] => d \in revokedBy[p]
    OBVIOUS
  <2>3. QED
    BY <2>1, <2>2 DEF RevokerOK
<1>4. \A d \in Call : PendingOK(d)
  BY DEF IInv, CallOK
<1>5. ASSUME NEW d \in Call, Pending(d)', NEW e \in Call
      PROVE  /\ call'[d].got # jar'
             /\ call'[e].pair # call'[d].got
             /\ Pending(e)' /\ e # d => call'[e].got # call'[d].got
  <2>1. call'[d].got # 0
    BY <1>5 DEF Pending
  <2>2. CASE d # c
    <3>1. Pending(d) /\ call'[d] = call[d]
      BY <1>5, <2>2 DEF Pending
    <3>2. QED
      BY <1>0, <1>1, <1>4, <2>2, <3>1 DEF PendingOK, Pending
  <2>3. CASE d = c /\ call'[c].got = call[c].got /\ Pending(c)
    BY <1>0, <1>1, <1>4, <2>3 DEF PendingOK, Pending
  <2>4. CASE d = c /\ call'[c].got > issued /\ call'[c].pair = call[c].pair
    BY <1>0, <1>1, <2>4
  <2>5. QED
    BY <1>5, <2>1, <2>2, <2>3, <2>4
<1>6. \A d \in Call : PendingOK(d)'
  BY <1>5 DEF PendingOK
<1>7. RegisterNeedsCookies'
  BY DEF IInv, RegisterNeedsCookies
<1>8. QED
  BY <1>2, <1>3, <1>6, <1>7 DEF IInv, CallOK

LEMMA ExecutedOK ==
  ASSUME Types, NEW c \in Call
  PROVE  /\ Executed(c) \in Record
         /\ Executed(c).at = call[c].at /\ Executed(c).kind = call[c].kind
         /\ Executed(c).pair = call[c].pair /\ Executed(c).got = call[c].got
         /\ Executed(c).times = call[c].times + 1 /\ Executed(c).bff = call[c].bff
         /\ Executed(c).status = call[c].status /\ Executed(c).cookies = call[c].cookies
<1>1. call[c] \in Record /\ call[c].times + 1 \in Nat
  BY DEF Types, Record
<1>2. Executed(c) = [call[c] EXCEPT !.times = call[c].times + 1]
  BY DEF Executed
<1>3. QED
  BY <1>1, <1>2 DEF Record

(* What is known of a call before its step.                                *)
LEMMA Before ==
  ASSUME IInv, NEW c \in Call
  PROVE  /\ call[c] \in Record /\ BackendOK(c) /\ AnswerOK(c) /\ RevokerOK(c) /\ RefusedOK(c)
         /\ call[c].pair \in Nat /\ call[c].got \in Nat /\ call[c].times \in Nat
         /\ Types /\ issued \in Nat /\ jar \in Nat /\ jar =< issued
BY DEF IInv, Types, CallOK, Record

(* A call that is done with the backend: what it was refused, used up or   *)
(* brought must fit its answer.                                            *)
LEMMA FinishInv ==
  ASSUME IInv, NEW c \in Call, NEW r \in Record, NEW status \in Status,
         NEW cookies \in Keep .. MaxPairs,
         Finish(c, r, status, cookies), call[c].at # "none",
         UNCHANGED <<jar, issued, expired, page, lapsed>>,
         failed' \in SUBSET Call, failed \subseteq failed',
         r.kind = call[c].kind, r.pair = call[c].pair, r.got = call[c].got,
         r.bff = call[c].bff, r.status = call[c].status, r.cookies = call[c].cookies,
         r.times =< 1,
         cookies \in {Keep, NoCookies, call[c].got},
         cookies = NoCookies => status = "TOKEN_INVALID",
         r.kind = "login" => status # "ok",
         status = "TOKEN_INVALID" /\ call[c].pair # NoCookies =>
           c \in failed' \/ revokedBy'[call[c].pair] \ {c} # {},
         \/ UNCHANGED revokedBy
         \/ call[c].kind = "logout" /\ Revoke(call[c].pair, c),
         \/ c \in failed'
         \/ cookies # Keep
         \/ call[c].kind = "logout"
         \/ \A p \in Pair : c \notin revokedBy[p]
  PROVE  IInv'
<1>1. /\ call[c] \in Record /\ BackendOK(c) /\ AnswerOK(c) /\ RevokerOK(c) /\ RefusedOK(c)
      /\ call[c].pair \in Nat /\ call[c].got \in Nat /\ Types
  BY Before
<1>2. /\ call' \in [Call -> Record]
      /\ \A d \in Call \ {c} : call'[d] = call[d]
      /\ call'[c].at = "none" /\ call'[c].kind = call[c].kind /\ call'[c].pair = call[c].pair
      /\ call'[c].got = call[c].got /\ call'[c].times = r.times
      /\ call[c].bff # "waiting" => /\ call'[c].bff = call[c].bff
                                    /\ call'[c].status = call[c].status
                                    /\ call'[c].cookies = call[c].cookies
      /\ call[c].bff = "waiting" =>
           /\ call'[c].bff = "replied"
           /\ call'[c].status = status
           /\ call'[c].cookies = IF call[c].kind = "logout" THEN NoCookies ELSE cookies
  BY <1>1, Finished
<1>3. /\ revokedBy' \in [Pair -> SUBSET Call]
      /\ \A p \in Pair : /\ revokedBy[p] \subseteq revokedBy'[p]
                         /\ \/ revokedBy'[p] = revokedBy[p]
                            \/ /\ revokedBy'[p] = revokedBy[p] \cup {c}
                               /\ p = call[c].pair /\ call[c].kind = "logout"
  BY <1>1 DEF Types, Revoke
<1>4. Types'
  BY <1>1, <1>2, <1>3 DEF Types
<1>5. call[c].bff # "idle"
  BY <1>1 DEF BackendOK
<1>6. BackendOK(c)'
  BY <1>1, <1>2 DEF BackendOK
<1>7. AnswerOK(c)'
  <2>1. CASE call[c].bff = "waiting"
    BY <1>2, <2>1 DEF AnswerOK, Refused
  <2>2. CASE call[c].bff # "waiting"
    BY <1>1, <1>2, <1>5, <2>2 DEF AnswerOK, Refused
  <2>3. QED
    BY <2>1, <2>2
<1>8. RevokerOK(c)'
  <2> SUFFICES ASSUME NEW p \in Pair, c \in revokedBy'[p]
               PROVE  /\ p = call'[c].pair
                      /\ call'[c].at \notin {"auth", "find", "revoke"}
                      /\ call'[c].bff # "idle"
                      /\ call'[c].bff = "replied" /\ c \notin failed' => call'[c].cookies # Keep
                      /\ call'[c].bff = "delivered" /\ c \notin failed' => jar' # p
    BY DEF RevokerOK
  <2>1. p = call'[c].pair
    BY <1>1, <1>2, <1>3 DEF RevokerOK
  <2>2. call'[c].bff # "idle"
    BY <1>2, <1>5
  <2>3. call[c].bff # "waiting" => c \in failed'
    BY <1>1 DEF BackendOK
  <2>4. call[c].bff = "waiting" /\ c \notin failed' => call'[c].cookies # Keep
    BY <1>2, <1>3
  <2>5. call[c].bff = "waiting" => call'[c].bff # "delivered"
    BY <1>2
  <2>6. QED
    BY <1>2, <2>1, <2>2, <2>3, <2>4, <2>5
<1>9. RefusedOK(c)'
  <2>1. CASE call[c].bff = "waiting"
    BY <1>2, <2>1 DEF RefusedOK, Refused, Status
  <2>2. CASE call[c].bff # "waiting"
    BY <1>1, <2>2 DEF RefusedOK, BackendOK
  <2>3. QED
    BY <2>1, <2>2
<1>10. Pending(c)' => Pending(c)
  BY <1>2 DEF Pending
<1>11. QED
  BY <1>2, <1>3, <1>4, <1>6, <1>7, <1>8, <1>9, <1>10, OneCall, Before

-----------------------------------------------------------------------------
(* The steps of a call in the backend.                                     *)
LEMMA ExecuteInv ==
  ASSUME IInv, NEW c \in Call, NEW cookies \in Keep .. MaxPairs, Execute(c, cookies),
         \/ call[c].at = "auth" /\ cookies = Keep
         \/ call[c].at = "resend" /\ cookies = call[c].got,
         UNCHANGED <<jar, issued, expired, where, failed>>
  PROVE  IInv'
<1>1. /\ BackendOK(c) /\ RevokerOK(c) /\ Types /\ call[c].times = 0 /\ call[c].got \in Nat
  BY Before DEF BackendOK
<1>2. /\ Executed(c) \in Record /\ Executed(c).kind = call[c].kind
      /\ Executed(c).pair = call[c].pair /\ Executed(c).got = call[c].got
      /\ Executed(c).times = 1 /\ Executed(c).bff = call[c].bff
      /\ Executed(c).status = call[c].status /\ Executed(c).cookies = call[c].cookies
  BY <1>1, ExecutedOK
<1>3. call[c].kind # "login" /\ cookies # NoCookies /\ cookies \in {Keep, call[c].got}
  BY <1>1 DEF BackendOK
<1>4. \/ UNCHANGED revokedBy /\ call[c].kind # "logout"
      \/ call[c].kind = "logout" /\ Revoke(call[c].pair, c)
  BY DEF Execute
<1>5. \/ cookies # Keep
      \/ \A p \in Pair : c \notin revokedBy[p]
  BY <1>1, <1>3 DEF RevokerOK, BackendOK
<1>6. failed' \in SUBSET Call
  BY <1>1 DEF Types
<1>7. UNCHANGED <<page, lapsed>>
  BY DEF where
<1>8. Finish(c, Executed(c), "ok", cookies)
  BY DEF Execute
<1>9. call[c].at # "none" /\ "ok" \in Status
  BY DEF Status
<1> HIDE DEF Executed
<1>10. QED
  BY <1>1, <1>2, <1>3, <1>4, <1>5, <1>6, <1>7, <1>8, <1>9, FinishInv

LEMMA RefuseInv ==
  ASSUME IInv, NEW c \in Call, NEW status \in {"TOKEN_INVALID", "INTERNAL_ERROR"},
         NEW cookies \in Keep .. MaxPairs, Finish(c, call[c], status, cookies),
         call[c].at # "none",
         UNCHANGED <<jar, issued, expired, revokedBy, page, lapsed>>,
         failed' \in SUBSET Call, failed \subseteq failed',
         cookies \in {Keep, NoCookies, call[c].got},
         cookies = NoCookies => status = "TOKEN_INVALID",
         status = "TOKEN_INVALID" /\ call[c].pair # NoCookies =>
           c \in failed' \/ revokedBy[call[c].pair] \ {c} # {},
         c \in failed' \/ call[c].at \in {"auth", "find"}
  PROVE  IInv'
<1>1. call[c] \in Record /\ BackendOK(c) /\ RevokerOK(c)
  BY Before
<1>2. call[c].times =< 1 /\ status \in Status /\ status # "ok"
  BY <1>1 DEF BackendOK, Status
<1>3. c \in failed' \/ \A p \in Pair : c \notin revokedBy[p]
  BY <1>1 DEF RevokerOK
<1>4. QED
  BY <1>1, <1>2, <1>3, FinishInv

(* A call that goes on in the backend.                                     *)
LEMMA GoesOn ==
  ASSUME IInv, NEW c \in Call, NEW label \in At,
         call' = [call EXCEPT ![c].at = label], call[c].at # "none",
         UNCHANGED <<jar, issued, expired, page, lapsed, failed>>,
         label = "none" => call[c].bff # "waiting",
         label \in {"find", "revoke"} =>
           call[c].at \in {"auth", "find"} /\ call[c].pair # NoCookies,
         label = "issue" => call[c].at \in {"auth", "find", "revoke"},
         label \notin {"auth", "resend"},
         \/ UNCHANGED revokedBy
         \/ /\ label = "issue" /\ call[c].pair \in Pair
            /\ revokedBy' = [revokedBy EXCEPT ![call[c].pair] = revokedBy[call[c].pair] \cup {c}]
  PROVE  IInv'
<1>1. /\ call[c] \in Record /\ BackendOK(c) /\ AnswerOK(c) /\ RevokerOK(c) /\ RefusedOK(c)
      /\ call[c].pair \in Nat /\ call[c].got \in Nat /\ Types
  BY Before
<1>2. /\ call' \in [Call -> Record] /\ \A d \in Call \ {c} : call'[d] = call[d]
      /\ call'[c].at = label /\ call'[c].kind = call[c].kind /\ call'[c].pair = call[c].pair
      /\ call'[c].got = call[c].got /\ call'[c].times = call[c].times
      /\ call'[c].bff = call[c].bff /\ call'[c].status = call[c].status
      /\ call'[c].cookies = call[c].cookies
  BY <1>1 DEF Types, Record
<1>3. /\ revokedBy' \in [Pair -> SUBSET Call]
      /\ \A p \in Pair : /\ revokedBy[p] \subseteq revokedBy'[p]
                         /\ \/ revokedBy'[p] = revokedBy[p]
                            \/ /\ revokedBy'[p] = revokedBy[p] \cup {c}
                               /\ p = call[c].pair /\ label = "issue"
  BY <1>1 DEF Types
<1>4. Types'
  BY <1>1, <1>2, <1>3 DEF Types
<1>5. BackendOK(c)'
  BY <1>1, <1>2 DEF BackendOK
<1>6. AnswerOK(c)'
  BY <1>1, <1>2 DEF AnswerOK, Refused, BackendOK
<1>7. RevokerOK(c)'
  BY <1>1, <1>2, <1>3 DEF RevokerOK, BackendOK, AnswerOK
<1>8. RefusedOK(c)'
  BY <1>1, <1>2, <1>3 DEF RefusedOK, Refused
<1>9. Pending(c)' => Pending(c)
  BY <1>2 DEF Pending
<1>10. issued' \in Nat /\ issued =< issued' /\ failed \subseteq failed'
  BY Before
<1>11. QED
  BY <1>2, <1>3, <1>4, <1>5, <1>6, <1>7, <1>8, <1>9, <1>10, OneCall

LEMMA AuthoriseInv == ASSUME IInv, NEW c \in Call, Authorise(c) PROVE IInv'
<1>1. call[c].at = "auth" /\ UNCHANGED <<jar, issued, expired, page, lapsed, failed>>
  BY DEF Authorise, where
<1>2. /\ call[c] \in Record /\ Types /\ BackendOK(c)
  BY Before
<1>3. CASE call[c].pair = NoCookies /\ Finish(c, call[c], "TOKEN_INVALID", Keep) /\ UNCHANGED revokedBy
  BY <1>1, <1>2, <1>3, RefuseInv DEF Types
<1>4. CASE call[c].pair \in expired /\ Then(c, "find") /\ UNCHANGED revokedBy
  <2>1. call[c].pair # NoCookies
    BY <1>2, <1>4 DEF Types
  <2>2. PICK label \in {"find", "none"} :
          /\ call' = [call EXCEPT ![c].at = label]
          /\ label = "none" => call[c].bff # "waiting"
    BY <1>4 DEF Then
  <2>3. QED
    BY <1>1, <1>4, <2>1, <2>2, GoesOn DEF At
<1>5. CASE Execute(c, Keep)
  BY <1>1, <1>5, ExecuteInv DEF Authorise
<1>6. QED
  BY <1>3, <1>4, <1>5 DEF Authorise

LEMMA FindTokenInv == ASSUME IInv, NEW c \in Call, FindToken(c) PROVE IInv'
<1>1. /\ call[c].at = "find" /\ UNCHANGED <<jar, issued, expired, revokedBy, page, lapsed, failed>>
  BY DEF FindToken, where
<1>2. /\ call[c] \in Record /\ Types /\ BackendOK(c) /\ RevokerOK(c)
  BY Before
<1>3. call[c].pair \in Pair
  BY <1>1, <1>2 DEF Record, BackendOK
<1>4. CASE revokedBy[call[c].pair] # {}
  <2>1. Finish(c, call[c], "TOKEN_INVALID", NoCookies)
    BY <1>4 DEF FindToken
  <2>2. revokedBy[call[c].pair] \ {c} # {}
    BY <1>1, <1>2, <1>3, <1>4 DEF RevokerOK
  <2>3. QED
    BY <1>1, <1>2, <2>1, <2>2, RefuseInv DEF Types
<1>5. CASE revokedBy[call[c].pair] = {}
  BY <1>1, <1>3, <1>5, GoesOn DEF FindToken, At
<1>6. QED
  BY <1>4, <1>5

LEMMA RevokeTokenInv == ASSUME IInv, NEW c \in Call, RevokeToken(c) PROVE IInv'
<1>1. /\ call[c].at = "revoke" /\ UNCHANGED <<jar, issued, expired, page, lapsed, failed>>
      /\ call' = [call EXCEPT ![c].at = "issue"]
  BY DEF RevokeToken, where
<1>2. call[c].pair \in Pair
  BY <1>1, Before DEF Record, BackendOK
<1>3. revokedBy' = [revokedBy EXCEPT ![call[c].pair] = revokedBy[call[c].pair] \cup {c}]
  BY <1>2 DEF RevokeToken, Revoke
<1>4. QED
  BY <1>1, <1>2, <1>3, GoesOn DEF At

LEMMA ResendInv == ASSUME IInv, NEW c \in Call, Resend(c) PROVE IInv'
<1>1. call[c].at = "resend" /\ Execute(c, call[c].got)
  BY DEF Resend
<1>2. call[c].got \in Keep .. MaxPairs
  BY Before DEF Record
<1>3. QED
  BY <1>1, <1>2, ExecuteInv DEF Resend

LEMMA BackendFailsInv == ASSUME IInv, NEW c \in Call, BackendFails(c) PROVE IInv'
<1>1. /\ call[c].at # "none" /\ failed' = failed \cup {c}
      /\ UNCHANGED <<jar, issued, expired, revokedBy, page, lapsed>>
  BY DEF BackendFails, where
<1>2. /\ call[c] \in Record /\ Types /\ BackendOK(c)
  BY Before
<1>3. /\ failed' \in SUBSET Call /\ call[c].got \in Keep .. MaxPairs
      /\ call[c].at = "resend" => call[c].got # NoCookies
  BY <1>1, <1>2 DEF Types, Record, BackendOK
<1>4. \/ Finish(c, call[c], "INTERNAL_ERROR", Keep)
      \/ call[c].at = "resend" /\ Finish(c, call[c], "INTERNAL_ERROR", call[c].got)
      \/ Finish(c, call[c], "TOKEN_INVALID", NoCookies)
  BY DEF BackendFails
<1>5. NoCookies \in Keep .. MaxPairs /\ Keep \in Keep .. MaxPairs
  OBVIOUS
<1>6. QED
  BY <1>1, <1>2, <1>3, <1>4, <1>5, RefuseInv

LEMMA IssueTokensInv == ASSUME IInv, NEW c \in Call, IssueTokens(c) PROVE IInv'
<1>1. /\ call[c].at = "issue" /\ issued' = issued + 1 /\ issued' \in Pair
      /\ UNCHANGED <<jar, expired, revokedBy, page, lapsed, failed>>
  BY Before DEF IssueTokens, where
<1>2. /\ call[c] \in Record /\ BackendOK(c) /\ AnswerOK(c) /\ RevokerOK(c) /\ RefusedOK(c)
      /\ call[c].pair \in Nat /\ call[c].got \in Nat /\ Types /\ issued \in Nat
  BY Before
<1>3. call[c].times = 0 /\ call[c].got = 0 /\ call[c].bff # "idle"
  BY <1>1, <1>2 DEF BackendOK
<1>4. \A p \in Pair : revokedBy'[p] = revokedBy[p]
  BY <1>1
<1>5. CASE call[c].kind = "login"
  <2> DEFINE r == [Executed(c) EXCEPT !.got = issued']
  <2>1. /\ Executed(c) \in Record /\ Executed(c).kind = call[c].kind
        /\ Executed(c).pair = call[c].pair /\ Executed(c).times = 1
        /\ Executed(c).bff = call[c].bff /\ Executed(c).status = call[c].status
        /\ Executed(c).cookies = call[c].cookies
    BY <1>2, <1>3, ExecutedOK
  <2>2. /\ r \in Record /\ r.kind = call[c].kind /\ r.pair = call[c].pair /\ r.times = 1
        /\ r.bff = call[c].bff /\ r.status = call[c].status /\ r.cookies = call[c].cookies
        /\ r.got = issued'
    BY <1>1, <2>1 DEF Record
  <2>3. Finish(c, r, "ok", issued')
    BY <1>5 DEF IssueTokens
  <2> HIDE DEF r
  <2>4. /\ call' \in [Call -> Record]
        /\ \A d \in Call \ {c} : call'[d] = call[d]
        /\ call'[c].at = "none" /\ call'[c].kind = "login" /\ call'[c].pair = call[c].pair
        /\ call'[c].got = issued' /\ call'[c].times = 1
        /\ call[c].bff # "waiting" => /\ call'[c].bff = call[c].bff
                                      /\ call'[c].status = call[c].status
                                      /\ call'[c].cookies = call[c].cookies
        /\ call[c].bff = "waiting" => /\ call'[c].bff = "replied"
                                      /\ call'[c].status = "ok"
                                      /\ call'[c].cookies = issued'
    <3>1. "ok" \in Status /\ issued' \in Keep .. MaxPairs
      BY <1>1 DEF Status
    <3>2. QED
      BY <1>2, <1>5, <2>2, <2>3, <3>1, Finished
  <2>5. Types'
    BY <1>1, <1>2, <2>4 DEF Types
  <2>6. BackendOK(c)'
    BY <1>1, <1>2, <2>4 DEF BackendOK
  <2>7. AnswerOK(c)'
    <3>1. CASE call[c].bff = "waiting"
      BY <1>1, <1>2, <2>4, <3>1 DEF AnswerOK, Refused
    <3>2. CASE call[c].bff # "waiting"
      BY <1>1, <1>2, <1>3, <1>5, <2>4, <3>2 DEF AnswerOK, Refused
    <3>3. QED
      BY <3>1, <3>2
  <2>8. RevokerOK(c)'
    BY <1>1, <1>2, <1>4, <2>4 DEF RevokerOK, BackendOK
  <2>9. RefusedOK(c)'
    BY <1>1, <1>2, <2>4 DEF RefusedOK, Refused
  <2>10. call'[c].got > issued /\ issued =< issued' /\ failed \subseteq failed'
    BY <1>1, <1>2, <2>4
  <2>11. QED
    BY <1>1, <1>4, <2>4, <2>5, <2>6, <2>7, <2>8, <2>9, <2>10, OneCall
<1>6. CASE call[c].kind # "login" /\ call[c].bff = "waiting"
  <2>1. call' = [call EXCEPT ![c] = [call[c] EXCEPT !.at = "resend", !.got = issued']]
    BY <1>2, <1>6 DEF IssueTokens, Types
  <2> DEFINE r == [call[c] EXCEPT !.at = "resend", !.got = issued']
  <2>2. /\ r \in Record /\ r.at = "resend" /\ r.got = issued' /\ r.kind = call[c].kind
        /\ r.pair = call[c].pair /\ r.times = call[c].times /\ r.bff = call[c].bff
        /\ r.status = call[c].status /\ r.cookies = call[c].cookies
    <3>1. issued' \in 0 .. MaxPairs /\ "resend" \in At
      BY <1>1 DEF At
    <3>2. QED
      BY <1>2, <3>1 DEF Record
  <2> HIDE DEF r
  <2>3. call' = [call EXCEPT ![c] = r]
    BY <2>1 DEF r
  <2>4. /\ call' \in [Call -> Record] /\ call'[c] = r
        /\ \A d \in Call \ {c} : call'[d] = call[d]
    BY <1>2, <2>2, <2>3 DEF Types
  <2>5. Types'
    BY <1>1, <1>2, <2>4 DEF Types
  <2>6. BackendOK(c)'
    BY <1>1, <1>2, <1>3, <1>6, <2>2, <2>4 DEF BackendOK
  <2>7. AnswerOK(c)'
    BY <1>1, <1>2, <1>6, <2>2, <2>4 DEF AnswerOK, Refused
  <2>8. RevokerOK(c)'
    BY <1>1, <1>2, <1>4, <1>6, <2>2, <2>4 DEF RevokerOK
  <2>9. RefusedOK(c)'
    BY <1>1, <1>2, <2>2, <2>4 DEF RefusedOK, Refused
  <2>10. call'[c].got > issued /\ issued =< issued' /\ failed \subseteq failed'
    BY <1>1, <1>2, <2>2, <2>4
  <2>11. QED
    BY <1>1, <1>4, <2>2, <2>4, <2>5, <2>6, <2>7, <2>8, <2>9, <2>10, OneCall
<1>7. CASE call[c].kind # "login" /\ call[c].bff # "waiting"
  <2>1. call' = [call EXCEPT ![c].at = "none"]
    BY <1>7 DEF IssueTokens
  <2>2. /\ call' \in [Call -> Record] /\ \A d \in Call \ {c} : call'[d] = call[d]
        /\ call'[c].at = "none" /\ call'[c].kind = call[c].kind /\ call'[c].pair = call[c].pair
        /\ call'[c].got = call[c].got /\ call'[c].times = call[c].times
        /\ call'[c].bff = call[c].bff /\ call'[c].status = call[c].status
        /\ call'[c].cookies = call[c].cookies
    BY <1>2, <2>1 DEF Types, Record, At
  <2>3. Types'
    BY <1>1, <1>2, <2>2 DEF Types
  <2>4. BackendOK(c)' /\ AnswerOK(c)'
    BY <1>1, <1>2, <1>3, <1>7, <2>2 DEF BackendOK, AnswerOK, Refused
  <2>5. RevokerOK(c)' /\ RefusedOK(c)'
    BY <1>1, <1>2, <1>4, <2>2 DEF RevokerOK, RefusedOK, Refused
  <2>6. issued =< issued' /\ failed \subseteq failed' /\ (Pending(c)' => Pending(c))
    BY <1>1, <1>2, <2>2 DEF Pending
  <2>7. QED
    BY <1>1, <1>4, <2>2, <2>3, <2>4, <2>5, <2>6, OneCall
<1>8. QED
  BY <1>5, <1>6, <1>7

-----------------------------------------------------------------------------
(* The steps of the BFF and the browser.                                   *)
LEMMA GiveUpInv == ASSUME IInv, NEW c \in Call, GiveUp(c) PROVE IInv'
<1>1. /\ call[c].at # "none" /\ call[c].bff = "waiting" /\ failed' = failed \cup {c}
      /\ UNCHANGED <<jar, issued, expired, revokedBy, page, lapsed>>
  BY DEF GiveUp, where
<1>2. /\ call[c] \in Record /\ BackendOK(c) /\ AnswerOK(c) /\ RevokerOK(c) /\ RefusedOK(c)
      /\ call[c].got \in Nat /\ Types /\ issued \in Nat
  BY Before
<1> DEFINE k == IF call[c].kind = "logout" THEN NoCookies ELSE Keep
<1> DEFINE r == [call[c] EXCEPT !.bff = "replied", !.status = "INTERNAL_ERROR", !.cookies = k]
<1>3. call' = [call EXCEPT ![c] = r]
  BY <1>1 DEF GiveUp, Replied
<1>4. k \in -1 .. MaxPairs /\ (k = 0 => call[c].kind = "logout") /\ k \in {-1, 0}
  OBVIOUS
<1> HIDE DEF k
<1>5. /\ r \in Record /\ r.at = call[c].at /\ r.got = call[c].got /\ r.kind = call[c].kind
      /\ r.pair = call[c].pair /\ r.times = call[c].times /\ r.bff = "replied"
      /\ r.status = "INTERNAL_ERROR" /\ r.cookies = k
  BY <1>2, <1>4 DEF Record, Bff, Status
<1> HIDE DEF r
<1>6. /\ call' \in [Call -> Record] /\ call'[c] = r
      /\ \A d \in Call \ {c} : call'[d] = call[d]
  BY <1>2, <1>3, <1>5 DEF Types
<1>7. Types'
  BY <1>1, <1>2, <1>6 DEF Types
<1>8. BackendOK(c)' /\ AnswerOK(c)'
  BY <1>1, <1>2, <1>4, <1>5, <1>6 DEF BackendOK, AnswerOK, Refused
<1>9. RevokerOK(c)' /\ RefusedOK(c)'
  BY <1>1, <1>2, <1>5, <1>6 DEF RevokerOK, RefusedOK, Refused
<1>10. /\ issued =< issued' /\ failed \subseteq failed' /\ (Pending(c)' => Pending(c))
       /\ \A p \in Pair : revokedBy'[p] = revokedBy[p]
  BY <1>1, <1>2, <1>5, <1>6 DEF Pending
<1>11. QED
  BY <1>1, <1>5, <1>6, <1>7, <1>8, <1>9, <1>10, OneCall

LEMMA SendInv == ASSUME IInv, NEW c \in Call, NEW kind \in Kinds, Send(c, kind) PROVE IInv'
<1> DEFINE r == [call[c] EXCEPT !.kind = kind, !.bff = "waiting", !.pair = jar]
<1>1. /\ call[c].bff = "idle" /\ UNCHANGED <<jar, issued, expired, revokedBy, page, lapsed, failed>>
  BY DEF Send, where
<1>2. /\ call[c] \in Record /\ BackendOK(c) /\ AnswerOK(c) /\ RevokerOK(c)
      /\ Types /\ issued \in Nat /\ jar \in Nat /\ jar =< issued
  BY Before
<1>3. /\ call[c].at = "none" /\ call[c].times = 0 /\ call[c].got = 0
      /\ call[c].status = "none" /\ call[c].cookies = -1
  BY <1>1, <1>2 DEF AnswerOK
<1>4. jar \in 0 .. MaxPairs
  BY <1>2 DEF Types
<1>5. /\ r \in Record /\ r.at = "none" /\ r.got = 0 /\ r.kind = kind /\ r.pair = jar
      /\ r.times = 0 /\ r.bff = "waiting" /\ r.status = "none" /\ r.cookies = -1
  BY <1>2, <1>3, <1>4 DEF Record, Bff
<1>6. \A p \in Pair : c \notin revokedBy'[p] /\ revokedBy'[p] = revokedBy[p]
  BY <1>1, <1>2 DEF RevokerOK
<1>7. CASE kind = "logout" /\ jar = NoCookies
  <2>1. Finish(c, r, "ok", NoCookies)
    BY <1>7 DEF Send
  <2> HIDE DEF r
  <2>2. "ok" \in Status /\ NoCookies \in Keep .. MaxPairs
    BY DEF Status
  <2>3. /\ call' \in [Call -> Record] /\ \A d \in Call \ {c} : call'[d] = call[d]
        /\ call'[c].at = "none" /\ call'[c].kind = "logout" /\ call'[c].pair = jar
        /\ call'[c].got = 0 /\ call'[c].times = 0 /\ call'[c].bff = "replied"
        /\ call'[c].status = "ok" /\ call'[c].cookies = NoCookies
    BY <1>2, <1>5, <1>7, <2>1, <2>2, Finished
  <2>4. Types'
    BY <1>1, <1>2, <2>3 DEF Types
  <2>5. BackendOK(c)' /\ AnswerOK(c)'
    BY <1>1, <1>2, <2>3 DEF BackendOK, AnswerOK, Refused
  <2>6. RevokerOK(c)' /\ RefusedOK(c)'
    BY <1>6, <2>3 DEF RevokerOK, RefusedOK, Refused
  <2>7. issued =< issued' /\ failed \subseteq failed'
    BY <1>1, <1>2
  <2>8. QED
    BY <1>1, <1>6, <2>3, <2>4, <2>5, <2>6, <2>7, OneCall
<1>8. CASE ~(kind = "logout" /\ jar = NoCookies)
  <2> DEFINE label == IF kind = "login" THEN "issue" ELSE "auth"
  <2>1. call' = [call EXCEPT ![c] = [r EXCEPT !.at = label]]
    BY <1>8 DEF Send
  <2> HIDE DEF r
  <2> DEFINE u == [r EXCEPT !.at = label]
  <2>2. /\ u \in Record /\ u.at = label /\ u.got = 0 /\ u.kind = kind /\ u.pair = jar
        /\ u.times = 0 /\ u.bff = "waiting" /\ u.status = "none" /\ u.cookies = -1
    BY <1>5 DEF Record, At
  <2> HIDE DEF u
  <2>3. call' = [call EXCEPT ![c] = u]
    BY <2>1 DEF u
  <2>4. /\ call' \in [Call -> Record] /\ call'[c] = u
        /\ \A d \in Call \ {c} : call'[d] = call[d]
    BY <1>2, <2>2, <2>3 DEF Types
  <2>5. Types'
    BY <1>1, <1>2, <2>4 DEF Types
  <2>6. BackendOK(c)' /\ AnswerOK(c)'
    BY <1>1, <1>2, <2>2, <2>4 DEF BackendOK, AnswerOK, Refused
  <2>7. RevokerOK(c)' /\ RefusedOK(c)'
    BY <1>6, <2>2, <2>4 DEF RevokerOK, RefusedOK, Refused
  <2>8. issued =< issued' /\ failed \subseteq failed'
    BY <1>1, <1>2
  <2>9. QED
    BY <1>1, <1>6, <2>2, <2>4, <2>5, <2>6, <2>7, <2>8, OneCall
<1>9. QED
  BY <1>7, <1>8

LEMMA DeliverInv == ASSUME IInv, NEW c \in Call, Deliver(c) PROVE IInv'
<1>1. /\ call[c].bff = "replied" /\ UNCHANGED <<issued, expired, revokedBy, failed>>
      /\ call' = [call EXCEPT ![c].bff = "delivered"]
      /\ jar' = IF call[c].cookies = Keep THEN jar ELSE call[c].cookies
      /\ page' = PageAfter(c)
      /\ lapsed' = (lapsed /\ jar' = NoCookies /\ page' = "register")
  BY DEF Deliver, JarAfter
<1>2. \A d \in Call : /\ call[d] \in Record /\ BackendOK(d) /\ AnswerOK(d) /\ RevokerOK(d)
                      /\ PendingOK(d) /\ RefusedOK(d)
                      /\ call[d].got \in Nat /\ call[d].pair \in Nat
  BY Before DEF IInv, CallOK
<1>3. /\ Types /\ RegisterNeedsCookies /\ issued \in Nat /\ jar \in Nat /\ jar =< issued
  BY Before DEF IInv
<1>4. /\ call' \in [Call -> Record] /\ \A d \in Call \ {c} : call'[d] = call[d]
      /\ call'[c].at = call[c].at /\ call'[c].kind = call[c].kind
      /\ call'[c].pair = call[c].pair /\ call'[c].got = call[c].got
      /\ call'[c].times = call[c].times /\ call'[c].bff = "delivered"
      /\ call'[c].status = call[c].status /\ call'[c].cookies = call[c].cookies
  BY <1>1, <1>2, <1>3 DEF Types, Record, Bff
<1>5. \/ call[c].cookies = Keep /\ jar' = jar
      \/ call[c].cookies = NoCookies /\ jar' = NoCookies
      \/ call[c].cookies = call[c].got /\ call[c].got # 0 /\ Pending(c) /\ jar' = call[c].got
  BY <1>1, <1>2 DEF AnswerOK, Pending
<1>6. jar' \in 0 .. issued'
  BY <1>1, <1>2, <1>3, <1>5 DEF BackendOK
<1>7. page' \in {"register", "login"}
  BY <1>1, <1>3 DEF PageAfter, Types
<1>8. lapsed' \in BOOLEAN
  BY <1>1
<1>9. Types'
  BY <1>1, <1>3, <1>4, <1>6, <1>7, <1>8 DEF Types
<1>10. ASSUME page' = "register", jar' = NoCookies PROVE lapsed
  <2>1. ~(call[c].kind = "logout" \/ Refused(c))
    BY <1>1, <1>10 DEF PageAfter, Refused
  <2>2. call[c].cookies # NoCookies
    BY <1>1, <1>2, <2>1 DEF AnswerOK
  <2>3. call[c].cookies = Keep /\ jar = NoCookies
    BY <1>5, <1>10, <2>2
  <2>4. ~(call[c].kind = "login" /\ call[c].status = "ok")
    BY <1>1, <1>2, <2>3 DEF AnswerOK
  <2>5. page = "register"
    BY <1>1, <1>10, <2>1, <2>4 DEF PageAfter
  <2>6. QED
    BY <1>3, <2>3, <2>5 DEF RegisterNeedsCookies
<1>11. RegisterNeedsCookies'
  BY <1>1, <1>10 DEF RegisterNeedsCookies
<1>12. ASSUME NEW d \in Call PROVE BackendOK(d)' /\ AnswerOK(d)' /\ RefusedOK(d)'
  <2>1. CASE d = c
    BY <1>1, <1>2, <1>4, <2>1 DEF BackendOK, AnswerOK, RefusedOK, Refused
  <2>2. CASE d # c
    BY <1>1, <1>2, <1>4, <2>2 DEF BackendOK, AnswerOK, RefusedOK, Refused
  <2>3. QED
    BY <2>1, <2>2
<1>13. ASSUME NEW d \in Call PROVE RevokerOK(d)'
  <2>1. \A e \in Call : Pending(c) => call[e].pair # call[c].got
    BY <1>2 DEF PendingOK
  <2>2. CASE d = c
    BY <1>1, <1>2, <1>4, <1>5, <2>1, <2>2 DEF RevokerOK
  <2>3. CASE d # c
    BY <1>1, <1>2, <1>4, <1>5, <2>1, <2>3 DEF RevokerOK
  <2>4. QED
    BY <2>2, <2>3
<1>14. ASSUME NEW d \in Call, Pending(d)', NEW e \in Call
       PROVE  /\ call'[d].got # jar'
              /\ call'[e].pair # call'[d].got
              /\ Pending(e)' /\ e # d => call'[e].got # call'[d].got
  <2>1. d # c /\ Pending(d) /\ call'[d] = call[d] /\ call[d].got # 0
    BY <1>4, <1>14 DEF Pending
  <2>2. /\ call[d].got # jar /\ call[e].pair # call[d].got
        /\ Pending(e) /\ e # d => call[e].got # call[d].got
        /\ Pending(c) => call[c].got # call[d].got
    BY <1>2, <2>1 DEF PendingOK
  <2>3. call'[e].pair = call[e].pair /\ call'[e].got = call[e].got
    BY <1>4
  <2>4. Pending(e)' => Pending(e)
    BY <1>4 DEF Pending
  <2>5. QED
    BY <1>5, <2>1, <2>2, <2>3, <2>4
<1>15. QED
  BY <1>9, <1>11, <1>12, <1>13, <1>14 DEF IInv, CallOK, PendingOK

(* Answers that nobody waits for any more.                                 *)
LEMMA Dropped ==
  ASSUME IInv, NEW D \in SUBSET Call,
         \A c \in D : call[c].bff \in {"waiting", "replied"},
         call' = [c \in Call |-> IF c \in D THEN [call[c] EXCEPT !.bff = "lost"] ELSE call[c]],
         failed' = failed \cup D, UNCHANGED <<jar, issued, expired, revokedBy>>,
         page' \in {"register", "login"}, lapsed' \in BOOLEAN, RegisterNeedsCookies'
  PROVE  IInv'
<1>1. \A d \in Call : /\ call[d] \in Record /\ BackendOK(d) /\ AnswerOK(d) /\ RevokerOK(d)
                      /\ PendingOK(d) /\ RefusedOK(d)
  BY Before DEF IInv, CallOK
<1>2. Types
  BY DEF IInv
<1>3. \A d \in Call : /\ call'[d] \in Record
                      /\ call'[d].at = call[d].at /\ call'[d].kind = call[d].kind
                      /\ call'[d].pair = call[d].pair /\ call'[d].got = call[d].got
                      /\ call'[d].times = call[d].times /\ call'[d].status = call[d].status
                      /\ call'[d].cookies = call[d].cookies
                      /\ d \in D => call'[d].bff = "lost"
                      /\ d \notin D => call'[d].bff = call[d].bff
  BY <1>1 DEF Record, Bff
<1>4. call' \in [Call -> Record]
  BY <1>3
<1>5. Types'
  BY <1>2, <1>4 DEF Types
<1>6. ASSUME NEW d \in Call PROVE BackendOK(d)' /\ AnswerOK(d)'
  <2>1. CASE d \in D
    <3>1. call'[d].bff = "lost" /\ d \in failed' /\ call[d].bff \in {"waiting", "replied"}
      BY <1>3, <2>1
    <3>2. BackendOK(d)'
      BY <1>1, <1>3, <3>1 DEF BackendOK
    <3>3. AnswerOK(d)'
      BY <1>1, <1>3, <3>1 DEF AnswerOK
    <3>4. QED
      BY <3>2, <3>3
  <2>2. CASE d \notin D
    BY <1>1, <1>3, <2>2 DEF BackendOK, AnswerOK, Refused
  <2>3. QED
    BY <2>1, <2>2
<1>7. ASSUME NEW d \in Call PROVE RevokerOK(d)' /\ RefusedOK(d)'
  BY <1>1, <1>3 DEF RevokerOK, RefusedOK, Refused
<1>8. \A d \in Call : Pending(d)' => Pending(d)
  BY <1>3 DEF Pending
<1>9. \A d \in Call : PendingOK(d)'
  BY <1>1, <1>3, <1>8 DEF PendingOK
<1>10. QED
  BY <1>5, <1>6, <1>7, <1>9 DEF IInv, CallOK

LEMMA LoseInv == ASSUME IInv, NEW c \in Call, Lose(c) PROVE IInv'
<1>1. /\ call[c].bff = "replied" /\ failed' = failed \cup {c}
      /\ page' \in {page, "login"} /\ lapsed' = (lapsed /\ page' = "register")
      /\ UNCHANGED <<jar, issued, expired, revokedBy>>
      /\ call' = [call EXCEPT ![c] = [call[c] EXCEPT !.bff = "lost"]]
  BY DEF Lose
<1>2. call' = [d \in Call |-> IF d \in {c} THEN [call[d] EXCEPT !.bff = "lost"] ELSE call[d]]
  BY <1>1 DEF IInv, Types
<1>3. page' \in {"register", "login"} /\ lapsed' \in BOOLEAN
  BY <1>1 DEF IInv, Types
<1>4. RegisterNeedsCookies'
  BY <1>1 DEF IInv, RegisterNeedsCookies
<1>5. {c} \in SUBSET Call /\ \A d \in {c} : call[d].bff \in {"waiting", "replied"}
  BY <1>1
<1>6. QED
  BY <1>1, <1>2, <1>3, <1>4, <1>5, Dropped

LEMMA PageSteps == ASSUME IInv, Open \/ CookiesLapse PROVE IInv'
<1>1. CASE Open
  <2> DEFINE D == {c \in Call : call[c].bff \in {"waiting", "replied"}}
  <2>1. /\ call' = [c \in Call |-> IF c \in D THEN [call[c] EXCEPT !.bff = "lost"] ELSE call[c]]
        /\ failed' = failed \cup D /\ UNCHANGED <<jar, issued, expired, revokedBy>>
        /\ page' = (IF jar = NoCookies THEN "login" ELSE "register") /\ lapsed' = FALSE
    BY <1>1 DEF Open
  <2>2. D \in SUBSET Call /\ \A c \in D : call[c].bff \in {"waiting", "replied"}
    OBVIOUS
  <2> HIDE DEF D
  <2>3. RegisterNeedsCookies' /\ page' \in {"register", "login"} /\ lapsed' \in BOOLEAN
    BY <2>1 DEF RegisterNeedsCookies
  <2>4. QED
    BY <2>1, <2>2, <2>3, Dropped
<1>2. CASE CookiesLapse
  <2>1. /\ jar' = NoCookies /\ lapsed' = TRUE
        /\ UNCHANGED <<issued, expired, revokedBy, call, page, failed>>
    BY <1>2 DEF CookiesLapse
  <2>2. Types' /\ RegisterNeedsCookies'
    BY <2>1 DEF IInv, Types, RegisterNeedsCookies
  <2>3. ASSUME NEW d \in Call PROVE BackendOK(d)' /\ AnswerOK(d)' /\ RefusedOK(d)'
    BY <2>1 DEF IInv, CallOK, BackendOK, AnswerOK, RefusedOK, Refused
  <2>4. ASSUME NEW d \in Call PROVE RevokerOK(d)' /\ PendingOK(d)'
    BY <2>1 DEF IInv, CallOK, RevokerOK, PendingOK, Pending
  <2>5. QED
    BY <2>2, <2>3, <2>4 DEF IInv, CallOK
<1>3. QED
  BY <1>1, <1>2

LEMMA ExpireInv == ASSUME IInv, NEW p \in Pair, Expire(p) PROVE IInv'
<1>1. /\ expired' = expired \cup {p} /\ p \in {jar} \cup {call[c].pair : c \in Call}
      /\ UNCHANGED <<jar, issued, revokedBy, call, page, lapsed, failed>>
  BY DEF Expire, where
<1>2. p =< issued
  BY <1>1 DEF IInv, Types, CallOK, BackendOK
<1>3. Types' /\ RegisterNeedsCookies'
  <2>1. expired' \subseteq 1 .. issued
    BY <1>1, <1>2 DEF IInv, Types
  <2>2. QED
    BY <1>1, <2>1 DEF IInv, Types, RegisterNeedsCookies
<1>4. ASSUME NEW d \in Call PROVE CallOK(d)'
  BY <1>1 DEF IInv, CallOK, BackendOK, AnswerOK, RevokerOK, PendingOK, Pending, RefusedOK, Refused
<1>5. QED
  BY <1>3, <1>4 DEF IInv

LEMMA NextInv == IInv /\ [Next]_vars => IInv'
<1> SUFFICES ASSUME IInv, [Next]_vars PROVE IInv'
  OBVIOUS
<1>1. CASE UNCHANGED vars
  BY <1>1 DEF vars, IInv, Types, RegisterNeedsCookies, CallOK, BackendOK, AnswerOK, RevokerOK,
              PendingOK, Pending, RefusedOK, Refused
<1>2. CASE Next
  BY <1>2, SendInv, AuthoriseInv, FindTokenInv, RevokeTokenInv, IssueTokensInv, ResendInv,
     BackendFailsInv, GiveUpInv, DeliverInv, LoseInv, PageSteps, ExpireInv DEF Next
<1>3. QED
  BY <1>1, <1>2

LEMMA InvHolds == Spec => []IInv
BY InitInv, NextInv, PTL DEF Spec

-----------------------------------------------------------------------------
(* Type correctness: only pairs that were issued are in cookies, expire or *)
(* are revoked.                                                            *)
THEOREM SessionTypes == Spec => []TypeOK
<1>1. ASSUME IInv PROVE TypeOK
  <2>1. ASSUME NEW c \in Call
        PROVE  /\ call[c].at \in At /\ call[c].bff \in Bff
               /\ call[c].bff = "waiting" => call[c].at # "none"
               /\ call[c].pair \in 0 .. issued
               /\ call[c].got \in 0 .. issued
               /\ call[c].cookies \in Keep .. issued
    BY <1>1, Before DEF Record, BackendOK, AnswerOK
  <2>2. ASSUME NEW p \in Pair, revokedBy[p] # {} PROVE p =< issued
    <3>1. PICK c \in Call : c \in revokedBy[p]
      BY <1>1, <2>2 DEF IInv, Types
    <3>2. QED
      BY <1>1, <3>1, Before DEF RevokerOK, BackendOK
  <2>3. QED
    BY <1>1, <2>1, <2>2 DEF IInv, Types, TypeOK, At, Bff
<1>2. QED
  BY <1>1, InvHolds, PTL

(* Renewal and resend never do anything twice.                             *)
THEOREM NothingDoneTwice == Spec => []ExecutedOnce
<1>1. IInv => ExecutedOnce
  BY DEF IInv, CallOK, BackendOK, ExecutedOnce
<1>2. QED
  BY <1>1, InvHolds, PTL

(* A browser with cookies is refused only when another of its calls, now   *)
(* or earlier, has used its refresh token up, or when the call has failed. *)
THEOREM RefusedWhenUsedUp == Spec => []RefusedOnlyWhenUsedUp
<1>1. IInv => RefusedOnlyWhenUsedUp
  BY DEF IInv, CallOK, RefusedOK, RefusedOnlyWhenUsedUp
<1>2. QED
  BY <1>1, InvHolds, PTL

(* Once all is quiet, cookies can be renewed, however many calls there     *)
(* were, unless who used them up has failed.                               *)
THEOREM CookiesStayGood == Spec => []CookiesCanBeRenewed
<1>1. ASSUME IInv PROVE CookiesCanBeRenewed
  <2>1. ASSUME \A c \in Call : call[c].bff = "idle" \/ Over(c), jar # NoCookies,
               NEW c \in revokedBy[jar], c \notin failed
        PROVE  FALSE
    <3>1. jar \in Pair /\ c \in Call
      BY <1>1, <2>1 DEF IInv, Types
    <3>2. RevokerOK(c) /\ AnswerOK(c)
      BY <1>1, <3>1, Before
    <3>3. QED
      BY <2>1, <3>1, <3>2 DEF RevokerOK, AnswerOK, Over
  <2>2. QED
    BY <2>1 DEF CookiesCanBeRenewed
<1>2. QED
  BY <1>1, InvHolds, PTL

(* The register is not seen without cookies.                               *)
THEOREM RegisterIsGuarded == Spec => []RegisterNeedsCookies
BY InvHolds, PTL DEF IInv
=============================================================================
