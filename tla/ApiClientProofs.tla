--------------------------- MODULE ApiClientProofs ---------------------------
(***************************************************************************)
(* Proofs about ApiClient, for any senders, timeout, margin and lifetime   *)
(* that satisfy ApiAssumption.                                             *)
(***************************************************************************)
EXTENDS ApiClient, TLAPS

Parties == Senders \cup {Shared}

\* An authentication is not older than the timeout, and its token not older than it.
AuthInTime(a) ==
    a.pending => /\ a.since <= now /\ now <= a.since + Timeout
                 /\ a.token # NoToken => /\ a.token \in Tokens
                                         /\ a.since <= issued[a.token]

\* The cached token is given up a timeout before its end at the latest.
CacheInTime ==
    accessToken # NoToken =>
        /\ accessToken \in Tokens
        /\ expiresAt + Margin <= issued[accessToken] + Timeout + Lifetime

\* A request is not older than the timeout, and its token outlives it.
RequestInTime(r) ==
    r.at = "sent" =>
        /\ r.since <= now /\ now <= r.since + Timeout
        /\ r.since + Timeout < issued[r.token] + Lifetime
        /\ r.answer = "401" => r.token \in revoked

\* What a request was refused with is older than what it is sent with, and than
\* what its own authentication brings.
RetryInv ==
    \A s \in Senders :
        /\ requests[s].refused \in 0..Len(issued)
        /\ requests[s].at = "waiting" => requests[s].refused = NoToken
        /\ requests[s].at = "sent" => requests[s].token > requests[s].refused
        /\ auths[s].pending /\ auths[s].token # NoToken =>
               auths[s].token > requests[s].refused

TimeInv ==
    /\ \A x \in Parties : AuthInTime(auths[x])
    /\ CacheInTime
    /\ \A s \in Senders : RequestInTime(requests[s])

IInv == TypeOK /\ TimeInv /\ RetryInv

-----------------------------------------------------------------------------
LEMMA TokenNumbers ==
    ASSUME TypeOK
    PROVE  Len(issued) \in Nat /\ Tokens = 1..Len(issued)
           /\ \A t \in Tokens : t \in Nat /\ issued[t] \in Nat
BY DEF TypeOK, Tokens

\* What goes out is a request with the token, just sent.
LEMMA SentFields ==
    ASSUME TypeOK, NEW r \in Requests, NEW t \in Nat
    PROVE  /\ Sent(r, t) \in Requests
           /\ Sent(r, t).at = "sent" /\ Sent(r, t).token = t
           /\ Sent(r, t).since = now /\ Sent(r, t).answer = "none"
           /\ Sent(r, t).refused = r.refused
BY DEF Sent, Requests, TypeOK

LEMMA IdleFields ==
    /\ Idle \in Requests /\ [Idle EXCEPT !.at = "waiting"] \in Requests
    /\ Idle.at = "idle" /\ Idle.refused = NoToken
    /\ [Idle EXCEPT !.at = "waiting"].at = "waiting"
    /\ [Idle EXCEPT !.at = "waiting"].refused = NoToken
    /\ NoAuth \in Auths /\ ~NoAuth.pending
BY DEF Idle, Requests, NoToken, NoAuth, Auths

LEMMA AskingFields ==
    ASSUME TypeOK
    PROVE  /\ Asking \in Auths /\ Asking.pending
           /\ Asking.since = now /\ Asking.token = NoToken
BY DEF Asking, Auths, NoToken, TypeOK

\* A request that goes out with a cached token ends before the token does: the
\* margin makes up for the way the token came and the way the request goes.
LEMMA CachedTokenLasts ==
    ASSUME IInv, CacheIsLive
    PROVE  /\ accessToken \in Tokens
           /\ now + Timeout < issued[accessToken] + Lifetime
<1>1. accessToken \in Tokens /\ issued[accessToken] \in Nat
  BY TokenNumbers DEF IInv, TimeInv, CacheInTime, CacheIsLive
<1>2. expiresAt + Margin <= issued[accessToken] + Timeout + Lifetime
  BY DEF IInv, TimeInv, CacheInTime, CacheIsLive
<1>3. now < expiresAt /\ now \in Nat /\ expiresAt \in Int
  BY DEF IInv, TypeOK, CacheIsLive
<1> QED
  BY <1>1, <1>2, <1>3, ApiAssumption

\* So does one that goes out with a token that has just come.
LEMMA NewTokenLasts ==
    ASSUME IInv, NEW x \in Parties, auths[x].pending, auths[x].token # NoToken
    PROVE  /\ auths[x].token \in Tokens
           /\ now <= issued[auths[x].token] + Timeout
           /\ now + Timeout < issued[auths[x].token] + Lifetime
<1>1. AuthInTime(auths[x]) /\ auths[x] \in Auths
  BY DEF IInv, TimeInv, TypeOK, Parties
<1>2. auths[x].token \in Tokens /\ auths[x].since <= issued[auths[x].token]
  BY <1>1 DEF AuthInTime
<1>3. issued[auths[x].token] \in Nat
  BY <1>2, TokenNumbers DEF IInv
<1>4. now \in Nat /\ auths[x].since \in Nat /\ now <= auths[x].since + Timeout
  BY <1>1 DEF AuthInTime, Auths, IInv, TypeOK
<1> QED
  BY <1>2, <1>3, <1>4, ApiAssumption

-----------------------------------------------------------------------------
LEMMA RequestKeepsInvariant ==
    ASSUME IInv, NEW s \in Senders, Request(s)
    PROVE  IInv'
<1> USE DEF IInv
<1>1. CASE CacheIsLive
  <2>1. accessToken \in Tokens /\ accessToken \in Nat \ {0}
        /\ now + Timeout < issued[accessToken] + Lifetime
    BY <1>1, CachedTokenLasts, TokenNumbers
  <2> DEFINE r == Sent(Idle, accessToken)
  <2>2. /\ r \in Requests /\ r.at = "sent" /\ r.token = accessToken
        /\ r.since = now /\ r.answer = "none" /\ r.refused = NoToken
    BY <2>1, SentFields, IdleFields
  <2>3. requests' = [requests EXCEPT ![s] = r]
        /\ UNCHANGED <<now, accessToken, expiresAt, auths, issued, revoked>>
    BY <1>1 DEF Request, api
  <2> HIDE DEF r
  <2>4. \A q \in Senders : requests'[q] = IF q = s THEN r ELSE requests[q]
    BY <2>3 DEF TypeOK
  <2>5. TypeOK'
    BY <2>1, <2>2, <2>3, <2>4 DEF TypeOK, Tokens
  <2>6. TimeInv'
    BY <2>1, <2>2, <2>3, <2>4, ApiAssumption DEF TimeInv, TypeOK, AuthInTime,
       CacheInTime, RequestInTime, Tokens
  <2>7. RetryInv'
    <3> SUFFICES ASSUME NEW q \in Senders
                 PROVE  /\ requests'[q].refused \in 0..Len(issued)
                        /\ requests'[q].at = "waiting" => requests'[q].refused = NoToken
                        /\ requests'[q].at = "sent" =>
                               requests'[q].token > requests'[q].refused
                        /\ auths[q].pending /\ auths[q].token # NoToken =>
                               auths[q].token > requests'[q].refused
      BY <2>3 DEF RetryInv
    <3>1. CASE q # s
      BY <2>4, <3>1 DEF RetryInv
    <3>2. CASE q = s
      <4>1. requests'[q] = r
        BY <2>4, <3>2
      <4>2. auths[q].token \in Nat /\ Len(issued) \in Nat
        BY TokenNumbers DEF TypeOK, Auths
      <4> QED
        BY <2>1, <2>2, <4>1, <4>2 DEF NoToken
    <3> QED
      BY <3>1, <3>2
  <2> QED
    BY <2>5, <2>6, <2>7
<1>2. CASE ~CacheIsLive
  <2> DEFINE r == [Idle EXCEPT !.at = "waiting"]
  <2>1. r \in Requests /\ r.at = "waiting" /\ r.refused = NoToken
    BY IdleFields
  <2>2. requests' = [requests EXCEPT ![s] = r]
        /\ UNCHANGED <<now, accessToken, expiresAt, issued, revoked>>
    BY <1>2 DEF Request, api
  <2> HIDE DEF r
  <2>3. \A q \in Senders : requests'[q] = IF q = s THEN r ELSE requests[q]
    BY <2>2 DEF TypeOK
  <2>4. /\ auths' \in [Parties -> Auths]
        /\ \A x \in Parties : auths'[x] \in {auths[x], Asking}
        /\ \A q \in Senders : auths'[q] = auths[q]
    <3>1. auths' = auths \/ auths' = [auths EXCEPT ![Shared] = Asking]
      BY <1>2 DEF Request
    <3>2. auths \in [Parties -> Auths] /\ Shared \in Parties /\ Shared \notin Senders
      BY ApiAssumption DEF TypeOK, Parties
    <3>3. Asking \in Auths
      BY AskingFields
    <3> HIDE DEF IInv
    <3> QED
      BY <3>1, <3>2, <3>3 DEF Parties
  <2>5. TypeOK'
    BY <2>1, <2>2, <2>3, <2>4 DEF TypeOK, Tokens, Parties
  <2>6. \A x \in Parties : AuthInTime(auths[x])'
    BY <2>2, <2>4, AskingFields, ApiAssumption DEF TimeInv, AuthInTime, TypeOK, Tokens
  <2>7. TimeInv'
    BY <2>1, <2>2, <2>3, <2>6 DEF TimeInv, CacheInTime, RequestInTime, Tokens
  <2>8. RetryInv'
    BY <2>1, <2>2, <2>3, <2>4, TokenNumbers DEF RetryInv, NoToken, TypeOK, Auths,
       Parties
  <2> QED
    BY <2>5, <2>7, <2>8
<1> QED
  BY <1>1, <1>2

\* What an authentication leaves when it ends, one way or the other.
LEMMA AuthEndsKeepsInvariant ==
    ASSUME IInv, NEW x \in Parties, AuthEnds(x)
    PROVE  IInv'
<1> USE DEF IInv
<1> DEFINE t == auths[x].token
<1>1. /\ t \in Tokens /\ t \in Nat \ {0} /\ issued[t] \in Nat
      /\ now <= issued[t] + Timeout
      /\ now + Timeout < issued[t] + Lifetime
  BY NewTokenLasts, TokenNumbers DEF AuthEnds
<1>2. /\ accessToken' = t /\ expiresAt' = now + Lifetime - Margin
      /\ auths' = [auths EXCEPT ![x] = NoAuth]
      /\ UNCHANGED <<now, issued, revoked>>
  BY DEF AuthEnds, Expiry, api
<1>3. \A s \in Senders : requests'[s] = IF s \in Awaiting(x) THEN Sent(requests[s], t)
                                        ELSE requests[s]
  BY DEF AuthEnds
<1>4. \A s \in Awaiting(x) : requests[s].refused < t
  <2> SUFFICES ASSUME NEW s \in Awaiting(x)
               PROVE  requests[s].refused < t
    OBVIOUS
  <2>1. s \in Senders
    BY DEF Awaiting
  <2>2. CASE x = Shared
    BY <1>1, <2>1, <2>2 DEF Awaiting, RetryInv, NoToken
  <2>3. CASE x # Shared
    <3>1. s = x /\ auths[s].pending /\ auths[s].token # NoToken
      BY <2>3 DEF Awaiting, AuthEnds
    <3>2. auths[s].token > requests[s].refused
      BY <2>1, <3>1 DEF RetryInv
    <3> QED
      BY <3>1, <3>2
  <2> QED
    BY <2>2, <2>3
<1>5. \A y \in Parties : auths'[y] \in {auths[y], NoAuth}
  BY <1>2 DEF TypeOK, Parties
<1>6. \A s \in Awaiting(x) :
         /\ Sent(requests[s], t) \in Requests
         /\ Sent(requests[s], t).at = "sent" /\ Sent(requests[s], t).token = t
         /\ Sent(requests[s], t).since = now /\ Sent(requests[s], t).answer = "none"
         /\ Sent(requests[s], t).refused = requests[s].refused
  <2> TAKE s \in Awaiting(x)
  <2>1. requests[s] \in Requests /\ t \in Nat
    BY <1>1 DEF TypeOK, Awaiting
  <2> QED
    BY <2>1, SentFields
<1> HIDE DEF t
<1>7. TypeOK'
  <2>1. requests' \in [Senders -> Requests]
    BY <1>3, <1>6 DEF TypeOK, AuthEnds
  <2>2. \A s \in Senders : requests'[s].at = "sent" => requests'[s].token \in Tokens'
    BY <1>1, <1>2, <1>3, <1>6 DEF TypeOK, Tokens
  <2>3. auths' \in [Senders \cup {Shared} -> Auths]
    BY <1>2, IdleFields DEF TypeOK
  <2> QED
    BY <1>1, <1>2, <2>1, <2>2, <2>3, ApiAssumption DEF TypeOK, Tokens
<1>8. TimeInv'
  <2>1. \A y \in Parties : AuthInTime(auths[y])'
    BY <1>2, <1>5, IdleFields DEF TimeInv, AuthInTime, Tokens
  <2>2. CacheInTime'
    BY <1>1, <1>2, ApiAssumption DEF CacheInTime, Tokens, TypeOK
  <2>3. \A s \in Senders : RequestInTime(requests[s])'
    <3> TAKE s \in Senders
    <3>1. CASE s \in Awaiting(x)
      <4>1. /\ requests'[s].token = t /\ requests'[s].since = now
            /\ requests'[s].answer = "none"
        BY <1>3, <1>6, <3>1
      <4>2. now <= now /\ now <= now + Timeout
        BY ApiAssumption DEF TypeOK
      <4> QED
        BY <1>1, <1>2, <4>1, <4>2 DEF RequestInTime
    <3>2. CASE s \notin Awaiting(x)
      BY <1>2, <1>3, <3>2 DEF RequestInTime, TimeInv
    <3> QED
      BY <3>1, <3>2
  <2> QED
    BY <2>1, <2>2, <2>3 DEF TimeInv
<1>9. RetryInv'
  <2> SUFFICES ASSUME NEW s \in Senders
               PROVE  /\ requests'[s].refused \in 0..Len(issued')
                      /\ requests'[s].at = "waiting" => requests'[s].refused = NoToken
                      /\ requests'[s].at = "sent" =>
                             requests'[s].token > requests'[s].refused
                      /\ auths'[s].pending /\ auths'[s].token # NoToken =>
                             auths'[s].token > requests'[s].refused
    BY DEF RetryInv
  <2>1. requests'[s].refused = requests[s].refused
    BY <1>3, <1>6
  <2>2. auths'[s] \in {auths[s], NoAuth}
    BY <1>5 DEF Parties
  <2>3. requests'[s].at = "sent" => requests'[s].token > requests'[s].refused
    <3>1. CASE s \in Awaiting(x)
      <4>1. requests'[s].token = t /\ requests[s].refused < t
        BY <1>3, <1>4, <1>6, <3>1
      <4>2. requests[s].refused \in Int /\ t \in Int
        BY <1>1, TokenNumbers DEF RetryInv
      <4> QED
        BY <2>1, <4>1, <4>2
    <3>2. CASE s \notin Awaiting(x)
      BY <1>3, <3>2 DEF RetryInv
    <3> QED
      BY <3>1, <3>2
  <2> QED
    BY <1>2, <1>3, <1>6, <2>1, <2>2, <2>3, IdleFields DEF RetryInv
<1> QED
  BY <1>7, <1>8, <1>9

\* Requests may go idle, and authentications end, without a trace.
LEMMA GivingUpKeepsInvariant ==
    ASSUME IInv, UNCHANGED <<now, accessToken, expiresAt, issued, revoked>>,
           auths' \in [Parties -> Auths], requests' \in [Senders -> Requests],
           \A x \in Parties : auths'[x] \in {auths[x], NoAuth},
           \A s \in Senders : requests'[s] \in {requests[s], Idle}
    PROVE  IInv'
<1> USE DEF IInv
<1>1. /\ Idle.at = "idle" /\ Idle.refused = NoToken /\ NoToken = 0
      /\ ~NoAuth.pending /\ 0 \in 0..Len(issued)
  BY IdleFields, TokenNumbers DEF NoToken
<1>2. TypeOK'
  BY <1>1 DEF TypeOK, Tokens, Parties
<1>3. TimeInv'
  BY <1>1 DEF TimeInv, AuthInTime, CacheInTime, RequestInTime, Tokens
<1>4. RetryInv'
  <2> SUFFICES ASSUME NEW s \in Senders
               PROVE  /\ requests'[s].refused \in 0..Len(issued)
                      /\ requests'[s].at = "waiting" => requests'[s].refused = NoToken
                      /\ requests'[s].at = "sent" =>
                             requests'[s].token > requests'[s].refused
                      /\ auths'[s].pending /\ auths'[s].token # NoToken =>
                             auths'[s].token > requests'[s].refused
    BY DEF RetryInv
  <2>1. auths'[s] \in {auths[s], NoAuth} /\ auths[s].token \in Nat
    BY DEF Parties, TypeOK, Auths
  <2>2. CASE requests'[s] = requests[s]
    BY <1>1, <2>1, <2>2 DEF RetryInv
  <2>3. CASE requests'[s] = Idle
    BY <1>1, <2>1, <2>3 DEF RetryInv
  <2> QED
    BY <2>2, <2>3
<1> QED
  BY <1>2, <1>3, <1>4

LEMMA AuthFailsKeepsInvariant ==
    ASSUME IInv, NEW x \in Parties, AuthFails(x)
    PROVE  IInv'
<1>1. auths' = [auths EXCEPT ![x] = NoAuth] /\ auths \in [Parties -> Auths]
  BY DEF AuthFails, IInv, TypeOK, Parties
<1>2. /\ \A s \in Senders : requests'[s] \in {requests[s], Idle}
      /\ requests' \in [Senders -> Requests]
  BY IdleFields DEF AuthFails, IInv, TypeOK
<1>3. UNCHANGED <<now, accessToken, expiresAt, issued, revoked>>
  BY DEF AuthFails, api
<1>4. /\ \A y \in Parties : auths'[y] \in {auths[y], NoAuth}
      /\ auths' \in [Parties -> Auths]
  BY <1>1, IdleFields
<1> QED
  BY <1>2, <1>3, <1>4, GivingUpKeepsInvariant

LEMMA EndKeepsInvariant ==
    ASSUME IInv, NEW s \in Senders, Ends(s) \/ Aborts(s)
    PROVE  IInv'
<1>1. requests' = [requests EXCEPT ![s] = Idle]
      /\ UNCHANGED <<now, accessToken, expiresAt, auths, issued, revoked>>
  BY DEF Ends, Aborts, api
<1>2. /\ \A q \in Senders : requests'[q] \in {requests[q], Idle}
      /\ requests' \in [Senders -> Requests]
  BY <1>1, IdleFields DEF IInv, TypeOK
<1>3. auths' = auths /\ auths \in [Parties -> Auths]
  BY <1>1 DEF IInv, TypeOK, Parties
<1> QED
  BY <1>1, <1>2, <1>3, GivingUpKeepsInvariant

LEMMA RenewKeepsInvariant ==
    ASSUME IInv, NEW s \in Senders, Renews(s)
    PROVE  IInv'
<1> USE DEF IInv
<1> DEFINE r == [requests[s] EXCEPT !.at = "renewing", !.refused = requests[s].token]
<1>1. /\ requests' = [requests EXCEPT ![s] = r]
      /\ auths' = [auths EXCEPT ![s] = Asking]
      /\ UNCHANGED <<now, accessToken, expiresAt, issued, revoked>>
  BY DEF Renews, api, TypeOK, Requests
<1>2. requests[s] \in Requests /\ requests[s].token \in Tokens
  BY DEF Renews, Answered, TypeOK
<1>3. r \in Requests /\ r.at = "renewing" /\ r.refused \in 0..Len(issued)
  <2>1. requests[s].token \in Nat /\ requests[s].token \in 0..Len(issued)
    BY <1>2, TokenNumbers
  <2>2. /\ r.at = "renewing" /\ r.refused = requests[s].token
        /\ r \in Requests
    BY <1>2, <2>1 DEF Requests
  <2> QED
    BY <2>1, <2>2
<1> HIDE DEF r
<1>4. \A q \in Senders : requests'[q] = IF q = s THEN r ELSE requests[q]
  BY <1>1 DEF TypeOK
<1>5. /\ \A x \in Parties : auths'[x] = IF x = s THEN Asking ELSE auths[x]
      /\ auths' \in [Parties -> Auths]
  BY <1>1, AskingFields DEF TypeOK, Parties
<1>6. TypeOK'
  BY <1>1, <1>3, <1>4, <1>5 DEF TypeOK, Tokens, Parties
<1>7. TimeInv'
  <2>1. now <= now /\ now <= now + Timeout
    BY ApiAssumption DEF TypeOK
  <2>2. \A x \in Parties : AuthInTime(auths[x])'
    BY <1>1, <1>5, <2>1, AskingFields DEF TimeInv, AuthInTime, Tokens
  <2> QED
    BY <1>1, <1>3, <1>4, <2>2 DEF TimeInv, CacheInTime, RequestInTime, Tokens
<1>8. RetryInv'
  BY <1>1, <1>3, <1>4, <1>5, AskingFields DEF RetryInv, Parties
<1> QED
  BY <1>6, <1>7, <1>8

LEMMA IssueKeepsInvariant ==
    ASSUME IInv, NEW x \in Parties, Issue(x)
    PROVE  IInv'
<1> USE DEF IInv
<1> DEFINE a == [auths[x] EXCEPT !.token = Len(issued) + 1]
<1>1. /\ issued' = Append(issued, now)
      /\ auths' = [auths EXCEPT ![x] = a]
      /\ UNCHANGED <<now, accessToken, expiresAt, requests, revoked>>
  BY DEF Issue, TypeOK, Auths, Parties
<1>2. /\ Len(issued') = Len(issued) + 1 /\ Tokens' = 1..(Len(issued) + 1)
      /\ issued' \in Seq(Nat) /\ issued'[Len(issued) + 1] = now
      /\ \A t \in Tokens : t \in Tokens' /\ issued'[t] = issued[t]
      /\ Len(issued) \in Nat
  BY <1>1 DEF TypeOK, Tokens
<1>3. /\ auths[x] \in Auths /\ auths[x].pending
      /\ auths[x].since <= now /\ now <= auths[x].since + Timeout
  BY DEF Issue, TypeOK, TimeInv, AuthInTime, Parties
<1>4. /\ a \in Auths /\ a.pending /\ a.since = auths[x].since
      /\ a.token = Len(issued) + 1
  BY <1>2, <1>3 DEF Auths
<1> HIDE DEF a
<1>5. /\ \A y \in Parties : auths'[y] = IF y = x THEN a ELSE auths[y]
      /\ auths' \in [Parties -> Auths]
  BY <1>1, <1>4 DEF TypeOK, Parties
<1>6. TypeOK'
  BY <1>1, <1>2, <1>5 DEF TypeOK, Parties
<1>7. TimeInv'
  <2>1. \A y \in Parties : AuthInTime(auths[y])'
    <3> SUFFICES ASSUME NEW y \in Parties
                 PROVE  AuthInTime(auths[y])'
      OBVIOUS
    <3>1. CASE y = x
      BY <1>1, <1>2, <1>3, <1>4, <1>5, <3>1 DEF AuthInTime
    <3>2. CASE y # x
      BY <1>1, <1>2, <1>5, <3>2 DEF AuthInTime, TimeInv
    <3> QED
      BY <3>1, <3>2
  <2>2. CacheInTime'
    BY <1>1, <1>2 DEF CacheInTime, TimeInv
  <2>3. \A s \in Senders : RequestInTime(requests[s])'
    BY <1>1, <1>2 DEF RequestInTime, TimeInv, TypeOK
  <2> QED
    BY <2>1, <2>2, <2>3 DEF TimeInv
<1>8. RetryInv'
  BY <1>1, <1>2, <1>4, <1>5 DEF RetryInv, Parties
<1> QED
  BY <1>6, <1>7, <1>8

LEMMA AnswerKeepsInvariant ==
    ASSUME IInv, NEW s \in Senders, Answer(s)
    PROVE  IInv'
<1> USE DEF IInv
<1>1. PICK answer \in IF Valid(requests[s].token) THEN {"ok", "error"} ELSE {"401"} :
          requests' = [requests EXCEPT ![s].answer = answer]
  BY DEF Answer
<1>2. UNCHANGED <<now, accessToken, expiresAt, auths, issued, revoked>>
  BY DEF Answer, api
<1>3. requests[s] \in Requests /\ requests[s].at = "sent"
  BY DEF Answer, Answered, TypeOK
<1>4. \A q \in Senders :
         /\ requests'[q].at = requests[q].at /\ requests'[q].token = requests[q].token
         /\ requests'[q].since = requests[q].since
         /\ requests'[q].refused = requests[q].refused
         /\ requests'[q].answer = IF q = s THEN answer ELSE requests[q].answer
  BY <1>1, <1>3 DEF TypeOK, Requests
<1>5. requests' \in [Senders -> Requests]
  BY <1>1, <1>3 DEF TypeOK, Requests
<1>6. TypeOK'
  BY <1>2, <1>4, <1>5 DEF TypeOK, Tokens
<1>7. answer = "401" => requests[s].token \in revoked
  <2>1. /\ requests[s].token \in Tokens /\ requests[s].since \in Nat
        /\ now <= requests[s].since + Timeout
        /\ requests[s].since + Timeout < issued[requests[s].token] + Lifetime
    BY <1>3 DEF TypeOK, TimeInv, RequestInTime, Requests
  <2>2. now < issued[requests[s].token] + Lifetime
    BY <2>1, TokenNumbers, ApiAssumption DEF TypeOK
  <2> QED
    BY <1>1, <2>2 DEF Valid
<1>8. TimeInv'
  <2>1. \A q \in Senders : RequestInTime(requests[q])'
    BY <1>2, <1>4, <1>7 DEF RequestInTime, TimeInv
  <2> QED
    BY <1>2, <2>1 DEF TimeInv, AuthInTime, CacheInTime, Tokens
<1>9. RetryInv'
  BY <1>2, <1>4 DEF RetryInv
<1> QED
  BY <1>6, <1>8, <1>9

LEMMA RevokeKeepsInvariant ==
    ASSUME IInv, Revoke
    PROVE  IInv'
<1>1. revoked \subseteq revoked' /\ revoked' = Tokens
      /\ UNCHANGED <<now, accessToken, expiresAt, auths, requests, issued>>
  BY DEF IInv, TypeOK, Revoke, client
<1>2. TypeOK'
  BY <1>1 DEF IInv, TypeOK, Tokens
<1>3. TimeInv'
  BY <1>1 DEF IInv, TimeInv, AuthInTime, CacheInTime, RequestInTime, Tokens
<1> QED
  BY <1>1, <1>2, <1>3 DEF IInv, RetryInv

LEMMA TickKeepsInvariant ==
    ASSUME IInv, Tick
    PROVE  IInv'
<1> USE DEF IInv
<1>1. now' = now + 1 /\ now \in Nat
      /\ UNCHANGED <<accessToken, expiresAt, auths, requests, issued, revoked>>
  BY DEF TypeOK, Tick, client, api
<1>2. TypeOK'
  BY <1>1 DEF TypeOK, Tokens
<1>3. \A x \in Parties : AuthInTime(auths[x])'
  <2> SUFFICES ASSUME NEW x \in Parties, auths[x].pending
               PROVE  /\ auths[x].since <= now + 1 /\ now + 1 <= auths[x].since + Timeout
                      /\ auths[x].token # NoToken => /\ auths[x].token \in Tokens
                                                    /\ auths[x].since <= issued[auths[x].token]
    BY <1>1 DEF AuthInTime, Tokens
  <2>1. now < auths[x].since + Timeout /\ auths[x].since \in Nat
    BY DEF Tick, TypeOK, Parties, Auths
  <2> QED
    BY <1>1, <2>1, ApiAssumption DEF TimeInv, AuthInTime
<1>4. \A s \in Senders : RequestInTime(requests[s])'
  <2> SUFFICES ASSUME NEW s \in Senders, requests[s].at = "sent"
               PROVE  /\ requests[s].since <= now + 1
                      /\ now + 1 <= requests[s].since + Timeout
                      /\ requests[s].since + Timeout < issued[requests[s].token] + Lifetime
                      /\ requests[s].answer = "401" => requests[s].token \in revoked
    BY <1>1 DEF RequestInTime
  <2>1. now < requests[s].since + Timeout /\ requests[s].since \in Nat
    BY DEF Tick, TypeOK, Requests
  <2> QED
    BY <1>1, <2>1, ApiAssumption DEF TimeInv, RequestInTime
<1>5. CacheInTime' /\ RetryInv'
  BY <1>1 DEF TimeInv, CacheInTime, RetryInv, Tokens
<1> QED
  BY <1>2, <1>3, <1>4, <1>5 DEF TimeInv

-----------------------------------------------------------------------------
LEMMA InitInvariant == Init => IInv
<1> SUFFICES ASSUME Init PROVE IInv
  OBVIOUS
<1>1. TypeOK
  BY IdleFields DEF Init, TypeOK, NoToken, Tokens
<1>2. TimeInv
  BY IdleFields DEF Init, TimeInv, AuthInTime, CacheInTime, RequestInTime, Parties
<1>3. RetryInv
  <2>1. \A s \in Senders : requests[s] = Idle /\ auths[s] = NoAuth
    BY DEF Init
  <2>2. NoToken = 0 /\ 0 \in 0..Len(issued)
    BY <1>1, TokenNumbers DEF NoToken
  <2> QED
    BY <2>1, <2>2, IdleFields DEF RetryInv
<1> QED
  BY <1>1, <1>2, <1>3 DEF IInv

LEMMA NextKeepsInvariant == IInv /\ [Next]_vars => IInv'
<1> SUFFICES ASSUME IInv, [Next]_vars PROVE IInv'
  OBVIOUS
<1>1. ASSUME NEW s \in Senders, Request(s) PROVE IInv'
  BY <1>1, RequestKeepsInvariant
<1>2. ASSUME NEW s \in Senders, Renews(s) PROVE IInv'
  BY <1>2, RenewKeepsInvariant
<1>3. ASSUME NEW s \in Senders, Ends(s) \/ Aborts(s) PROVE IInv'
  BY <1>3, EndKeepsInvariant
<1>4. ASSUME NEW s \in Senders, Answer(s) PROVE IInv'
  BY <1>4, AnswerKeepsInvariant
<1>5. ASSUME NEW x \in Parties, Issue(x) PROVE IInv'
  BY <1>5, IssueKeepsInvariant
<1>6. ASSUME NEW x \in Parties, AuthEnds(x) PROVE IInv'
  BY <1>6, AuthEndsKeepsInvariant
<1>7. ASSUME NEW x \in Parties, AuthFails(x) PROVE IInv'
  BY <1>7, AuthFailsKeepsInvariant
<1>8. CASE Revoke
  BY <1>8, RevokeKeepsInvariant
<1>9. CASE Tick
  BY <1>9, TickKeepsInvariant
<1>10. CASE UNCHANGED vars
  BY <1>10 DEF vars, client, api, IInv, TypeOK, TimeInv, RetryInv, AuthInTime,
     CacheInTime, RequestInTime, Tokens
<1> QED
  BY <1>1, <1>2, <1>3, <1>4, <1>5, <1>6, <1>7, <1>8, <1>9, <1>10 DEF Next, Parties

-----------------------------------------------------------------------------
\* Requests and tokens keep in time with one another.
THEOREM Invariant == Spec => []IInv
BY InitInvariant, NextKeepsInvariant, PTL DEF Spec

\* Type correctness; what is sent carries a token that was issued.
THEOREM TypeCorrect == Spec => []TypeOK
<1>1. IInv => TypeOK
  BY DEF IInv
<1> QED
  BY <1>1, Invariant, PTL

\* If the margin is at least twice the timeout, the API never refuses a request
\* because its token has ended.
THEOREM TokensOutliveRequests == Spec => []RefusedOnlyIfRevoked
<1>1. IInv => RefusedOnlyIfRevoked
  BY DEF IInv, TimeInv, RequestInTime, RefusedOnlyIfRevoked, Answered
<1> QED
  BY <1>1, Invariant, PTL

\* A retry never carries the token that was refused, or an older one.
THEOREM RetriesAreNewer == Spec => []RetryIsNewer
<1>1. IInv => RetryIsNewer
  BY DEF IInv, RetryInv, RetryIsNewer
<1> QED
  BY <1>1, Invariant, PTL

-----------------------------------------------------------------------------
(***************************************************************************)
(* What the liveness of requests rests on                                  *)
(***************************************************************************)

\* A request waits only for an authentication that is under way, and only the
\* request after a 401 has an authentication of its own.
AuthIsPending ==
    \A s \in Senders :
        /\ requests[s].at = "waiting" =>
               auths[Shared].pending /\ requests[s].refused = NoToken
        /\ requests[s].at = "renewing" <=> auths[s].pending
        /\ requests[s].at = "renewing" => requests[s].refused # NoToken

\* A request waits, is sent, authenticates again, is sent again, and is over.
Stage(r) ==
    CASE r.at = "waiting"  -> 4
      [] r.at = "sent"     -> IF r.refused = NoToken THEN 3 ELSE 1
      [] r.at = "renewing" -> 2
      [] r.at = "idle"     -> 0

\* No step takes a request back: it goes on to a later stage, or keeps all it has
\* but the answer.
RequestsAdvance ==
    [][\A s \in Senders :
          requests[s].at # "idle" =>
             \/ Stage(requests'[s]) < Stage(requests[s])
             \/ requests'[s] = [requests[s] EXCEPT !.answer = requests'[s].answer]]_vars

\* What s waits for is under way, and what is under way has time left: there is
\* always a step that ends this stage of s, until it has ended.
StageHasAnEnd ==
    \A s \in Senders :
        /\ requests[s].at = "waiting" =>
               auths[Shared].pending /\ now <= auths[Shared].since + Timeout
        /\ requests[s].at = "renewing" =>
               auths[s].pending /\ now <= auths[s].since + Timeout
        /\ requests[s].at = "sent" => now <= requests[s].since + Timeout

\* The same request, but for its answer.
SameRequest(r, q) == q = [r EXCEPT !.answer = q.answer]

LEMMA SameFields ==
    ASSUME NEW r \in Requests, NEW q \in Requests, SameRequest(r, q)
    PROVE  q.at = r.at /\ q.refused = r.refused
BY DEF SameRequest, Requests

LEMMA UnchangedIsSame ==
    ASSUME NEW r \in Requests
    PROVE  SameRequest(r, r)
BY DEF SameRequest, Requests

\* How one request and its own authentication change in a step: they do not, or
\* the request begins, is sent, is refused, or ends.
Moves(s, r, q) ==
    \/ SameRequest(r, q) /\ auths'[s].pending = auths[s].pending
    \/ /\ r.at = "idle" /\ q.refused = NoToken
       /\ \/ q.at = "sent"
          \/ q.at = "waiting" /\ auths'[Shared].pending
       /\ auths'[s].pending = auths[s].pending
    \/ /\ r.at \in {"waiting", "renewing"} /\ q.at = "sent" /\ q.refused = r.refused
       /\ ~auths'[s].pending
    \/ /\ r.at = "sent" /\ r.refused = NoToken
       /\ q.at = "renewing" /\ q.refused # NoToken
       /\ auths'[s].pending
    \/ /\ r.at # "idle" /\ q.at = "idle"
       /\ ~auths'[s].pending

\* The shared authentication goes on, unless the step ends it for all that wait.
SharedMoves ==
    auths[Shared].pending => \/ auths'[Shared].pending
                             \/ \A s \in Senders : requests'[s].at # "waiting"

LEMMA OneRequestMoves ==
    ASSUME IInv, AuthIsPending, NEW s \in Senders,
           Request(s) \/ Renews(s) \/ Ends(s) \/ Aborts(s) \/ Answer(s)
    PROVE  SharedMoves /\ \A u \in Senders : Moves(u, requests[u], requests'[u])
<1>1. /\ requests \in [Senders -> Requests] /\ auths \in [Parties -> Auths]
      /\ s \in Parties /\ Shared \in Parties /\ s # Shared
  BY ApiAssumption DEF IInv, TypeOK, Parties
<1>2. \A u \in Senders : SameRequest(requests[u], requests[u])
  BY <1>1, UnchangedIsSame
<1>3. ASSUME SharedMoves, Moves(s, requests[s], requests'[s]),
             \A u \in Senders \ {s} :
                requests'[u] = requests[u] /\ auths'[u].pending = auths[u].pending
      PROVE  SharedMoves /\ \A u \in Senders : Moves(u, requests[u], requests'[u])
  BY <1>2, <1>3 DEF Moves
<1>4. CASE Request(s) /\ CacheIsLive
  <2>1. requests' = [requests EXCEPT ![s] = Sent(Idle, accessToken)] /\ auths' = auths
    BY <1>4 DEF Request
  <2>2. Sent(Idle, accessToken).at = "sent" /\ Sent(Idle, accessToken).refused = NoToken
    BY SentFields, IdleFields DEF IInv, TypeOK
  <2>3. Moves(s, requests[s], requests'[s]) /\ SharedMoves
    BY <1>1, <1>4, <2>1, <2>2 DEF Moves, SharedMoves, Request
  <2> QED
    BY <1>1, <1>3, <2>1, <2>3
<1>5. CASE Request(s) /\ ~CacheIsLive
  <2>1. requests' = [requests EXCEPT ![s] = [Idle EXCEPT !.at = "waiting"]]
    BY <1>5 DEF Request
  <2>2. /\ auths'[Shared].pending
        /\ \A u \in Senders : auths'[u] = auths[u]
    <3>1. CASE auths[Shared].pending
      BY <1>5, <3>1 DEF Request
    <3>2. CASE ~auths[Shared].pending
      <4>1. auths' = [auths EXCEPT ![Shared] = Asking] /\ Asking.pending
        BY <1>5, <3>2, AskingFields DEF Request, IInv
      <4> QED
        BY <1>1, <4>1, ApiAssumption DEF Parties
    <3> QED
      BY <3>1, <3>2
  <2>3. Moves(s, requests[s], requests'[s]) /\ SharedMoves
    BY <1>1, <1>5, <2>1, <2>2, IdleFields DEF Moves, SharedMoves, Request
  <2> QED
    BY <1>1, <1>3, <2>1, <2>2, <2>3
<1>6. CASE Renews(s)
  <2>1. /\ requests[s].at = "sent" /\ requests[s].refused = NoToken
        /\ requests' = [requests EXCEPT ![s].at = "renewing",
                                        ![s].refused = requests[s].token]
        /\ auths' = [auths EXCEPT ![s] = Asking] /\ Asking.pending
    BY <1>6, AskingFields DEF Renews, Answered, IInv
  <2>2. requests[s].token # NoToken
    BY <1>1, <2>1, TokenNumbers DEF IInv, TypeOK, NoToken
  <2>3. requests'[s].at = "renewing" /\ requests'[s].refused = requests[s].token
    BY <1>1, <2>1 DEF Requests
  <2>4. auths'[s].pending /\ auths'[Shared] = auths[Shared]
    BY <1>1, <2>1
  <2>5. Moves(s, requests[s], requests'[s])
    BY <2>1, <2>2, <2>3, <2>4 DEF Moves
  <2>6. SharedMoves
    BY <2>4 DEF SharedMoves
  <2> QED
    BY <1>1, <1>3, <2>1, <2>5, <2>6 DEF Parties
<1>7. CASE Ends(s) \/ Aborts(s)
  <2>1. /\ requests[s].at = "sent" /\ auths' = auths
        /\ requests' = [requests EXCEPT ![s] = Idle]
    BY <1>7 DEF Ends, Aborts, Answered
  <2>2. ~auths[s].pending
    BY <2>1 DEF AuthIsPending
  <2>3. Moves(s, requests[s], requests'[s]) /\ SharedMoves
    BY <1>1, <2>1, <2>2, IdleFields DEF Moves, SharedMoves
  <2> QED
    BY <1>1, <1>3, <2>1, <2>3
<1>8. CASE Answer(s)
  <2>1. PICK answer : requests' = [requests EXCEPT ![s].answer = answer]
    BY <1>8 DEF Answer
  <2>2. auths' = auths
    BY <1>8 DEF Answer
  <2>3. SameRequest(requests[s], requests'[s])
    BY <1>1, <2>1 DEF SameRequest, Requests
  <2>4. Moves(s, requests[s], requests'[s]) /\ SharedMoves
    BY <2>2, <2>3 DEF Moves, SharedMoves
  <2> QED
    BY <1>1, <1>3, <2>1, <2>2, <2>4
<1> QED
  BY <1>4, <1>5, <1>6, <1>7, <1>8

LEMMA AuthenticationMoves ==
    ASSUME IInv, AuthIsPending, NEW x \in Parties, AuthEnds(x) \/ AuthFails(x)
    PROVE  SharedMoves /\ \A u \in Senders : Moves(u, requests[u], requests'[u])
<1>1. /\ requests \in [Senders -> Requests] /\ auths \in [Parties -> Auths]
      /\ Shared \in Parties /\ Shared \notin Senders /\ Senders \subseteq Parties
  BY ApiAssumption DEF IInv, TypeOK, Parties
<1>2. auths[x].pending /\ auths' = [auths EXCEPT ![x] = NoAuth] /\ ~NoAuth.pending
  BY IdleFields DEF AuthEnds, AuthFails
<1>3. \A u \in Senders \ Awaiting(x) : requests'[u] = requests[u]
  BY DEF AuthEnds, AuthFails
<1>4. \A u \in Awaiting(x) :
         \/ requests'[u].at = "idle"
         \/ requests'[u].at = "sent" /\ requests'[u].refused = requests[u].refused
  <2> TAKE u \in Awaiting(x)
  <2>1. u \in Senders
    BY DEF Awaiting
  <2>2. CASE AuthFails(x)
    BY <2>1, <2>2, IdleFields DEF AuthFails
  <2>3. CASE AuthEnds(x)
    <3>1. auths[x].token \in Nat /\ requests[u] \in Requests
      BY <1>1, <2>1 DEF Auths
    <3>2. requests'[u] = Sent(requests[u], auths[x].token)
      BY <2>1, <2>3 DEF AuthEnds
    <3> QED
      BY <3>1, <3>2, SentFields DEF IInv
  <2> QED
    BY <2>2, <2>3
<1>5. \A u \in Awaiting(x) : /\ requests[u].at \in {"waiting", "renewing"}
                             /\ ~auths'[u].pending
  <2> TAKE u \in Awaiting(x)
  <2>1. u \in Senders
    BY DEF Awaiting
  <2>2. CASE x = Shared
    <3>1. requests[u].at = "waiting" /\ u # x
      BY <1>1, <2>1, <2>2 DEF Awaiting
    <3>2. auths'[u] = auths[u]
      BY <1>1, <1>2, <2>1, <3>1
    <3> QED
      BY <2>1, <3>1, <3>2 DEF AuthIsPending
  <2>3. CASE x # Shared
    <3>1. u = x
      BY <2>3 DEF Awaiting
    <3>2. requests[u].at = "renewing"
      BY <1>2, <2>1, <3>1 DEF AuthIsPending
    <3> QED
      BY <1>1, <1>2, <3>1, <3>2
  <2> QED
    BY <2>2, <2>3
<1>6. \A u \in Senders \ Awaiting(x) : auths'[u] = auths[u]
  BY <1>1, <1>2 DEF Awaiting
<1>7. \A u \in Senders : Moves(u, requests[u], requests'[u])
  <2> TAKE u \in Senders
  <2>1. CASE u \in Awaiting(x)
    BY <1>4, <1>5, <2>1 DEF Moves
  <2>2. CASE u \notin Awaiting(x)
    BY <1>1, <1>3, <1>6, <2>2, UnchangedIsSame DEF Moves
  <2> QED
    BY <2>1, <2>2
<1>8. SharedMoves
  <2>1. CASE x = Shared
    <3>1. \A u \in Senders : requests'[u].at # "waiting"
      BY <1>3, <1>4, <2>1 DEF Awaiting
    <3> QED
      BY <3>1 DEF SharedMoves
  <2>2. CASE x # Shared
    BY <1>1, <1>2, <2>2 DEF SharedMoves
  <2> QED
    BY <2>1, <2>2
<1> QED
  BY <1>7, <1>8

\* The API and the clock leave every request as it is.
LEMMA OutsideMoves ==
    ASSUME IInv, Revoke \/ Tick \/ UNCHANGED vars
                 \/ \E x \in Parties : Issue(x)
    PROVE  SharedMoves /\ \A u \in Senders : Moves(u, requests[u], requests'[u])
<1>1. requests' = requests
  BY DEF Revoke, Tick, Issue, vars, client
<1>2. \A x \in Parties : auths'[x].pending = auths[x].pending
  <2>1. CASE auths' = auths
    BY <2>1
  <2>2. ASSUME NEW x \in Parties, Issue(x)
        PROVE  \A y \in Parties : auths'[y].pending = auths[y].pending
    <3>1. auths' = [auths EXCEPT ![x].token = Len(issued) + 1]
      BY <2>2 DEF Issue
    <3>2. auths \in [Parties -> Auths]
      BY DEF IInv, TypeOK, Parties
    <3>3. auths'[x].pending = auths[x].pending
      BY <3>1, <3>2 DEF Auths
    <3>4. \A y \in Parties \ {x} : auths'[y] = auths[y]
      BY <3>1, <3>2
    <3> QED
      BY <3>3, <3>4
  <2> QED
    BY <2>1, <2>2 DEF Revoke, Tick, vars, client
<1>3. \A u \in Senders : SameRequest(requests[u], requests[u])
  BY UnchangedIsSame DEF IInv, TypeOK
<1> QED
  BY <1>1, <1>2, <1>3 DEF SharedMoves, Moves, Parties

LEMMA StepMoves ==
    ASSUME IInv, AuthIsPending, [Next]_vars
    PROVE  SharedMoves /\ \A u \in Senders : Moves(u, requests[u], requests'[u])
<1>1. CASE \E s \in Senders :
              Request(s) \/ Renews(s) \/ Ends(s) \/ Aborts(s) \/ Answer(s)
  BY <1>1, OneRequestMoves
<1>2. CASE \E x \in Parties : AuthEnds(x) \/ AuthFails(x)
  BY <1>2, AuthenticationMoves
<1>3. CASE Revoke \/ Tick \/ UNCHANGED vars \/ \E x \in Parties : Issue(x)
  BY <1>3, OutsideMoves
<1> QED
  BY <1>1, <1>2, <1>3 DEF Next, Parties

LEMMA InitAuthIsPending == Init => AuthIsPending
<1> SUFFICES ASSUME Init PROVE AuthIsPending
  OBVIOUS
<1>1. \A s \in Senders : requests[s] = Idle /\ auths[s] = NoAuth
  BY DEF Init
<1> QED
  BY <1>1, IdleFields DEF AuthIsPending

LEMMA StepKeepsAuthIsPending ==
    ASSUME IInv, IInv', AuthIsPending, [Next]_vars
    PROVE  AuthIsPending'
<1> SUFFICES ASSUME NEW s \in Senders
             PROVE  /\ requests'[s].at = "waiting" =>
                           auths'[Shared].pending /\ requests'[s].refused = NoToken
                    /\ requests'[s].at = "renewing" <=> auths'[s].pending
                    /\ requests'[s].at = "renewing" => requests'[s].refused # NoToken
  BY DEF AuthIsPending
<1> DEFINE r == requests[s]
           q == requests'[s]
<1>1. r \in Requests /\ q \in Requests
  BY DEF IInv, TypeOK
<1>2. /\ r.at = "waiting" => auths[Shared].pending /\ r.refused = NoToken
      /\ r.at = "renewing" <=> auths[s].pending
      /\ r.at = "renewing" => r.refused # NoToken
  BY DEF AuthIsPending
<1>3. Moves(s, r, q) /\ SharedMoves
  BY StepMoves
<1>4. SameRequest(r, q) => q.at = r.at /\ q.refused = r.refused
  BY <1>1, SameFields
<1>5. auths[Shared].pending => auths'[Shared].pending \/ q.at # "waiting"
  BY <1>3 DEF SharedMoves
<1> HIDE DEF r, q
<1>6. /\ q.at = "waiting" => auths'[Shared].pending /\ q.refused = NoToken
      /\ q.at = "renewing" <=> auths'[s].pending
      /\ q.at = "renewing" => q.refused # NoToken
  BY <1>2, <1>3, <1>4, <1>5 DEF Moves
<1> QED
  BY <1>6 DEF q

\* A move of a request is an advance.
LEMMA MovesAdvance ==
    ASSUME NEW s \in Senders, NEW r \in Requests, NEW q \in Requests, Moves(s, r, q),
           r.at = "waiting" => r.refused = NoToken,
           r.at = "renewing" => r.refused # NoToken,
           r.at # "idle"
    PROVE  Stage(q) < Stage(r) \/ SameRequest(r, q)
<1>1. r.at \in {"waiting", "sent", "renewing"}
  BY DEF Requests
<1>2. CASE r.at \in {"waiting", "renewing"} /\ q.at = "sent" /\ q.refused = r.refused
  BY <1>2 DEF Stage
<1>3. CASE r.at = "sent" /\ r.refused = NoToken /\ q.at = "renewing"
  BY <1>3 DEF Stage
<1>4. CASE q.at = "idle"
  BY <1>1, <1>4 DEF Stage
<1> QED
  BY <1>2, <1>3, <1>4 DEF Moves

-----------------------------------------------------------------------------
\* Nobody waits for what is not under way, and all that is under way is in time:
\* whatever stage a request is in, the clock cannot pass the end of its timeout
\* before the request goes on or is over (authPromise is reset only when all that
\* share it have been told, and a 401 always starts an authentication).
THEOREM NobodyIsStranded == Spec => [](AuthIsPending /\ StageHasAnEnd)
<1>1. IInv /\ IInv' /\ AuthIsPending /\ [Next]_vars => AuthIsPending'
  BY StepKeepsAuthIsPending
<1>2. IInv /\ AuthIsPending => StageHasAnEnd
  BY DEF IInv, AuthIsPending, StageHasAnEnd, TimeInv, AuthInTime, RequestInTime,
     Parties
<1> QED
  BY <1>1, <1>2, InitAuthIsPending, Invariant, PTL DEF Spec

\* A request passes through its stages in order and never returns to one: it waits
\* for one promise, is sent at most twice and authenticates at most once, whatever
\* the other requests do to the promise and the token they share.
THEOREM RequestsOnlyAdvance == Spec => RequestsAdvance
<1>1. IInv /\ IInv' /\ AuthIsPending /\ [Next]_vars =>
         [\A s \in Senders :
             requests[s].at # "idle" =>
                \/ Stage(requests'[s]) < Stage(requests[s])
                \/ requests'[s] = [requests[s] EXCEPT !.answer = requests'[s].answer]]_vars
  <2> SUFFICES ASSUME IInv, IInv', AuthIsPending, [Next]_vars, NEW s \in Senders,
                      requests[s].at # "idle"
               PROVE  \/ Stage(requests'[s]) < Stage(requests[s])
                      \/ SameRequest(requests[s], requests'[s])
    BY DEF SameRequest
  <2>1. requests[s] \in Requests /\ requests'[s] \in Requests
    BY DEF IInv, TypeOK
  <2>2. Moves(s, requests[s], requests'[s])
    BY StepMoves
  <2>3. /\ requests[s].at = "waiting" => requests[s].refused = NoToken
        /\ requests[s].at = "renewing" => requests[s].refused # NoToken
    BY DEF AuthIsPending
  <2> QED
    BY <2>1, <2>2, <2>3, MovesAdvance
<1> QED
  BY <1>1, Invariant, NobodyIsStranded, PTL DEF Spec, RequestsAdvance
=============================================================================
