----------------------------- MODULE ApiClient -----------------------------
(***************************************************************************)
(* The client of the REST API (dispatch/http-client.ts): its cached token, *)
(* the promise that concurrent requests share to renew it, and the one     *)
(* retry after a 401.  The senders are the flush, the retry loop and the   *)
(* bulk service, each with one request at a time.  The API is external: it *)
(* issues tokens that live for a while, and may forget them all.           *)
(***************************************************************************)
EXTENDS Integers, Sequences

CONSTANTS
    Senders,
    Shared,         \* not a sender: the authentication behind authPromise
    Timeout,        \* FETCH_TIMEOUT_MS
    Margin,         \* how long before its end a token is no longer used
    Lifetime,       \* expires_in, as the API tells it
    MaxTokens,      \* bound: tokens issued
    MaxTime         \* bound: the clock

\* The margin is twice the timeout (60 s and 30 s), and the API gives no token so
\* short-lived that it ends on the way to the client and back.
ASSUME ApiAssumption ==
    /\ Shared \notin Senders
    /\ Timeout \in Nat /\ Margin \in Nat /\ Lifetime \in Nat
    /\ MaxTokens \in Nat /\ MaxTime \in Nat
    /\ 2 * Timeout <= Margin
    /\ 2 * Timeout < Lifetime

VARIABLES
    now,            \* Date.now()
    accessToken,    \* NoToken (null), or its number
    expiresAt,
    auths,          \* auths[Shared]: authPromise; auths[s]: that of a 401
    requests,       \* requests[s]: the request of sender s
    issued,         \* external: issued[t] is when token t was issued
    revoked         \* external: tokens the API has forgotten

client == <<accessToken, expiresAt, auths, requests>>
api    == <<issued, revoked>>
vars   == <<now, client, api>>

NoToken == 0
Tokens == DOMAIN issued

\* An authentication; `token` is set once the API has issued it.
Auths == [pending: BOOLEAN, since: Nat, token: Nat]
NoAuth == [pending |-> FALSE, since |-> 0, token |-> NoToken]

\* A request is "waiting" for authPromise, "sent", or "renewing" after a 401 to
\* token `refused`.
Requests == [at: {"idle", "waiting", "sent", "renewing"}, token: Nat, since: Nat,
             answer: {"none", "ok", "error", "401"}, refused: Nat]
Idle == [at |-> "idle", token |-> NoToken, since |-> 0, answer |-> "none",
         refused |-> NoToken]

TypeOK ==
    /\ now \in Nat
    /\ accessToken \in Nat
    /\ expiresAt \in Int
    /\ auths \in [Senders \cup {Shared} -> Auths]
    /\ requests \in [Senders -> Requests]
    /\ \A s \in Senders : requests[s].at = "sent" => requests[s].token \in Tokens
    /\ issued \in Seq(Nat)
    /\ revoked \in SUBSET Tokens

Init ==
    /\ now = 0
    /\ accessToken = NoToken
    /\ expiresAt = 0
    /\ auths = [x \in Senders \cup {Shared} |-> NoAuth]
    /\ requests = [s \in Senders |-> Idle]
    /\ issued = <<>>
    /\ revoked = {}

-----------------------------------------------------------------------------
(***************************************************************************)
(* getToken() and authenticate()                                           *)
(***************************************************************************)
Asking == [pending |-> TRUE, since |-> now, token |-> NoToken]

\* The request r goes out, for the first time or again, with a token.
Sent(r, token) ==
    [r EXCEPT !.at = "sent", !.token = token, !.since = now, !.answer = "none"]

CacheIsLive == accessToken # NoToken /\ now < expiresAt

\* request() begins: with the cached token, or waiting for the promise that
\* another request has made, or for a new one.
Request(s) ==
    /\ requests[s].at = "idle"
    /\ IF CacheIsLive
       THEN /\ requests' = [requests EXCEPT ![s] = Sent(Idle, accessToken)]
            /\ UNCHANGED auths
       ELSE /\ requests' = [requests EXCEPT ![s] = [Idle EXCEPT !.at = "waiting"]]
            /\ auths' = IF auths[Shared].pending THEN auths
                        ELSE [auths EXCEPT ![Shared] = Asking]
    /\ UNCHANGED <<now, accessToken, expiresAt, api>>

\* Whose requests go on when authentication x ends.
Awaiting(x) ==
    {s \in Senders : IF x = Shared THEN requests[s].at = "waiting" ELSE s = x}

\* Mutant: tokens are used up to their end.
ExpiryWithoutMargin == now + Lifetime

Expiry == now + Lifetime - Margin

\* Mutant: the status of the answer is not looked at.
AuthEndsUnchecked(x) ==
    /\ auths[x].pending
    /\ accessToken' = auths[x].token
    /\ expiresAt' = Expiry
    /\ auths' = [auths EXCEPT ![x] = NoAuth]
    /\ requests' = [s \in Senders |-> IF s \in Awaiting(x)
                                      THEN Sent(requests[s], auths[x].token)
                                      ELSE requests[s]]
    /\ UNCHANGED <<now, api>>

\* The token arrives: it is cached, and every request that awaits it goes out.
AuthEnds(x) ==
    /\ auths[x].pending
    /\ auths[x].token # NoToken
    /\ accessToken' = auths[x].token
    /\ expiresAt' = Expiry
    /\ auths' = [auths EXCEPT ![x] = NoAuth]
    /\ requests' = [s \in Senders |-> IF s \in Awaiting(x)
                                      THEN Sent(requests[s], auths[x].token)
                                      ELSE requests[s]]
    /\ UNCHANGED <<now, api>>

\* Mutant: the requests that share the promise are not told.
AuthFailsSilently(x) ==
    /\ auths[x].pending
    /\ auths' = [auths EXCEPT ![x] = NoAuth]
    /\ UNCHANGED <<now, accessToken, expiresAt, requests, api>>

\* The API refuses, or the network fails, or the time is over: every request that
\* awaits the token fails.
AuthFails(x) ==
    /\ auths[x].pending
    /\ auths' = [auths EXCEPT ![x] = NoAuth]
    /\ requests' = [s \in Senders |-> IF s \in Awaiting(x) THEN Idle ELSE requests[s]]
    /\ UNCHANGED <<now, accessToken, expiresAt, api>>

-----------------------------------------------------------------------------
(***************************************************************************)
(* request(), from its fetch on                                            *)
(***************************************************************************)
Answered(s, answer) == requests[s].at = "sent" /\ requests[s].answer = answer

\* Mutant: after a 401 the token is taken from getToken().
RenewsFromCache(s) ==
    /\ Answered(s, "401")
    /\ requests[s].refused = NoToken
    /\ CacheIsLive
    /\ requests' = [requests EXCEPT
                       ![s] = [Sent(@, accessToken) EXCEPT
                                  !.refused = requests[s].token]]
    /\ UNCHANGED <<now, accessToken, expiresAt, auths, api>>

\* The first 401 makes the request authenticate for itself.
Renews(s) ==
    /\ Answered(s, "401")
    /\ requests[s].refused = NoToken
    /\ requests' = [requests EXCEPT ![s].at = "renewing", 
                                       ![s].refused = requests[s].token]
    /\ auths' = [auths EXCEPT ![s] = Asking]
    /\ UNCHANGED <<now, accessToken, expiresAt, api>>

\* It returns, or throws because of the status.
Ends(s) ==
    /\ \/ Answered(s, "ok") \/ Answered(s, "error")
       \/ Answered(s, "401") /\ requests[s].refused # NoToken
    /\ requests' = [requests EXCEPT ![s] = Idle]
    /\ UNCHANGED <<now, accessToken, expiresAt, auths, api>>

\* The network fails, or the time is over, whether or not the API has answered.
Aborts(s) ==
    /\ requests[s].at = "sent"
    /\ requests' = [requests EXCEPT ![s] = Idle]
    /\ UNCHANGED <<now, accessToken, expiresAt, auths, api>>

-----------------------------------------------------------------------------
(***************************************************************************)
(* The API and the clock                                                   *)
(***************************************************************************)
Issue(x) ==
    /\ auths[x].pending
    /\ auths[x].token = NoToken
    /\ Len(issued) < MaxTokens
    /\ issued' = Append(issued, now)
    /\ auths' = [auths EXCEPT ![x].token = Len(issued) + 1]
    /\ UNCHANGED <<now, accessToken, expiresAt, requests, revoked>>

Valid(t) == t \notin revoked /\ now < issued[t] + Lifetime

Answer(s) ==
    /\ Answered(s, "none")
    /\ \E answer \in IF Valid(requests[s].token) THEN {"ok", "error"} ELSE {"401"} :
          requests' = [requests EXCEPT ![s].answer = answer]
    /\ UNCHANGED <<now, accessToken, expiresAt, auths, api>>

\* The API restarts with other keys.
Revoke ==
    /\ revoked # Tokens
    /\ revoked' = Tokens
    /\ UNCHANGED <<now, client, issued>>

\* Time passes; what is on its way is aborted when its time is over.
Tick ==
    /\ now < MaxTime
    /\ \A x \in DOMAIN auths : auths[x].pending => now < auths[x].since + Timeout
    /\ \A s \in Senders :
          requests[s].at = "sent" => now < requests[s].since + Timeout
    /\ now' = now + 1
    /\ UNCHANGED <<client, api>>

-----------------------------------------------------------------------------
Next ==
    \/ \E s \in Senders : Request(s) \/ Renews(s) \/ Ends(s) \/ Aborts(s) \/ Answer(s)
    \/ \E x \in Senders \cup {Shared} : Issue(x) \/ AuthEnds(x) \/ AuthFails(x)
    \/ Revoke
    \/ Tick

\* Whatever is on its way ends, if only because its time is over.
Fairness ==
    /\ \A s \in Senders : WF_vars(Renews(s) \/ Ends(s) \/ Aborts(s))
    /\ \A x \in Senders \cup {Shared} : WF_vars(AuthEnds(x) \/ AuthFails(x))

Spec == Init /\ [][Next]_vars /\ Fairness

-----------------------------------------------------------------------------
(***************************************************************************)
(* Safety                                                                  *)
(***************************************************************************)

\* A token never ends while it is on its way: wherever in its life it was taken
\* from the cache, and however long the answer that brought it and the request
\* that carries it took, the API refuses it only when it has forgotten it.
RefusedOnlyIfRevoked ==
    \A s \in Senders : Answered(s, "401") => requests[s].token \in revoked

\* The retry after a 401 carries a token that was issued after the refused one,
\* whatever other requests have done to the cache meanwhile.
RetryIsNewer ==
    \A s \in Senders :
        requests[s].at = "sent" => requests[s].token > requests[s].refused

(***************************************************************************)
(* Liveness                                                                *)
(***************************************************************************)

\* Every request returns or throws, also when the promise it shares is rejected.
EveryRequestEnds ==
    \A s \in Senders : requests[s].at # "idle" ~> requests[s].at = "idle"
=============================================================================
