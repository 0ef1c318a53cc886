---------------------------- MODULE AccessTokens ----------------------------
(***************************************************************************)
(* AzurePublishEngineAccessTokenProvider: one token is cached; the calls   *)
(* of the process that find it too old share one request to the            *)
(* credential.                                                             *)
(*                                                                         *)
(* A call is a caller of getAccessToken up to its next await.  What        *)
(* follows an await runs as soon as the request is settled, first for the  *)
(* caller that has sent it, and takes no time.  The clock is the wall      *)
(* clock, which may be set back.                                           *)
(***************************************************************************)
EXTENDS Integers

CONSTANTS
    Caller,             \* executions of the publish worker that ask for tokens
    NoCaller,
    RefreshSkew,        \* refreshSkewMs
    MinRefreshWindow,   \* MIN_REFRESH_WINDOW_MS
    Lifetimes,          \* lifetimes of the credential's tokens; 0 is an expired one
    MaxTime             \* bound on clock

ASSUME NoCallerAssumption == NoCaller \notin Caller
ASSUME WindowAssumption == RefreshSkew \in Nat /\ MinRefreshWindow \in Nat \ {0}
ASSUME LifetimesAssumption == Lifetimes \subseteq Nat
ASSUME MaxTimeAssumption == MaxTime \in Nat

VARIABLES
    clock,     \* the current time
    cached,    \* cachedToken
    flight,    \* inFlightRefresh: the caller that has sent the request
    caller     \* the calls

vars == <<clock, cached, flight, caller>>

-----------------------------------------------------------------------------

\* A token is told by its expiry; a lifetime of 0 stands for null.
CachedToken == [expiresAt : Nat, lifetime : Nat]
NoToken == [expiresAt |-> 0, lifetime |-> 0]

\* waiting: for the request; resolved, rejected: the request is settled, what
\* follows the await has not run yet.
Call == [pc : {"idle", "waiting", "resolved", "rejected", "returned", "failed"},
         token : CachedToken]

TypeOK ==
    /\ clock \in 0 .. MaxTime
    /\ cached \in CachedToken
    /\ flight \in Caller \union {NoCaller}
    /\ caller \in [Caller -> Call]

Init ==
    /\ clock = 0
    /\ cached = NoToken
    /\ flight = NoCaller
    /\ caller = [c \in Caller |-> [pc |-> "idle", token |-> NoToken]]

Larger(a, b) == IF a >= b THEN a ELSE b
Smaller(a, b) == IF a <= b THEN a ELSE b

RefreshWindow(token) ==
    Smaller(RefreshSkew, Larger(MinRefreshWindow, token.lifetime \div 10))

\* isTokenSafelyUsable, for a token that there is.
SafelyUsable(token, now) ==
    LET remaining == token.expiresAt - now IN
    /\ token.lifetime > 0
    /\ remaining > 0
    /\ remaining > RefreshWindow(token)

Pending(c) == caller[c].pc \in {"resolved", "rejected"}
Running == \A c \in Caller : ~Pending(c)

\* getAccessToken: from the cache; or with the request under way, settled or
\* not; or with a request of its own.
GetAccessToken(c) ==
    /\ caller[c].pc \in {"idle", "returned", "failed"}
    /\ caller' = [caller EXCEPT ![c] =
          IF SafelyUsable(cached, clock)
          THEN [pc |-> "returned", token |-> cached]
          ELSE IF flight # NoCaller THEN caller[flight]
          ELSE [pc |-> "waiting", token |-> NoToken]]
    /\ flight' = IF SafelyUsable(cached, clock) \/ flight # NoCaller THEN flight
                 ELSE c
    /\ UNCHANGED <<clock, cached>>

\* VARIANT of Settle: only the sender learns of it.
SettleSender(pc, token) ==
    caller' = [caller EXCEPT ![flight] = [pc |-> pc, token |-> token]]

\* The request is settled: for everyone who waits.
Settle(pc, token) ==
    caller' = [c \in Caller |-> IF caller[c].pc = "waiting"
                                THEN [pc |-> pc, token |-> token]
                                ELSE caller[c]]

\* VARIANT of CredentialAnswers: the expiry of the answer is not looked at.
CredentialAnswersUnchecked(lifetime) ==
    /\ Running
    /\ flight # NoCaller
    /\ LET token == [expiresAt |-> clock + lifetime,
                     lifetime |-> Larger(1, lifetime)]
       IN  /\ cached' = token
           /\ Settle("resolved", token)
    /\ UNCHANGED <<clock, flight>>

\* The credential answers with a token, which must not be expired already.
CredentialAnswers(lifetime) ==
    /\ Running
    /\ flight # NoCaller
    /\ LET token == [expiresAt |-> clock + lifetime, lifetime |-> lifetime] IN
       IF lifetime > 0 THEN cached' = token /\ Settle("resolved", token)
                       ELSE UNCHANGED cached /\ Settle("rejected", NoToken)
    /\ UNCHANGED <<clock, flight>>

\* The credential throws, among other reasons because the caller whose request
\* it is has aborted; or its answer is no token.
CredentialThrows ==
    /\ Running
    /\ flight # NoCaller
    /\ Settle("rejected", NoToken)
    /\ UNCHANGED <<clock, cached, flight>>

\* What a caller makes of a settled request: a request that failed leaves it
\* the cached token if that can be used (again: the clock may have been set).
Settled(c) ==
    CASE caller[c].pc = "resolved" -> [caller[c] EXCEPT !.pc = "returned"]
      [] caller[c].pc = "rejected" /\ SafelyUsable(cached, clock) ->
            [pc |-> "returned", token |-> cached]
      [] OTHER -> [caller[c] EXCEPT !.pc = "failed"]

\* The caller that has sent the request goes on, and forgets the request
\* whatever came of it.
Sender(c) ==
    /\ flight = c
    /\ Pending(c)
    /\ caller' = [caller EXCEPT ![c] = Settled(c)]
    /\ flight' = NoCaller
    /\ UNCHANGED <<clock, cached>>

\* VARIANT of Joiner: everyone who has waited forgets the request.
JoinerForgets(c) ==
    /\ flight # c
    /\ Pending(c)
    /\ flight # NoCaller => ~Pending(flight)
    /\ caller' = [caller EXCEPT ![c] = Settled(c)]
    /\ flight' = NoCaller
    /\ UNCHANGED <<clock, cached>>

\* The others go on after it, perhaps when the next request has been sent.
Joiner(c) ==
    /\ flight # c
    /\ Pending(c)
    /\ flight # NoCaller => ~Pending(flight)
    /\ caller' = [caller EXCEPT ![c] = Settled(c)]
    /\ UNCHANGED <<clock, cached, flight>>

Tick ==
    /\ Running
    /\ clock < MaxTime
    /\ clock' = clock + 1
    /\ UNCHANGED <<cached, flight, caller>>

SetBack ==
    /\ Running
    /\ clock > 0
    /\ clock' = clock - 1
    /\ UNCHANGED <<cached, flight, caller>>

CredentialSettles ==
    CredentialThrows \/ \E lifetime \in Lifetimes : CredentialAnswers(lifetime)

Next ==
    \/ \E c \in Caller : GetAccessToken(c) \/ Sender(c) \/ Joiner(c)
    \/ CredentialSettles
    \/ Tick \/ SetBack

\* The credential settles every request, in one way or another.
Spec ==
    /\ Init /\ [][Next]_vars
    /\ WF_vars(CredentialSettles)
    /\ \A c \in Caller : WF_vars(Sender(c) \/ Joiner(c))

-----------------------------------------------------------------------------
(* Properties *)

\* Refreshes are deduplicated (README.md:187), and a request that is over is
\* never joined: while there is a request under way all who wait wait for its
\* sender's, and the provider remembers a request only until its sender has
\* gone on.  A caller that joined and goes on late does not make the provider
\* forget the next request.
OneFlight ==
    /\ \A c \in Caller : caller[c].pc = "waiting" => flight # NoCaller
    /\ flight # NoCaller =>
          caller[flight].pc \in {"waiting", "resolved", "rejected"}

\* Nobody gets an expired token, from the cache, from an own or from a shared
\* request.
ValidStep ==
    \A c \in Caller :
        (caller[c].pc # "returned" /\ caller'[c].pc = "returned")
            => caller'[c].token.expiresAt > clock
ValidTokens == [][ValidStep]_vars

\* Every call of getAccessToken ends, though its request may be another's.
EveryoneServed ==
    \A c \in Caller :
        caller[c].pc = "waiting" ~> caller[c].pc \in {"returned", "failed"}

=============================================================================
