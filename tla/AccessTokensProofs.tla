-------------------------- MODULE AccessTokensProofs --------------------------
(***************************************************************************)
(* For every number of callers, every set of lifetimes and every refresh   *)
(* window: refreshes are deduplicated and nobody gets an expired token.    *)
(*                                                                         *)
(* OneFlight is not inductive as it stands: its sender could go on and     *)
(* leave somebody waiting.  Together needs that a settled request is       *)
(* settled for everyone at once; Fresh, that the clock does not pass the   *)
(* expiry of a token on its way to a caller.                               *)
(***************************************************************************)
EXTENDS AccessTokens, TLAPS

USE NoCallerAssumption, WindowAssumption, LifetimesAssumption,
    MaxTimeAssumption

\* While the sender's request is settled nobody waits any more.
Together ==
    flight # NoCaller /\ Pending(flight) =>
        \A c \in Caller : caller[c].pc # "waiting"

\* A token that a caller is about to return has not expired.
Fresh ==
    \A c \in Caller :
        caller[c].pc = "resolved" => caller[c].token.expiresAt > clock

TokensInv == TypeOK /\ OneFlight /\ Together /\ Fresh

-----------------------------------------------------------------------------

\* The rows of the calls are records of their type.
LEMMA CallTypes ==
    /\ NoToken \in CachedToken
    /\ \A token \in CachedToken :
          \A pc \in {"waiting", "resolved", "rejected", "returned", "failed"} :
             [pc |-> pc, token |-> token] \in Call
    /\ \A call \in Call :
          /\ [call EXCEPT !.pc = "returned"] \in Call
          /\ [call EXCEPT !.pc = "failed"] \in Call
BY DEF NoToken, CachedToken, Call

\* What a caller makes of a settled request ends its call, with a token that
\* has not expired if it returns one.
LEMMA SettledCall ==
    ASSUME TokensInv, NEW c \in Caller, Pending(c)
    PROVE  /\ Settled(c) \in Call
           /\ Settled(c).pc \in {"returned", "failed"}
           /\ Settled(c).pc = "returned" => Settled(c).token.expiresAt > clock
<1> USE DEF TokensInv, TypeOK
<1>1. caller[c] \in Call /\ cached \in CachedToken
  OBVIOUS
<1>2. CASE caller[c].pc = "resolved"
  <2>1. Settled(c) = [caller[c] EXCEPT !.pc = "returned"]
    BY <1>2 DEF Settled
  <2> QED
    BY <1>1, <1>2, <2>1, CallTypes DEF Fresh, Call, CachedToken
<1>3. CASE caller[c].pc = "rejected" /\ SafelyUsable(cached, clock)
  <2>1. Settled(c) = [pc |-> "returned", token |-> cached]
    BY <1>3 DEF Settled
  <2>2. cached.expiresAt > clock
    BY <1>1, <1>3 DEF SafelyUsable, CachedToken
  <2>3. [pc |-> "returned", token |-> cached] \in Call
    BY <1>1, CallTypes
  <2> QED
    BY <2>1, <2>2, <2>3
<1>4. CASE caller[c].pc = "rejected" /\ ~SafelyUsable(cached, clock)
  <2>1. Settled(c) = [caller[c] EXCEPT !.pc = "failed"]
    BY <1>4 DEF Settled
  <2> QED
    BY <1>1, <2>1, CallTypes DEF Call
<1> QED
  BY <1>2, <1>3, <1>4 DEF Pending

\* A new provider has no token, no refresh and no callers.
LEMMA InitInv == Init => TokensInv
BY CallTypes DEF Init, TokensInv, TypeOK, OneFlight, Together, Fresh, Call,
                 NoToken, CachedToken

\* getAccessToken: a cached token is handed out outside the refresh window
\* only; within it the caller joins the refresh or starts the only one.
LEMMA GetInv ==
    ASSUME TokensInv, NEW c \in Caller, GetAccessToken(c)
    PROVE  TokensInv' /\ ValidStep
<1> USE DEF TokensInv, TypeOK
<1>1. CASE SafelyUsable(cached, clock)
  <2>1. /\ caller' = [caller EXCEPT ![c] =
                         [pc |-> "returned", token |-> cached]]
        /\ flight' = flight
        /\ flight # c
        /\ UNCHANGED <<clock, cached>>
    BY <1>1 DEF GetAccessToken, OneFlight
  <2>2. TypeOK'
    BY <2>1, CallTypes
  <2>3. cached.expiresAt > clock
    BY <1>1 DEF SafelyUsable, CachedToken
  <2> QED
    BY <2>1, <2>2, <2>3 DEF OneFlight, Together, Fresh, Pending, ValidStep
<1>2. CASE ~SafelyUsable(cached, clock) /\ flight # NoCaller
  <2>1. /\ caller' = [caller EXCEPT ![c] = caller[flight]]
        /\ flight' = flight /\ flight \in Caller
        /\ flight # c
        /\ UNCHANGED <<clock, cached>>
    BY <1>2 DEF GetAccessToken, OneFlight
  <2>2. TypeOK'
    BY <2>1
  <2> QED
    BY <2>1, <2>2 DEF OneFlight, Together, Fresh, Pending, ValidStep
<1>3. CASE ~SafelyUsable(cached, clock) /\ flight = NoCaller
  <2>1. /\ caller' = [caller EXCEPT ![c] =
                         [pc |-> "waiting", token |-> NoToken]]
        /\ flight' = c
        /\ UNCHANGED <<clock, cached>>
    BY <1>3 DEF GetAccessToken
  <2>2. TypeOK'
    BY <2>1, CallTypes
  <2> QED
    BY <1>3, <2>1, <2>2 DEF OneFlight, Together, Fresh, Pending, ValidStep
<1> QED
  BY <1>1, <1>2, <1>3

\* A request is settled for everyone who waits, with a token that has not
\* expired.
LEMMA SettleInv ==
    ASSUME TokensInv, flight # NoCaller, Running,
           NEW pc \in {"resolved", "rejected"}, NEW token \in CachedToken,
           pc = "resolved" => token.expiresAt > clock,
           Settle(pc, token), UNCHANGED <<clock, flight>>,
           cached' \in CachedToken
    PROVE  TokensInv' /\ ValidStep
<1> USE DEF TokensInv, TypeOK, Settle
<1>1. TypeOK'
  BY CallTypes
<1>2. \A c \in Caller : caller'[c].pc # "waiting"
  OBVIOUS
<1>3. OneFlight' /\ Together'
  BY <1>2 DEF OneFlight, Together
<1>4. Fresh' /\ ValidStep
  BY DEF Fresh, ValidStep
<1> QED
  BY <1>1, <1>3, <1>4

\* A caller of a refresh goes on with what the refresh came to.
LEMMA GoesOnInv ==
    ASSUME TokensInv, NEW c \in Caller, Sender(c) \/ Joiner(c)
    PROVE  TokensInv' /\ ValidStep
<1> USE DEF TokensInv, TypeOK
<1>1. /\ Pending(c)
      /\ caller' = [caller EXCEPT ![c] = Settled(c)]
      /\ \/ flight = c /\ flight' = NoCaller
         \/ flight # c /\ flight' = flight
      /\ UNCHANGED <<clock, cached>>
  BY DEF Sender, Joiner
<1>2. /\ Settled(c) \in Call
      /\ Settled(c).pc \in {"returned", "failed"}
      /\ Settled(c).pc = "returned" => Settled(c).token.expiresAt > clock
  BY <1>1, SettledCall
<1>3. TypeOK'
  BY <1>1, <1>2
<1>4. OneFlight'
  BY <1>1, <1>2 DEF OneFlight, Together
<1>5. Together'
  BY <1>1, <1>2 DEF Together, Pending
<1>6. Fresh' /\ ValidStep
  BY <1>1, <1>2 DEF Fresh, ValidStep
<1> QED
  BY <1>3, <1>4, <1>5, <1>6

\* Every step keeps the invariant and hands out no expired token.
LEMMA StepInv ==
    ASSUME TokensInv, [Next]_vars
    PROVE  TokensInv' /\ [ValidStep]_vars
<1>1. ASSUME NEW c \in Caller, GetAccessToken(c)
      PROVE  TokensInv' /\ ValidStep
  BY <1>1, GetInv
<1>2. ASSUME NEW c \in Caller, Sender(c) \/ Joiner(c)
      PROVE  TokensInv' /\ ValidStep
  BY <1>2, GoesOnInv
<1>3. ASSUME NEW lifetime \in Lifetimes, CredentialAnswers(lifetime)
      PROVE  TokensInv' /\ ValidStep
  <2> DEFINE token == [expiresAt |-> clock + lifetime, lifetime |-> lifetime]
  <2>1. /\ Running /\ flight # NoCaller
        /\ UNCHANGED <<clock, flight>>
    BY <1>3 DEF CredentialAnswers
  <2>2. token \in CachedToken /\ NoToken \in CachedToken
        /\ cached \in CachedToken
    BY DEF TokensInv, TypeOK, CachedToken, NoToken
  <2>3. CASE lifetime > 0
    <3>1. cached' = token /\ Settle("resolved", token)
      BY <1>3, <2>3 DEF CredentialAnswers
    <3>2. token.expiresAt > clock
      BY <2>3 DEF TokensInv, TypeOK
    <3> HIDE DEF token
    <3> QED
      BY <2>1, <2>2, <3>1, <3>2, SettleInv
  <2>4. CASE ~(lifetime > 0)
    <3>1. cached' = cached /\ Settle("rejected", NoToken)
      BY <1>3, <2>4 DEF CredentialAnswers
    <3> QED
      BY <2>1, <2>2, <3>1, SettleInv
  <2> QED
    BY <2>3, <2>4
<1>4. CASE CredentialThrows
  <2>1. NoToken \in CachedToken /\ cached' \in CachedToken
    BY <1>4, CallTypes DEF CredentialThrows, TokensInv, TypeOK
  <2> QED
    BY <1>4, <2>1, SettleInv DEF CredentialThrows
<1>5. CASE Tick \/ SetBack
  <2>1. /\ Running
        /\ clock' \in 0 .. MaxTime
        /\ UNCHANGED <<cached, flight, caller>>
    BY <1>5 DEF Tick, SetBack, TokensInv, TypeOK
  <2> QED
    BY <2>1 DEF TokensInv, TypeOK, OneFlight, Together, Fresh, Running,
                Pending, ValidStep
<1>6. CASE UNCHANGED vars
  BY <1>6 DEF vars, TokensInv, TypeOK, OneFlight, Together, Fresh, Pending
<1> QED
  BY <1>1, <1>2, <1>3, <1>4, <1>5, <1>6 DEF Next, CredentialSettles

\* The inductive invariant holds of every behaviour.
THEOREM TokensInvariant == Spec => []TokensInv
<1>1. TokensInv /\ [Next]_vars => TokensInv'
  BY StepInv
<1> QED
  BY InitInv, <1>1, PTL DEF Spec

\* getAccessToken of azure-access-token-provider.ts keeps one request in
\* flight: whoever waits, waits for its sender's, and it is remembered exactly
\* until its sender has gone on.
THEOREM RefreshesDeduplicated == Spec => []OneFlight
<1>1. TokensInv => OneFlight
  BY DEF TokensInv
<1> QED
  BY TokensInvariant, <1>1, PTL

\* No call of getAccessToken returns a token that has expired, whether it comes
\* from the cache, from a request of its own, from a shared one, or from the
\* cache after a request that failed.
THEOREM NoExpiredToken == Spec => ValidTokens
<1>1. TokensInv /\ [Next]_vars => [ValidStep]_vars
  BY StepInv
<1> QED
  BY TokensInvariant, <1>1, PTL DEF Spec, ValidTokens

=============================================================================
