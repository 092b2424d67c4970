-------------------------- MODULE MtnClientProofs ---------------------------
(***************************************************************************)
(* Theorems about the MTN client for any number of callers, any lifetimes  *)
(* of tokens and any timeout and margin with Timeout <= Margin.            *)
(***************************************************************************)
EXTENDS MtnClient, FiniteSetTheorems, TLAPS

USE CallersAssumption, RequestersAssumption, TimesAssumption, LifetimesAssumption

-----------------------------------------------------------------------------
(***************************************************************************)
(* What a step does to its caller.                                         *)
(***************************************************************************)

OthersStay(c) ==
  \A d \in Callers \ {c} :
    /\ phase'[d] = phase[d] /\ began'[d] = began[d]
    /\ since'[d] = since[d] /\ token'[d] = token[d]

Returned(c) ==
  /\ OthersStay(c)
  /\ phase'[c] = "done" /\ began'[c] = 0 /\ since'[c] = 0 /\ token'[c] = {}

Sending(c, t) ==
  /\ OthersStay(c)
  /\ phase'[c] = "calling" /\ began'[c] = began[c]
  /\ since'[c] = clock /\ token'[c] = {t}

LEMMA ReturnEffect ==
  ASSUME TypeOK, NEW c \in Callers, Return(c)
  PROVE  /\ Returned(c)
         /\ phase' \in [Callers -> Phases]
         /\ began' \in [Callers -> Nat] /\ since' \in [Callers -> Nat]
         /\ token' \in [Callers -> SUBSET Token]
BY DEF Return, Returned, OthersStay, TypeOK, Phases

LEMMA ProceedEffect ==
  ASSUME TypeOK, NEW c \in Callers, NEW t \in Token, Proceed(c, t)
  PROVE  /\ Returned(c) \/ Sending(c, t)
         /\ phase' \in [Callers -> Phases]
         /\ began' \in [Callers -> Nat] /\ since' \in [Callers -> Nat]
         /\ token' \in [Callers -> SUBSET Token]
<1>1. CASE Return(c)
  BY <1>1, ReturnEffect
<1>2. CASE ~Return(c)
  BY <1>2 DEF Proceed, Sending, OthersStay, TypeOK, Phases
<1>3. QED
  BY <1>1, <1>2

\* The cases of a step, caller by caller.
Called(c) ==
  /\ OthersStay(c)
  /\ phase[c] = "idle" /\ phase'[c] = "locking" /\ began'[c] = clock
  /\ since'[c] = since[c] /\ token'[c] = token[c]
  /\ UNCHANGED <<clock, mu, accessToken, tokenExpiry, refreshes>>

CacheUsed(c) ==
  /\ phase[c] = "locking" /\ mu = {} /\ Usable
  /\ \E t \in accessToken : Returned(c) \/ Sending(c, t)
  /\ UNCHANGED <<clock, mu, accessToken, tokenExpiry, refreshes>>

FetchBegun(c) ==
  /\ OthersStay(c)
  /\ phase[c] = "locking" /\ mu = {} /\ ~Usable
  /\ phase'[c] = "fetching" /\ since'[c] = clock
  /\ began'[c] = began[c] /\ token'[c] = token[c]
  /\ mu' = {c}
  /\ UNCHANGED <<clock, accessToken, tokenExpiry, refreshes>>

TokenIssued(c) ==
  /\ OthersStay(c)
  /\ phase[c] = "fetching" /\ phase'[c] = phase[c]
  /\ began'[c] = began[c] /\ since'[c] = since[c]
  /\ \A t \in token'[c] : t.issued = clock
  /\ UNCHANGED <<clock, mu, accessToken, tokenExpiry, refreshes>>

TokenReceived(c) ==
  /\ phase[c] = "fetching" /\ mu' = {} /\ clock' = clock
  /\ \E t \in token[c] :
       /\ accessToken' = {t} /\ tokenExpiry' = clock + t.lifetime
       /\ refreshes' = refreshes \cup
            {[by |-> c, received |-> clock, lifetime |-> t.lifetime]}
       /\ Returned(c) \/ Sending(c, t)

FetchFailed(c) ==
  /\ phase[c] = "fetching" /\ mu' = {} /\ Returned(c)
  /\ UNCHANGED <<clock, accessToken, tokenExpiry, refreshes>>

CallReturned(c) ==
  /\ phase[c] = "calling" /\ Returned(c)
  /\ UNCHANGED <<clock, mu, accessToken, tokenExpiry, refreshes>>

ClientCase(c) ==
  \/ Called(c) \/ CacheUsed(c) \/ FetchBegun(c) \/ TokenIssued(c)
  \/ TokenReceived(c) \/ FetchFailed(c) \/ CallReturned(c)

LEMMA ClientCases ==
  ASSUME TypeOK, NEW c \in Callers, CallerStep(c)
  PROVE  TypeOK' /\ ClientCase(c)
<1> DEFINE Goal == TypeOK' /\ ClientCase(c)
<1>1. CASE Call(c)
  <2>1. TypeOK'
    BY <1>1 DEF Call, TypeOK, Phases
  <2>2. Called(c)
    BY <1>1 DEF Call, Called, OthersStay, TypeOK
  <2>3. QED
    BY <2>1, <2>2 DEF ClientCase
<1>2. CASE UseCached(c)
  <2>1. PICK t \in accessToken : Proceed(c, t)
    BY <1>2 DEF UseCached
  <2>2. t \in Token
    BY DEF TypeOK
  <2>3. CacheUsed(c)
    BY <1>2, <2>1, <2>2, ProceedEffect DEF UseCached, CacheUsed
  <2>4. TypeOK'
    BY <1>2, <2>1, <2>2, ProceedEffect DEF UseCached, TypeOK
  <2>5. QED
    BY <2>3, <2>4 DEF ClientCase
<1>3. CASE BeginFetch(c)
  <2>1. TypeOK'
    BY <1>3 DEF BeginFetch, TypeOK, Phases
  <2>2. FetchBegun(c)
    BY <1>3 DEF BeginFetch, FetchBegun, OthersStay, TypeOK
  <2>3. QED
    BY <2>1, <2>2 DEF ClientCase
<1>4. CASE IssueToken(c)
  <2>1. PICK l \in Lifetimes :
          token' = [token EXCEPT ![c] = {[issued |-> clock, lifetime |-> l]}]
    BY <1>4 DEF IssueToken
  <2>2. [issued |-> clock, lifetime |-> l] \in Token
    BY DEF Token, TypeOK
  <2>3. TypeOK'
    BY <1>4, <2>1, <2>2 DEF IssueToken, TypeOK
  <2>4. TokenIssued(c)
    BY <1>4, <2>1 DEF IssueToken, TokenIssued, OthersStay, TypeOK
  <2>5. QED
    BY <2>3, <2>4 DEF ClientCase
<1>5. CASE ReceiveToken(c)
  <2>1. PICK t \in token[c] :
           /\ accessToken' = {t} /\ tokenExpiry' = clock + t.lifetime
           /\ refreshes' = refreshes \cup
                {[by |-> c, received |-> clock, lifetime |-> t.lifetime]}
           /\ Proceed(c, t)
    BY <1>5 DEF ReceiveToken
  <2>2. t \in Token /\ t.lifetime \in Lifetimes /\ t.lifetime \in Nat
    <3>1. t \in Token
      BY <2>1 DEF TypeOK
    <3>2. QED
      BY <3>1 DEF Token
  <2>3. [by |-> c, received |-> clock, lifetime |-> t.lifetime] \in Refresh
    BY <2>2 DEF Refresh, TypeOK
  <2>4. mu' = {} /\ clock' = clock
    BY <1>5 DEF ReceiveToken
  <2>5. TypeOK'
    BY <2>1, <2>2, <2>3, <2>4, ProceedEffect DEF TypeOK
  <2>6. TokenReceived(c)
    BY <1>5, <2>1, <2>2, ProceedEffect DEF ReceiveToken, TokenReceived
  <2>7. QED
    BY <2>5, <2>6 DEF ClientCase
<1>6. CASE FetchFails(c)
  <2>1. TypeOK'
    BY <1>6, ReturnEffect DEF FetchFails, TypeOK
  <2>2. FetchFailed(c)
    BY <1>6, ReturnEffect DEF FetchFails, FetchFailed
  <2>3. QED
    BY <2>1, <2>2 DEF ClientCase
<1>7. CASE CallReturns(c)
  <2>1. TypeOK'
    BY <1>7, ReturnEffect DEF CallReturns, TypeOK
  <2>2. CallReturned(c)
    BY <1>7, ReturnEffect DEF CallReturns, CallReturned
  <2>3. QED
    BY <2>1, <2>2 DEF ClientCase
<1>8. QED
  BY <1>1, <1>2, <1>3, <1>4, <1>5, <1>6, <1>7 DEF CallerStep, FetchReturns

LEMMA ClientTypeNext == TypeOK /\ [Next]_vars => TypeOK'
<1>1. TypeOK /\ Tick => TypeOK'
  BY DEF Tick, TypeOK
<1>2. TypeOK /\ UNCHANGED vars => TypeOK'
  BY DEF vars, TypeOK
<1>3. QED
  BY <1>1, <1>2, ClientCases DEF Next

LEMMA ClientTypeInit == Init => TypeOK
BY DEF Init, TypeOK, Phases

\* Every variable of the client has its type.
THEOREM ClientTypeCorrect == Spec => []TypeOK
BY ClientTypeInit, ClientTypeNext, PTL DEF Spec


-----------------------------------------------------------------------------
(***************************************************************************)
(* The inductive invariant.                                                *)
(***************************************************************************)

\* The mutex is held by the one caller that asks for a token.
MutexHeld ==
  /\ \A c \in Callers : phase[c] = "fetching" <=> c \in mu
  /\ \A c, d \in mu : c = d

\* An HTTP request has not been under way for longer than the timeout, and the
\* token it asks for was issued meanwhile.
RequestsInTime ==
  \A c \in Callers :
    /\ phase[c] \in {"fetching", "calling"} =>
         since[c] <= clock /\ clock <= since[c] + Timeout
    /\ phase[c] = "fetching" =>
         \A t \in token[c] : since[c] <= t.issued /\ t.issued <= clock
    /\ phase[c] \notin {"fetching", "calling"} => token[c] = {}

\* The client's idea of the expiry is at most one timeout late.
ExpiryKnown ==
  \A t \in accessToken : tokenExpiry <= t.issued + t.lifetime + Timeout

\* A token received earlier is in its margin, or it is still the cached one or
\* expires before that.
EarlierRefreshes ==
  \A a \in refreshes :
    \/ a.received + a.lifetime <= clock + Margin
    \/ /\ mu = {} /\ accessToken # {}
       /\ a.received + a.lifetime <= tokenExpiry

ClientInv ==
  /\ TypeOK /\ MutexHeld /\ RequestsInTime /\ ExpiryKnown /\ EarlierRefreshes
  /\ TokensAreValid /\ RefreshesAreSpaced

LEMMA TokenTimes ==
  ASSUME TypeOK
  PROVE  /\ \A t \in accessToken : t.issued \in Nat /\ t.lifetime \in Nat /\ Timeout < t.lifetime
         /\ \A c \in Callers : \A t \in token[c] :
              t.issued \in Nat /\ t.lifetime \in Nat /\ Timeout < t.lifetime
         /\ \A a \in refreshes : a.received \in Nat /\ a.lifetime \in Nat
         /\ \A c \in Callers : since[c] \in Nat /\ began[c] \in Nat
         /\ clock \in Nat /\ tokenExpiry \in Nat /\ Timeout \in Nat /\ Margin \in Nat
         /\ Timeout <= Margin
<1>1. \A t \in Token : t.issued \in Nat /\ t.lifetime \in Nat /\ Timeout < t.lifetime
  BY DEF Token
<1>2. \A a \in Refresh : a.received \in Nat /\ a.lifetime \in Nat
  BY DEF Refresh
<1>3. /\ \A t \in accessToken : t \in Token
      /\ \A c \in Callers : \A t \in token[c] : t \in Token
      /\ \A a \in refreshes : a \in Refresh
  BY DEF TypeOK
<1>4. QED
  BY <1>1, <1>2, <1>3 DEF TypeOK

LEMMA ClientInvInit == Init => ClientInv
BY ClientTypeInit
DEF Init, ClientInv, MutexHeld, RequestsInTime, ExpiryKnown, EarlierRefreshes,
    TokensAreValid, RefreshesAreSpaced

\* Callers other than c keep what they have while the clock stands still.
LEMMA OthersInTime ==
  ASSUME RequestsInTime, TokensAreValid, NEW c \in Callers, OthersStay(c), clock' = clock,
         /\ phase'[c] \in {"fetching", "calling"} =>
              since'[c] <= clock /\ clock <= since'[c] + Timeout
         /\ phase'[c] = "fetching" =>
              \A t \in token'[c] : since'[c] <= t.issued /\ t.issued <= clock
         /\ phase'[c] \notin {"fetching", "calling"} => token'[c] = {}
         /\ phase'[c] = "calling" =>
              \A t \in token'[c] : since'[c] < t.issued + t.lifetime
  PROVE  RequestsInTime' /\ TokensAreValid'
<1>1. ASSUME NEW d \in Callers
      PROVE  /\ phase'[d] \in {"fetching", "calling"} =>
                  since'[d] <= clock' /\ clock' <= since'[d] + Timeout
             /\ phase'[d] = "fetching" =>
                  \A t \in token'[d] : since'[d] <= t.issued /\ t.issued <= clock'
             /\ phase'[d] \notin {"fetching", "calling"} => token'[d] = {}
             /\ phase'[d] = "calling" =>
                  \A t \in token'[d] : since'[d] < t.issued + t.lifetime
  <2>1. CASE d = c
    BY <2>1
  <2>2. CASE d # c
    BY <2>2 DEF OthersStay, RequestsInTime, TokensAreValid
  <2>3. QED
    BY <2>1, <2>2
<1>2. QED
  BY <1>1 DEF RequestsInTime, TokensAreValid

LEMMA InTimeNext ==
  ASSUME ClientInv, NEW c \in Callers, ClientCase(c)
  PROVE  RequestsInTime' /\ TokensAreValid'
<1> DEFINE Goal == RequestsInTime' /\ TokensAreValid'
<1>i. TypeOK /\ RequestsInTime /\ TokensAreValid /\ ExpiryKnown
  BY DEF ClientInv
<1>t. clock \in Nat /\ Timeout \in Nat /\ Margin \in Nat /\ Timeout <= Margin /\ since[c] \in Nat
  BY <1>i, TokenTimes
<1>1. CASE Called(c)
  <2>1. token[c] = {}
    BY <1>i, <1>1 DEF Called, RequestsInTime
  <2>2. QED
    BY <1>i, <1>1, <2>1, OthersInTime DEF Called
<1>2. CASE CacheUsed(c)
  <2>1. PICK t \in accessToken : Returned(c) \/ Sending(c, t)
    BY <1>2 DEF CacheUsed
  <2>2. clock + Margin < tokenExpiry /\ tokenExpiry <= t.issued + t.lifetime + Timeout
    BY <1>i, <1>2, <2>1 DEF CacheUsed, Usable, ExpiryKnown
  <2>3. clock < t.issued + t.lifetime
    BY <1>i, <1>t, <2>1, <2>2, TokenTimes
  <2>4. clock' = clock
    BY <1>2 DEF CacheUsed
  <2>5. CASE Returned(c)
    BY <1>i, <2>4, <2>5, OthersInTime DEF Returned
  <2>6. CASE Sending(c, t)
    BY <1>i, <1>t, <2>3, <2>4, <2>6, OthersInTime DEF Sending
  <2>7. QED
    BY <2>1, <2>5, <2>6
<1>3. CASE FetchBegun(c)
  <2>1. token[c] = {}
    BY <1>i, <1>3 DEF FetchBegun, RequestsInTime
  <2>2. QED
    BY <1>i, <1>t, <1>3, <2>1, OthersInTime DEF FetchBegun
<1>4. CASE TokenIssued(c)
  <2>1. since[c] <= clock /\ clock <= since[c] + Timeout
    BY <1>i, <1>4 DEF TokenIssued, RequestsInTime
  <2>2. QED
    BY <1>i, <1>t, <1>4, <2>1, OthersInTime DEF TokenIssued
<1>5. CASE TokenReceived(c)
  <2>1. PICK t \in token[c] : Returned(c) \/ Sending(c, t)
    BY <1>5 DEF TokenReceived
  <2>2. clock <= since[c] + Timeout /\ since[c] <= t.issued
    BY <1>i, <1>5, <2>1 DEF TokenReceived, RequestsInTime
  <2>3. clock < t.issued + t.lifetime
    BY <1>i, <1>t, <2>1, <2>2, TokenTimes
  <2>4. clock' = clock
    BY <1>5 DEF TokenReceived
  <2>5. CASE Returned(c)
    BY <1>i, <2>4, <2>5, OthersInTime DEF Returned
  <2>6. CASE Sending(c, t)
    BY <1>i, <1>t, <2>3, <2>4, <2>6, OthersInTime DEF Sending
  <2>7. QED
    BY <2>1, <2>5, <2>6
<1>6. CASE FetchFailed(c) \/ CallReturned(c)
  BY <1>i, <1>6, OthersInTime DEF FetchFailed, CallReturned, Returned
<1>7. QED
  BY <1>1, <1>2, <1>3, <1>4, <1>5, <1>6 DEF ClientCase

LEMMA MutexNext ==
  ASSUME ClientInv, NEW c \in Callers, ClientCase(c)
  PROVE  MutexHeld'
<1>m. MutexHeld /\ mu \subseteq Callers
  BY DEF ClientInv, TypeOK
<1>1. CASE Called(c) \/ CallReturned(c) \/ CacheUsed(c) \/ TokenIssued(c)
  <2>1. /\ mu' = mu /\ \A d \in Callers \ {c} : phase'[d] = phase[d]
        /\ phase'[c] = "fetching" <=> phase[c] = "fetching"
    BY <1>1 DEF Called, CallReturned, CacheUsed, TokenIssued, Returned, Sending, OthersStay
  <2>2. QED
    BY <1>m, <2>1 DEF MutexHeld
<1>2. CASE FetchBegun(c)
  BY <1>m, <1>2 DEF MutexHeld, FetchBegun, OthersStay
<1>3. CASE TokenReceived(c) \/ FetchFailed(c)
  <2>1. /\ mu' = {} /\ phase[c] = "fetching" /\ phase'[c] # "fetching"
        /\ \A d \in Callers \ {c} : phase'[d] = phase[d]
    BY <1>3 DEF TokenReceived, FetchFailed, Returned, Sending, OthersStay
  <2>2. QED
    BY <1>m, <2>1 DEF MutexHeld
<1>4. QED
  BY <1>1, <1>2, <1>3 DEF ClientCase

LEMMA RefreshNext ==
  ASSUME ClientInv, NEW c \in Callers, ClientCase(c)
  PROVE  ExpiryKnown' /\ EarlierRefreshes' /\ RefreshesAreSpaced'
<1>i. /\ TypeOK /\ MutexHeld /\ RequestsInTime /\ ExpiryKnown /\ EarlierRefreshes
      /\ RefreshesAreSpaced
  BY DEF ClientInv
<1>t. /\ clock \in Nat /\ tokenExpiry \in Nat /\ Timeout \in Nat /\ Margin \in Nat
      /\ \A a \in refreshes : a.received \in Nat /\ a.lifetime \in Nat
  BY <1>i, TokenTimes
<1>1. CASE Called(c) \/ CacheUsed(c) \/ TokenIssued(c) \/ CallReturned(c)
  <2>1. UNCHANGED <<clock, mu, accessToken, tokenExpiry, refreshes>>
    BY <1>1 DEF Called, CacheUsed, TokenIssued, CallReturned
  <2>2. QED
    BY <1>i, <2>1 DEF ExpiryKnown, EarlierRefreshes, RefreshesAreSpaced
<1>2. CASE FetchBegun(c)
  <2>1. UNCHANGED <<clock, accessToken, tokenExpiry, refreshes>>
    BY <1>2 DEF FetchBegun
  <2>2. accessToken # {} => tokenExpiry <= clock + Margin
    BY <1>t, <1>2 DEF FetchBegun, Usable
  <2>3. \A a \in refreshes : a.received + a.lifetime <= clock + Margin
    BY <1>i, <1>t, <2>2 DEF EarlierRefreshes
  <2>4. QED
    BY <1>i, <2>1, <2>3 DEF ExpiryKnown, EarlierRefreshes, RefreshesAreSpaced
<1>f. phase[c] = "fetching" =>
        \A a \in refreshes : a.received + a.lifetime <= clock + Margin
  BY <1>i DEF MutexHeld, EarlierRefreshes
<1>3. CASE FetchFailed(c)
  <2>1. UNCHANGED <<clock, accessToken, tokenExpiry, refreshes>> /\ phase[c] = "fetching"
    BY <1>3 DEF FetchFailed
  <2>2. QED
    BY <1>i, <1>f, <2>1 DEF ExpiryKnown, EarlierRefreshes, RefreshesAreSpaced
<1>4. CASE TokenReceived(c)
  <2>1. PICK t \in token[c] :
           /\ accessToken' = {t} /\ tokenExpiry' = clock + t.lifetime
           /\ refreshes' = refreshes \cup
                {[by |-> c, received |-> clock, lifetime |-> t.lifetime]}
    BY <1>4 DEF TokenReceived
  <2>2. phase[c] = "fetching" /\ mu' = {} /\ clock' = clock
    BY <1>4 DEF TokenReceived
  <2>3. t.issued \in Nat /\ t.lifetime \in Nat /\ since[c] \in Nat
    BY <1>i, <2>1, TokenTimes
  <2>4. clock <= since[c] + Timeout /\ since[c] <= t.issued
    BY <1>i, <2>1, <2>2 DEF RequestsInTime
  <2>5. ExpiryKnown'
    BY <1>t, <2>1, <2>3, <2>4 DEF ExpiryKnown
  <2> DEFINE new == [by |-> c, received |-> clock, lifetime |-> t.lifetime]
  <2>6. new.received = clock /\ new.lifetime = t.lifetime /\ refreshes' = refreshes \cup {new}
    BY <2>1
  <2>7. \A a \in refreshes : a.received + a.lifetime <= new.received + Margin
    BY <1>f, <2>2, <2>6
  <2> HIDE DEF new
  <2>8. EarlierRefreshes'
    BY <1>f, <2>1, <2>2, <2>6 DEF EarlierRefreshes
  <2>9. RefreshesAreSpaced'
    BY <1>i, <2>6, <2>7 DEF RefreshesAreSpaced
  <2>10. QED
    BY <2>5, <2>8, <2>9
<1>5. QED
  BY <1>1, <1>2, <1>3, <1>4 DEF ClientCase

LEMMA TickKeepsInv ==
  ASSUME ClientInv, Tick
  PROVE  ClientInv'
<1>i. /\ TypeOK /\ MutexHeld /\ RequestsInTime /\ ExpiryKnown /\ EarlierRefreshes
      /\ TokensAreValid /\ RefreshesAreSpaced
  BY DEF ClientInv
<1>1. /\ clock' = clock + 1
      /\ UNCHANGED <<mu, accessToken, tokenExpiry, phase, began, since, token, refreshes>>
      /\ \A c \in Callers : phase[c] \in {"fetching", "calling"} => ~(since[c] + Timeout <= clock)
  BY DEF Tick, Overdue
<1>2. TypeOK'
  BY <1>i, ClientTypeNext DEF Next
<1>3. RequestsInTime'
  <2>1. ASSUME NEW c \in Callers
        PROVE  /\ phase[c] \in {"fetching", "calling"} =>
                    since[c] <= clock + 1 /\ clock + 1 <= since[c] + Timeout
               /\ phase[c] = "fetching" =>
                    \A t \in token[c] : since[c] <= t.issued /\ t.issued <= clock + 1
               /\ phase[c] \notin {"fetching", "calling"} => token[c] = {}
    BY <1>i, <1>1, TokenTimes DEF RequestsInTime
  <2>2. QED
    BY <1>1, <2>1 DEF RequestsInTime
<1>4. EarlierRefreshes'
  <2>1. ASSUME NEW a \in refreshes
        PROVE  \/ a.received + a.lifetime <= clock + 1 + Margin
               \/ /\ mu = {} /\ accessToken # {}
                  /\ a.received + a.lifetime <= tokenExpiry
    BY <1>i, TokenTimes DEF EarlierRefreshes
  <2>2. QED
    BY <1>1, <2>1 DEF EarlierRefreshes
<1>5. MutexHeld' /\ ExpiryKnown' /\ TokensAreValid' /\ RefreshesAreSpaced'
  BY <1>i, <1>1 DEF MutexHeld, ExpiryKnown, TokensAreValid, RefreshesAreSpaced
<1>6. QED
  BY <1>2, <1>3, <1>4, <1>5 DEF ClientInv

LEMMA ClientInvNext == ClientInv /\ [Next]_vars => ClientInv'
<1> SUFFICES ASSUME ClientInv, [Next]_vars
             PROVE  ClientInv'
  OBVIOUS
<1>1. ASSUME NEW c \in Callers, CallerStep(c)
      PROVE  ClientInv'
  <2>1. TypeOK' /\ ClientCase(c)
    BY <1>1, ClientCases DEF ClientInv
  <2>2. QED
    BY <2>1, InTimeNext, MutexNext, RefreshNext DEF ClientInv
<1>2. CASE UNCHANGED vars
  BY <1>2 DEF vars, ClientInv, TypeOK, MutexHeld, RequestsInTime, ExpiryKnown,
              EarlierRefreshes, TokensAreValid, RefreshesAreSpaced
<1>3. QED
  BY <1>1, <1>2, TickKeepsInv DEF Next

LEMMA ClientInvAlways == Spec => []ClientInv
BY ClientInvInit, ClientInvNext, PTL DEF Spec

\* No request carries a token that MTN takes for expired, as long as the timeout
\* of the HTTP client does not exceed the margin of GetAccessToken.
THEOREM TokensStayValid == Spec => []TokensAreValid
BY ClientInvAlways, PTL DEF ClientInv

\* However many callers find the token stale at the same time, only one of them
\* replaces it before it is stale again.
THEOREM RefreshesStaySpaced == Spec => []RefreshesAreSpaced
BY ClientInvAlways, PTL DEF ClientInv


-----------------------------------------------------------------------------
(***************************************************************************)
(* How long a method may take.                                             *)
(***************************************************************************)

\* The callers that are through with GetAccessToken, one way or the other.
Through == {c \in Callers : phase[c] \in {"calling", "done"}}

\* A caller has waited for no more than one timeout for each of them.
TurnOf(c) == began[c] + Cardinality(Through) * Timeout

WaitsInTurn ==
  \A c \in Callers :
    /\ phase[c] = "locking" /\ mu = {} => clock <= TurnOf(c)
    /\ phase[c] \in {"locking", "fetching"} => \A d \in mu : since[d] <= TurnOf(c)
    /\ phase[c] = "calling" => since[c] <= TurnOf(c)

\* Through only grows, by the caller that has left GetAccessToken.
LEMMA ThroughGrows ==
  ASSUME TypeOK, NEW c \in Callers, ClientCase(c)
  PROVE  /\ Cardinality(Through) \in Nat /\ Cardinality(Through') \in Nat
         /\ Cardinality(Through) <= Cardinality(Through')
         /\ Cardinality(Through') <= Cardinality(Callers)
         /\ phase[c] = "fetching" /\ phase'[c] # "fetching" =>
              Cardinality(Through') = Cardinality(Through) + 1
<1>1. /\ Through \subseteq Callers /\ Through' \subseteq Callers
      /\ IsFiniteSet(Through) /\ IsFiniteSet(Through')
  BY FS_Subset DEF Through
<1>2. Through \subseteq Through'
  BY DEF Through, ClientCase, Called, CacheUsed, FetchBegun, TokenIssued, TokenReceived,
         FetchFailed, CallReturned, Returned, Sending, OthersStay
<1>3. phase[c] = "fetching" /\ phase'[c] # "fetching" =>
        Through' = Through \cup {c} /\ c \notin Through
  BY DEF Through, ClientCase, Called, CacheUsed, FetchBegun, TokenIssued, TokenReceived,
         FetchFailed, CallReturned, Returned, Sending, OthersStay
<1>4. QED
  BY <1>1, <1>2, <1>3, FS_CardinalityType, FS_Subset, FS_AddElement

LEMMA Turns ==
  ASSUME NEW m \in Nat, NEW n \in Nat, m <= n
  PROVE  /\ m * Timeout \in Nat /\ n * Timeout \in Nat
         /\ m * Timeout <= n * Timeout
         /\ (m + 1) * Timeout = m * Timeout + Timeout
<1>1. Timeout \in Nat
  OBVIOUS
<1>2. PICK k \in Nat : n = m + k
  <2>1. n - m \in Nat /\ n = m + (n - m)
    OBVIOUS
  <2>2. QED
    BY <2>1
<1>3. n * Timeout = m * Timeout + k * Timeout /\ k * Timeout \in Nat
  BY <1>1, <1>2
<1>4. QED
  BY <1>1, <1>3

LEMMA WaitsNext ==
  ASSUME ClientInv, WaitsInTurn, NEW c \in Callers, ClientCase(c)
  PROVE  WaitsInTurn'
<1> DEFINE T == Cardinality(Through) * Timeout
           N == Cardinality(Through') * Timeout
<1>i. TypeOK /\ MutexHeld /\ RequestsInTime
  BY DEF ClientInv
<1>t. /\ clock \in Nat /\ Timeout \in Nat
      /\ \A d \in Callers : since[d] \in Nat /\ began[d] \in Nat
      /\ mu \subseteq Callers
  BY <1>i, TokenTimes DEF TypeOK
<1>n. /\ T \in Nat /\ N \in Nat /\ T <= N
      /\ phase[c] = "fetching" /\ phase'[c] # "fetching" => N = T + Timeout
  BY <1>i, ThroughGrows, Turns
<1>w. \A d \in Callers :
        /\ phase[d] = "locking" /\ mu = {} => clock <= began[d] + T
        /\ phase[d] \in {"locking", "fetching"} => \A e \in mu : since[e] <= began[d] + T
        /\ phase[d] = "calling" => since[d] <= began[d] + T
  BY DEF WaitsInTurn, TurnOf
<1> HIDE DEF T, N
<1> SUFFICES ASSUME NEW d \in Callers
             PROVE  /\ phase'[d] = "locking" /\ mu' = {} => clock' <= began'[d] + N
                    /\ phase'[d] \in {"locking", "fetching"} =>
                         \A e \in mu' : since'[e] <= began'[d] + N
                    /\ phase'[d] = "calling" => since'[d] <= began'[d] + N
  BY DEF WaitsInTurn, TurnOf, N
<1>1. CASE Called(c)
  <2>1. /\ clock' = clock /\ mu' = mu /\ \A e \in mu : since'[e] = since[e]
    BY <1>t, <1>1 DEF Called, OthersStay
  <2>2. \A e \in mu : since[e] <= clock
    BY <1>i, <1>t DEF MutexHeld, RequestsInTime
  <2>3. CASE d = c
    BY <1>t, <1>n, <1>1, <2>1, <2>2, <2>3 DEF Called
  <2>4. CASE d # c
    BY <1>t, <1>n, <1>w, <1>1, <2>1, <2>4 DEF Called, OthersStay
  <2>5. QED
    BY <2>3, <2>4
<1>2. CASE CacheUsed(c)
  <2>1. /\ clock' = clock /\ mu' = {} /\ mu = {} /\ phase[c] = "locking"
    BY <1>2 DEF CacheUsed
  <2>2. CASE d = c
    BY <1>t, <1>n, <1>w, <1>2, <2>1, <2>2 DEF CacheUsed, Returned, Sending
  <2>3. CASE d # c
    BY <1>t, <1>n, <1>w, <1>2, <2>1, <2>3 DEF CacheUsed, Returned, Sending, OthersStay
  <2>4. QED
    BY <2>2, <2>3
<1>3. CASE FetchBegun(c)
  <2>1. /\ clock' = clock /\ mu' = {c} /\ mu = {} /\ phase[c] = "locking"
        /\ since'[c] = clock /\ \A e \in Callers : phase[e] # "fetching"
    BY <1>i, <1>3 DEF FetchBegun, MutexHeld
  <2>2. CASE d = c
    BY <1>t, <1>n, <1>w, <1>3, <2>1, <2>2 DEF FetchBegun
  <2>3. CASE d # c
    BY <1>t, <1>n, <1>w, <1>3, <2>1, <2>3 DEF FetchBegun, OthersStay
  <2>4. QED
    BY <2>2, <2>3
<1>4. CASE TokenIssued(c)
  <2>1. /\ clock' = clock /\ mu' = mu /\ phase'[d] = phase[d] /\ began'[d] = began[d]
        /\ \A e \in Callers : since'[e] = since[e]
    BY <1>4 DEF TokenIssued, OthersStay
  <2>2. QED
    BY <1>t, <1>n, <1>w, <2>1
<1>5. CASE TokenReceived(c) \/ FetchFailed(c)
  <2>1. /\ clock' = clock /\ mu' = {} /\ mu = {c} /\ phase[c] = "fetching"
        /\ phase'[c] \in {"calling", "done"}
        /\ phase'[c] = "calling" => since'[c] = clock /\ began'[c] = began[c]
        /\ \A e \in Callers \ {c} : /\ phase'[e] = phase[e] /\ began'[e] = began[e]
                                    /\ since'[e] = since[e]
    BY <1>i, <1>5
    DEF TokenReceived, FetchFailed, Returned, Sending, OthersStay, MutexHeld
  <2>2. clock <= since[c] + Timeout /\ N = T + Timeout
    BY <1>i, <1>n, <2>1 DEF RequestsInTime
  <2>3. CASE d = c
    BY <1>t, <1>n, <1>w, <2>1, <2>2, <2>3
  <2>4. CASE d # c
    BY <1>i, <1>t, <1>n, <1>w, <2>1, <2>2, <2>4 DEF MutexHeld
  <2>5. QED
    BY <2>3, <2>4
<1>6. CASE CallReturned(c)
  <2>1. /\ clock' = clock /\ mu' = mu /\ phase'[c] = "done" /\ c \notin mu
        /\ \A e \in Callers \ {c} : /\ phase'[e] = phase[e] /\ began'[e] = began[e]
                                    /\ since'[e] = since[e]
    BY <1>i, <1>6 DEF CallReturned, Returned, OthersStay, MutexHeld
  <2>2. CASE d = c
    BY <2>1, <2>2
  <2>3. CASE d # c
    BY <1>t, <1>n, <1>w, <2>1, <2>3
  <2>4. QED
    BY <2>2, <2>3
<1>7. QED
  BY <1>1, <1>2, <1>3, <1>4, <1>5, <1>6 DEF ClientCase

LEMMA WaitsStep == ClientInv /\ WaitsInTurn /\ [Next]_vars => WaitsInTurn'
<1>1. ASSUME ClientInv, WaitsInTurn, NEW c \in Callers, CallerStep(c)
      PROVE  WaitsInTurn'
  BY <1>1, ClientCases, WaitsNext DEF ClientInv
<1>2. ASSUME WaitsInTurn, Tick
      PROVE  WaitsInTurn'
  BY <1>2 DEF Tick, WaitsInTurn, TurnOf, Through
<1>3. ASSUME WaitsInTurn, UNCHANGED vars
      PROVE  WaitsInTurn'
  BY <1>3 DEF vars, WaitsInTurn, TurnOf, Through
<1>4. QED
  BY <1>1, <1>2, <1>3 DEF Next

\* A method returns within one timeout for each of the callers and one for its
\* own request, though they queue for the mutex.
THEOREM WaitStaysBounded == Spec => []WaitIsBounded
<1>1. Init => WaitsInTurn
  BY DEF Init, WaitsInTurn
<1>2. ClientInv /\ WaitsInTurn => WaitIsBounded
  <2> SUFFICES ASSUME ClientInv, WaitsInTurn, NEW c \in Callers,
                      phase[c] \notin {"idle", "done"}
               PROVE  clock <= began[c] + (Cardinality(Callers) + 1) * Timeout
    BY DEF WaitIsBounded
  <2> DEFINE T == Cardinality(Through) * Timeout
             All == Cardinality(Callers) * Timeout
  <2>1. TypeOK /\ MutexHeld /\ RequestsInTime
    BY DEF ClientInv
  <2>2. /\ clock \in Nat /\ Timeout \in Nat /\ mu \subseteq Callers
        /\ \A d \in Callers : since[d] \in Nat /\ began[d] \in Nat
    BY <2>1, TokenTimes DEF TypeOK
  <2>3. /\ Cardinality(Through) \in Nat /\ Cardinality(Callers) \in Nat
        /\ Cardinality(Through) <= Cardinality(Callers)
    <3>1. Through \subseteq Callers
      BY DEF Through
    <3>2. QED
      BY <3>1, FS_Subset, FS_CardinalityType
  <2>4. /\ T \in Nat /\ All \in Nat /\ T <= All
        /\ (Cardinality(Callers) + 1) * Timeout = All + Timeout
    BY <2>3, Turns
  <2>5. PICK start \in Nat : start <= began[c] + T /\ clock <= start + Timeout
    <3>1. CASE phase[c] = "calling"
      BY <2>1, <2>2, <3>1 DEF WaitsInTurn, TurnOf, RequestsInTime
    <3>2. CASE phase[c] \in {"locking", "fetching"} /\ mu # {}
      <4>1. PICK d \in mu : since[d] <= began[c] + T
        BY <3>2 DEF WaitsInTurn, TurnOf
      <4>2. clock <= since[d] + Timeout
        BY <2>1, <2>2, <4>1 DEF MutexHeld, RequestsInTime
      <4>3. QED
        BY <2>2, <4>1, <4>2
    <3>3. CASE phase[c] = "locking" /\ mu = {}
      BY <2>2, <3>3 DEF WaitsInTurn, TurnOf
    <3>4. phase[c] = "fetching" => mu # {}
      BY <2>1 DEF MutexHeld
    <3>5. phase[c] \in Phases
      BY <2>1 DEF TypeOK
    <3>6. QED
      BY <3>1, <3>2, <3>3, <3>4, <3>5 DEF Phases
  <2> HIDE DEF T, All
  <2>6. clock <= began[c] + (All + Timeout)
    BY <2>2, <2>4, <2>5
  <2>7. QED
    BY <2>4, <2>6
<1>3. QED
  BY <1>1, <1>2, WaitsStep, ClientInvAlways, PTL DEF Spec

=============================================================================
