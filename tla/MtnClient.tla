----------------------------- MODULE MtnClient ------------------------------
(***************************************************************************)
(* CollectionClient of internal/mtnmomo: the access token that all HTTP    *)
(* handlers of the API process share.  GetAccessToken holds the mutex      *)
(* while it asks MTN for a token; the token is used after the unlock.      *)
(*                                                                         *)
(* MTN counts a token's lifetime from its issue, the client from the       *)
(* arrival of the answer.  What makes up for the difference is the margin  *)
(* of 30 seconds, against the HTTP client's timeout of 30 seconds.         *)
(***************************************************************************)
EXTENDS Naturals, FiniteSets

CONSTANTS
  Callers,     \* the calls of the client's methods, each made once
  Requesters,  \* those that go on to send a request with the token
  Timeout,     \* httpClient.Timeout
  Margin,      \* how long before its expiry a token is not used any more
  Lifetimes,   \* the values of expires_in
  MaxTime      \* bound on the clock

ASSUME CallersAssumption == IsFiniteSet(Callers)
ASSUME RequestersAssumption == Requesters \subseteq Callers
ASSUME TimesAssumption ==
  /\ Timeout \in Nat /\ Margin \in Nat /\ MaxTime \in Nat
  /\ Timeout <= Margin
ASSUME LifetimesAssumption ==
  Lifetimes \subseteq Nat /\ \A l \in Lifetimes : Timeout < l

VARIABLES
  clock,
  mu,            \* c.mu: the caller that holds it, if any
  accessToken,   \* c.accessToken: a token, or none
  tokenExpiry,   \* c.tokenExpiry
  phase,         \* [Callers -> Phases]
  began,         \* [Callers -> Nat]: when the method was called
  since,         \* [Callers -> Nat]: when the HTTP request under way was sent
  token,         \* [Callers -> SUBSET Token]: issued or handed to the caller
  refreshes      \* history of the tokens received, which no action reads

vars == <<clock, mu, accessToken, tokenExpiry, phase, began, since, token, refreshes>>

\* A token as MTN knows it.
Token == [issued : Nat, lifetime : Lifetimes]

Phases == {"idle", "locking", "fetching", "calling", "done"}

Refresh == [by : Callers, received : Nat, lifetime : Lifetimes]

Init ==
  /\ clock = 0
  /\ mu = {}
  /\ accessToken = {}
  /\ tokenExpiry = 0
  /\ phase = [c \in Callers |-> "idle"]
  /\ began = [c \in Callers |-> 0]
  /\ since = [c \in Callers |-> 0]
  /\ token = [c \in Callers |-> {}]
  /\ refreshes = {}

-----------------------------------------------------------------------------
\* GetAccessToken, or a method that calls it by bearerToken.
Call(c) ==
  /\ phase[c] = "idle"
  /\ phase' = [phase EXCEPT ![c] = "locking"]
  /\ began' = [began EXCEPT ![c] = clock]
  /\ UNCHANGED <<clock, mu, accessToken, tokenExpiry, since, token, refreshes>>

\* Mutant: a token is used to the end of its life.
UsableToTheEnd == accessToken # {} /\ clock < tokenExpiry

\* c.accessToken != "" && time.Now().Before(c.tokenExpiry.Add(-30*time.Second))
Usable == accessToken # {} /\ clock + Margin < tokenExpiry

\* The method returns; what it kept on its stack is gone.
Return(c) ==
  /\ phase' = [phase EXCEPT ![c] = "done"]
  /\ began' = [began EXCEPT ![c] = 0]
  /\ since' = [since EXCEPT ![c] = 0]
  /\ token' = [token EXCEPT ![c] = {}]

\* GetAccessToken has returned token t: a requester sends its request with it.
Proceed(c, t) ==
  \/ c \notin Requesters /\ Return(c)
  \/ /\ c \in Requesters
     /\ phase' = [phase EXCEPT ![c] = "calling"]
     /\ since' = [since EXCEPT ![c] = clock]
     /\ token' = [token EXCEPT ![c] = {t}]
     /\ UNCHANGED began

\* The lock is taken, the token is fresh, and the lock is released.
UseCached(c) ==
  /\ phase[c] = "locking"
  /\ mu = {}
  /\ Usable
  /\ \E t \in accessToken : Proceed(c, t)
  /\ UNCHANGED <<clock, mu, accessToken, tokenExpiry, refreshes>>

\* Mutant: the mutex is released before the request for a token.
BeginFetchUnlocked(c) ==
  /\ phase[c] = "locking"
  /\ mu = {}
  /\ ~Usable
  /\ phase' = [phase EXCEPT ![c] = "fetching"]
  /\ since' = [since EXCEPT ![c] = clock]
  /\ UNCHANGED <<clock, mu, accessToken, tokenExpiry, began, token, refreshes>>

\* The lock is taken and kept, and the token is asked for.
BeginFetch(c) ==
  /\ phase[c] = "locking"
  /\ mu = {}
  /\ ~Usable
  /\ mu' = {c}
  /\ phase' = [phase EXCEPT ![c] = "fetching"]
  /\ since' = [since EXCEPT ![c] = clock]
  /\ UNCHANGED <<clock, accessToken, tokenExpiry, began, token, refreshes>>

\* MTN issues a token at some moment before its answer arrives.
IssueToken(c) ==
  /\ phase[c] = "fetching"
  /\ token[c] = {}
  /\ \E l \in Lifetimes :
       token' = [token EXCEPT ![c] = {[issued |-> clock, lifetime |-> l]}]
  /\ UNCHANGED <<clock, mu, accessToken, tokenExpiry, phase, began, since, refreshes>>

\* The answer arrives, is cached and handed out, and the lock is released.
ReceiveToken(c) ==
  /\ phase[c] = "fetching"
  /\ \E t \in token[c] :
       /\ accessToken' = {t}
       /\ tokenExpiry' = clock + t.lifetime
       /\ refreshes' = refreshes \cup
            {[by |-> c, received |-> clock, lifetime |-> t.lifetime]}
       /\ Proceed(c, t)
  /\ mu' = {}
  /\ UNCHANGED clock

\* Mutant: an error returns without unlocking.
FetchFailsLocked(c) ==
  /\ phase[c] = "fetching"
  /\ Return(c)
  /\ UNCHANGED <<clock, mu, accessToken, tokenExpiry, refreshes>>

\* Mutant: an answer without a token is cached like any other.
FetchFailsCached(c) ==
  /\ phase[c] = "fetching"
  /\ mu' = {}
  /\ Return(c)
  /\ accessToken' = {[issued |-> clock, lifetime |-> 0]}
  /\ UNCHANGED <<clock, tokenExpiry, refreshes>>

\* No answer in time, the caller's context is cancelled, or the answer is not a
\* token: the error is returned, the cache stays, the lock is released.
FetchFails(c) ==
  /\ phase[c] = "fetching"
  /\ mu' = {}
  /\ Return(c)
  /\ UNCHANGED <<clock, accessToken, tokenExpiry, refreshes>>

\* RequestToPay and GetRequestToPayStatus after bearerToken: whatever the answer
\* is, or whether there is one, it does not touch the token.
CallReturns(c) ==
  /\ phase[c] = "calling"
  /\ Return(c)
  /\ UNCHANGED <<clock, mu, accessToken, tokenExpiry, refreshes>>

\* Mutant: an http.Client without a timeout.
NeverOverdue(c) == FALSE

\* The timeout of the request under way is over; it returns now.
Overdue(c) == phase[c] \in {"fetching", "calling"} /\ since[c] + Timeout <= clock

\* Time passes; it does not while the mutex is handed on.
Tick ==
  /\ clock < MaxTime
  /\ \A c \in Callers : ~Overdue(c)
  /\ mu = {} => \A c \in Callers : phase[c] # "locking"
  /\ clock' = clock + 1
  /\ UNCHANGED <<mu, accessToken, tokenExpiry, phase, began, since, token, refreshes>>

FetchReturns(c) == ReceiveToken(c) \/ FetchFails(c)

CallerStep(c) ==
  \/ Call(c) \/ UseCached(c) \/ BeginFetch(c)
  \/ IssueToken(c) \/ FetchReturns(c) \/ CallReturns(c)

Next == Tick \/ \E c \in Callers : CallerStep(c)

Spec == Init /\ [][Next]_vars

\* A mutex that stays free is taken, and every HTTP request returns.
Fairness ==
  \A c \in Callers :
    /\ WF_vars(UseCached(c) \/ BeginFetch(c))
    /\ WF_vars(FetchReturns(c))
    /\ WF_vars(CallReturns(c))

FairSpec == Spec /\ Fairness

-----------------------------------------------------------------------------
(***************************************************************************)
(* Properties.                                                             *)
(***************************************************************************)

\* Every variable has its type.
TypeOK ==
  /\ clock \in Nat /\ tokenExpiry \in Nat
  /\ mu \subseteq Callers
  /\ accessToken \subseteq Token
  /\ phase \in [Callers -> Phases]
  /\ began \in [Callers -> Nat] /\ since \in [Callers -> Nat]
  /\ token \in [Callers -> SUBSET Token]
  /\ refreshes \subseteq Refresh

\* A request is never sent with a token that MTN takes for expired, though the
\* client counts from the answer's arrival and uses the token after the unlock:
\* the margin covers the longest way an answer may take.
TokensAreValid ==
  \A c \in Callers : phase[c] = "calling" =>
    \A t \in token[c] : since[c] < t.issued + t.lifetime

\* Callers that find the token stale at the same time do not each fetch one:
\* from one refresh to any later one the first token comes within the margin of
\* its expiry.
RefreshesAreSpaced ==
  \A a, b \in refreshes :
    a # b => \/ a.received + a.lifetime <= b.received + Margin
             \/ b.received + b.lifetime <= a.received + Margin

\* Callers queue behind the one that asks for a token, and when that fails the
\* next one asks: with n callers a method takes up to n + 1 timeouts, and never
\* longer.
WaitIsBounded ==
  \A c \in Callers : phase[c] \notin {"idle", "done"} =>
    clock <= began[c] + (Cardinality(Callers) + 1) * Timeout

\* Every call returns: whoever fails while it holds the mutex lets go of it.
EveryCallReturns == \A c \in Callers : phase[c] = "locking" ~> phase[c] = "done"

=============================================================================
