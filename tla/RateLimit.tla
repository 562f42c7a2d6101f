----------------------------- MODULE RateLimit -----------------------------
(***************************************************************************)
(* Rate limiting of requests (rate_limit.rs).  Every network has a budget: *)
(* Burst requests at once and one more with every Interval.  A request     *)
(* over it waits, with others of its network and in no order, and is       *)
(* answered "429 Too Many Requests" when that would take too long.         *)
(*                                                                         *)
(* The budgets are those of governor: what a client has used is paid back  *)
(* as time passes.  Time is counted in ticks; a task may run late.         *)
(***************************************************************************)
EXTENDS Naturals, Sequences, FiniteSets

CONSTANTS
  Addresses,  \* of clients
  Network,    \* the network of an address: all of IPv4, the /64 of IPv6
  Loopback,   \* network of the local reverse proxy
  Requests,   \* requests under way at a time
  Burst,      \* RateLimitConfig.burst
  Interval,   \* ticks in a minute / RateLimitConfig.requests_per_minute
  MaxWait,    \* RateLimitConfig.max_wait in ticks
  MaxTime,    \* bound: ticks
  NoOne        \* no request

Networks == {Network[a] : a \in Addresses}

ASSUME RateLimitAssumption ==
  /\ DOMAIN Network = Addresses /\ Loopback \notin Networks
  /\ Burst \in Nat \ {0} /\ Interval \in Nat \ {0}
  /\ MaxWait \in Nat /\ MaxTime \in Nat

VARIABLES
  clock,
  used,    \* ticks until the budget of a network is whole; none for those not stored
  waiting  \* acquire of a request: whose, and ticks to its next try and to its timeout

VARIABLES
  served,    \* when requests from a network were let through
  overtaken  \* requests that saw another one of their network let through since they wait

limitVars == <<clock, used, waiting, served, overtaken>>

RateLimitTypeOK ==
  /\ clock \in 0 .. MaxTime
  /\ used \in [DOMAIN used -> 0 .. Burst * Interval] /\ DOMAIN used \subseteq Networks \cup {Loopback}
  /\ waiting \in [Requests -> {NoOne} \cup [key : Networks \cup {Loopback}, from : Networks,
                                           retry : 0 .. Interval, left : 0 .. MaxWait]]
  /\ served \in [Networks -> Seq(0 .. MaxTime)]
  /\ overtaken \subseteq Requests

RateLimitInit ==
  /\ clock = 0
  /\ used = [n \in {} |-> 0]
  /\ waiting = [r \in Requests |-> NoOne]
  /\ served = [n \in Networks |-> <<>>]
  /\ overtaken = {}

-----------------------------------------------------------------------------
(* governor *)

Used(n) == IF n \in DOMAIN used THEN used[n] ELSE 0

\* Ticks until a request fits into the budget.
WaitTime(n) ==
  LET over == Used(n) + Interval IN IF over > Burst * Interval THEN over - Burst * Interval ELSE 0

Fits(n) == WaitTime(n) = 0

Spend(n) == used' = [m \in DOMAIN used \cup {n} |-> IF m = n THEN Used(n) + Interval ELSE used[m]]

Minus(n) == IF n = 0 THEN 0 ELSE n - 1

\* Timers run out, budgets are paid back.
Tick ==
  /\ clock < MaxTime
  /\ clock' = clock + 1
  /\ used' = [n \in DOMAIN used |-> Minus(used[n])]
  /\ waiting' = [r \in Requests |->
       IF waiting[r] = NoOne THEN NoOne
       ELSE [waiting[r] EXCEPT !.retry = Minus(@), !.left = Minus(@)]]
  /\ UNCHANGED <<served, overtaken>>

-----------------------------------------------------------------------------
(* acquire *)

\* Mutant: the first address of the header, which is what the client claims.
ClientKeyFirst(direct, forwarded, from) ==
  IF direct THEN Network[from]
  ELSE IF forwarded = <<>> THEN Loopback ELSE Network[forwarded[1]]

\* client_key: the peer, or the address the local proxy has appended last.
ClientKey(direct, forwarded, from) ==
  IF direct THEN Network[from]
  ELSE IF forwarded = <<>> THEN Loopback ELSE Network[forwarded[Len(forwarded)]]

LetThrough(key, from) ==
  /\ Spend(key)
  /\ served' = [served EXCEPT ![from] = Append(@, clock)]

\* Requests of the network that go on waiting.
Others(r, from) == {s \in Requests \ {r} : waiting[s] # NoOne /\ waiting[s].from = from}

\* The first check, and until_key_ready under its timeout from then on.  (A
\* request that is exempt or carries the token of the operator does not come
\* here: nothing of the limiter changes with it.)
AcquireFor(r, key, from) ==
  /\ waiting[r] = NoOne
  /\ IF Fits(key)
       THEN /\ LetThrough(key, from)
            /\ overtaken' = overtaken \cup Others(r, from)
            /\ UNCHANGED waiting
       ELSE /\ WaitTime(key) <= MaxWait
            /\ waiting' = [waiting EXCEPT ![r] = [key |-> key, from |-> from,
                                                  retry |-> WaitTime(key), left |-> MaxWait]]
            /\ overtaken' = overtaken \ {r}
            /\ UNCHANGED <<used, served>>
  /\ UNCHANGED clock

\* The proxy appends the peer it has; what stands before is the client's.
Acquire(r) ==
  \E from \in Addresses, direct \in BOOLEAN, claimed \in {<<>>} \cup {<<a>> : a \in Addresses} :
    AcquireFor(r, ClientKey(direct, IF direct THEN claimed ELSE Append(claimed, from), from),
               Network[from])

Due(r) == waiting[r] # NoOne /\ (IF waiting[r] = NoOne THEN FALSE
                                ELSE waiting[r].retry = 0 \/ waiting[r].left = 0)

CanPass(r) == waiting[r].retry = 0 /\ Fits(waiting[r].key)

\* The timeout asks the limiter first, then its own clock.
TryAgain(r) ==
  /\ Due(r) /\ CanPass(r)
  /\ LetThrough(waiting[r].key, waiting[r].from)
  /\ overtaken' = (overtaken \ {r}) \cup Others(r, waiting[r].from)
  /\ waiting' = [waiting EXCEPT ![r] = NoOne]
  /\ UNCHANGED clock

WaitOn(r) ==
  /\ Due(r) /\ ~CanPass(r) /\ waiting[r].left > 0
  /\ waiting' = [waiting EXCEPT ![r].retry = WaitTime(waiting[r].key)]
  /\ UNCHANGED <<clock, used, served, overtaken>>

EndWait(r) ==
  /\ waiting' = [waiting EXCEPT ![r] = NoOne]
  /\ overtaken' = overtaken \ {r}
  /\ UNCHANGED <<clock, used, served>>

TimedOut(r) == Due(r) /\ ~CanPass(r) /\ waiting[r].left = 0

TooManyRequests(r) == TimedOut(r) /\ EndWait(r)

\* The client goes away, and the future of its request with it.
Leave(r) == waiting[r] # NoOne /\ EndWait(r)

\* Mutant: every budget is dropped, also that of a client who was just served.
CleanupAll ==
  /\ used' = [n \in {} |-> 0]
  /\ UNCHANGED <<clock, waiting, served, overtaken>>

\* spawn_cleanup: retain_recent drops budgets that are whole.
Cleanup ==
  /\ used' = [n \in {m \in DOMAIN used : used[m] > 0} |-> used[n]]
  /\ UNCHANGED <<clock, waiting, served, overtaken>>

RateLimitNext ==
  \/ Tick \/ Cleanup
  \/ \E r \in Requests :
       Acquire(r) \/ TryAgain(r) \/ WaitOn(r) \/ TooManyRequests(r) \/ Leave(r)

RateLimitSpec == RateLimitInit /\ [][RateLimitNext]_limitVars

-----------------------------------------------------------------------------

\* In no stretch of time more requests from a network are let through than its
\* burst and one for every interval of it, whatever its clients claim in their
\* headers, however many of them wait, and however often budgets are dropped.
RateKept ==
  \A n \in Networks : \A i \in DOMAIN served[n] : \A j \in i .. Len(served[n]) :
    j - i + 1 <= Burst + (served[n][j] - served[n][i]) \div Interval

\* A request that has waited is rejected only if others of its network were let
\* through instead: "requests over the rate are delayed until the client's
\* budget allows them" (rate_limit.rs).
RejectedForOthers == \A r \in Requests : TimedOut(r) => r \in overtaken

\* The rate is kept, and with no more rejections than that takes.
BudgetKept == RateKept /\ RejectedForOthers

=============================================================================
