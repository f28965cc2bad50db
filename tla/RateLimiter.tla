------------------------------ MODULE RateLimiter ------------------------------
(***************************************************************************)
(* The rate limit of the web application (apps/web/src/middleware.ts): a   *)
(* map from client (address, device fingerprint and path) to the number of *)
(* requests since the start of its window.  One request is handled without *)
(* a pause, so it is one step.                                             *)
(*                                                                         *)
(* Time is a number of ticks, and what is kept of an instant is how long   *)
(* ago it was, up to the first tick at which that no longer matters.       *)
(***************************************************************************)
EXTENDS Integers

CONSTANTS
    Clients,     \* keys of the map
    ClientSets,  \* those that ask, in a behaviour
    Limit,       \* maxRequests, for the path of each
    Window       \* windowMs, in ticks

ASSUME RateAssumption ==
    /\ ClientSets \subseteq SUBSET Clients
    /\ Limit \in [Clients -> Nat \ {0}]
    /\ Window \in Nat \ {0}

VARIABLES
    asking,   \* the clients of this behaviour
    windows,  \* the map: requests and age of each client's window
    granted,  \* requests let through, by how many ticks ago
    answer    \* the last request and its answer, within this tick

rateVars == <<asking, windows, granted, answer>>

NoWindow == [requests |-> 0, age |-> 0]
NoAnswer == [limited |-> FALSE, to |-> {}]
Ages == 0 .. Window

RateInit ==
    /\ asking \in ClientSets
    /\ windows = [k \in Clients |-> NoWindow]
    /\ granted = [k \in Clients |-> [a \in Ages |-> 0]]
    /\ answer = NoAnswer

Expired(w) == w = NoWindow \/ w.age > Window

(* cleanupRateLimit, in one request out of ten.                            *)
Swept == [k \in Clients |-> IF Expired(windows[k]) THEN NoWindow ELSE windows[k]]

(* A request beyond the limit counts but does not extend the window.  The  *)
(* number is kept up to Limit + 1.  Mutant: it restarts the window.        *)
CountedAnew(w, k) == [requests |-> IF w.requests > Limit[k] THEN w.requests ELSE w.requests + 1, age |-> 0]
Counted(w, k) == [w EXCEPT !.requests = IF @ > Limit[k] THEN @ ELSE @ + 1]

(* Mutant: the limit itself is let through once more.                      *)
LimitedLate(k, w) == w.requests - 1 > Limit[k]
Limited(k, w) == w.requests > Limit[k]

(* isRateLimited, and the answer of the middleware.                        *)
Ask(k) ==
    \E map \in {windows, Swept} :
        LET w == IF Expired(map[k]) THEN [requests |-> 1, age |-> 0] ELSE Counted(map[k], k)
            limited == ~Expired(map[k]) /\ Limited(k, w)
        IN  /\ k \in asking
            /\ windows' = [map EXCEPT ![k] = w]
            /\ granted' = IF limited THEN granted ELSE [granted EXCEPT ![k][0] = @ + 1]
            /\ answer' = [limited |-> limited, to |-> {k}]
            /\ UNCHANGED asking

RateTick ==
    /\ windows' = [k \in Clients |->
         IF windows[k] = NoWindow \/ windows[k].age > Window THEN windows[k]
         ELSE [windows[k] EXCEPT !.age = @ + 1]]
    /\ granted' = [k \in Clients |-> [a \in Ages |-> IF a = 0 THEN 0 ELSE granted[k][a - 1]]]
    /\ answer' = NoAnswer
    /\ UNCHANGED asking

(* The map is lost with its process; what it let through is forgotten too. *)
RateRestart ==
    /\ windows' = [k \in Clients |-> NoWindow]
    /\ granted' = [k \in Clients |-> [a \in Ages |-> 0]]
    /\ answer' = NoAnswer
    /\ UNCHANGED asking

RateNext == (\E k \in Clients : Ask(k)) \/ RateTick \/ RateRestart
RateSpec == RateInit /\ [][RateNext]_rateVars

----------------------------------------------------------------------------
UpTo(g) ==
    LET upTo[age \in Ages] == IF age = 0 THEN g[0] ELSE upTo[age - 1] + g[age] IN upTo
Recent(k) == UpTo(granted[k])[Window]

(* Over any stretch of Window a client is let through at most twice its    *)
(* limit, because two windows may meet in it; and it is refused only after *)
(* its limit was let through within Window, however the sweeps that other  *)
(* clients' requests cause fall.                                           *)
RatesKept ==
    /\ \A k \in Clients : Recent(k) <= 2 * Limit[k]
    /\ answer.limited => \A k \in answer.to : Recent(k) >= Limit[k]

(* A client that keeps asking, refused or not, is let through again and    *)
(* again.                                                                  *)
Served(k) == k \in answer.to /\ ~answer.limited
EveryClientServed == \A k \in Clients : []<>(Served(k) \/ k \notin asking)

=============================================================================
