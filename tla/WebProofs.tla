-------------------------------- MODULE WebProofs --------------------------------
(***************************************************************************)
(* The web application: its caches, its limit, its social accounts and its *)
(* views of governance, for any number of requests at once, clients,       *)
(* rollups, validators, flows and blocks, any window, limit and expiry,    *)
(* and any lag of the tables.                                              *)
(***************************************************************************)
EXTENDS RateLimiter, RollupRegistry, SocialLinks, GovernanceViews, NumberLemmas, FiniteSetTheorems,
        SequenceTheorems

----------------------------------------------------------------------------
(* The rollup registry: what is stored is never older than its stamp says, *)
(* because the stamp is taken before the query.                            *)
InService(number) == number \in configured .. canonical

(* A list that was read no longer ago than its stamp.                      *)
EntryInvariant ==
    entry # NoEntry =>
        /\ entry \in [active : Nat, read : Nat, stamped : Nat]
        /\ entry.read <= entry.stamped
        /\ InService(entry.active)

Asked == [stage : {"asked"}, begun : Nat]
Answered == [stage : {"read"}, begun : Nat, active : Nat, read : Nat]

LoadInvariant(l) ==
    /\ loading[l] \in {NotLoading} \cup Asked \cup Answered
    /\ loading[l] \in Answered =>
        /\ loading[l].read <= loading[l].begun
        /\ InService(loading[l].active)

RegistryInvariant ==
    /\ goal \in Nat /\ canonical \in Nat /\ table \in Nat /\ configured \in Nat
    /\ table <= canonical /\ configured <= canonical
    /\ DOMAIN loading = Loads
    /\ EntryInvariant
    /\ \A l \in Loads : LoadInvariant(l)
    /\ FreshWhenServed
    /\ NotBehindDeploy

LEMMA RegistryBegins == RegistryInit => RegistryInvariant
<1> SUFFICES ASSUME RegistryInit PROVE RegistryInvariant
  OBVIOUS
<1>1. goal \in Nat
  BY RegistryAssumption, Zenon DEF RegistryInit, RegistryAssumption
<1> QED
  BY <1>1
  DEF RegistryInit, RegistryInvariant, EntryInvariant, LoadInvariant, Asked, Answered, NotLoading,
      FreshWhenServed, NotBehindDeploy, NotServed

(* Ageing keeps the order of two ages.                                     *)
LEMMA OlderKeepsOrder ==
    ASSUME NEW a \in Nat, NEW b \in Nat, a <= b
    PROVE  Older(a) \in Nat /\ Older(b) \in Nat /\ Older(a) <= Older(b)
  BY RegistryAssumption DEF Older, RegistryAssumption

LEMMA RegistryKeepsInvariant ==
    ASSUME RegistryInvariant, [RegistryNext]_registryVars
    PROVE  RegistryInvariant'
<1> USE RegistryAssumption
    DEF RegistryInvariant, EntryInvariant, LoadInvariant, Asked, Answered, InService, FreshWhenServed,
        NotBehindDeploy, storeVars
<1>1. CASE BecomesCanonical \/ TableGains \/ TableLoses
  BY <1>1 DEF BecomesCanonical, TableGains, TableLoses
<1>2. CASE Hit
  BY <1>2 DEF Hit, Fresh, Respond
<1>3. ASSUME NEW l \in Loads, BeginLoad(l) PROVE RegistryInvariant'
  BY <1>3 DEF BeginLoad
<1>4. ASSUME NEW l \in Loads, ReadTable(l) PROVE RegistryInvariant'
  <2>1. loading[l] \in Asked
    BY <1>4 DEF ReadTable, NotLoading
  <2>2. ActiveOf(table) \in Nat /\ InService(ActiveOf(table))
    BY DEF ActiveOf
  <2>3. loading' = [loading EXCEPT ![l] =
          [stage |-> "read", begun |-> loading[l].begun, active |-> ActiveOf(table), read |-> 0]]
    BY <1>4 DEF ReadTable
  <2>4. ASSUME NEW k \in Loads PROVE LoadInvariant(k)'
    BY <1>4, <2>1, <2>2, <2>3 DEF ReadTable
  <2> QED
    BY <1>4, <2>4 DEF ReadTable
<1>5. ASSUME NEW l \in Loads, FinishLoad(l) PROVE RegistryInvariant'
  <2>1. loading[l] \in Answered
    BY <1>5 DEF FinishLoad, NotLoading
  <2>2. entry' = [active |-> loading[l].active, read |-> loading[l].read,
                  stamped |-> loading[l].begun]
    BY <1>5 DEF FinishLoad, Stamp
  <2>3. EntryInvariant'
    BY <1>5, <2>1, <2>2 DEF FinishLoad
  <2>4. ASSUME NEW k \in Loads PROVE LoadInvariant(k)'
    BY <1>5 DEF FinishLoad, NotLoading
  <2>5. served' = [cached |-> FALSE, active |-> loading[l].active, read |-> loading[l].read]
    BY <1>5 DEF FinishLoad, Respond
  <2> QED
    BY <1>5, <2>1, <2>3, <2>4, <2>5 DEF FinishLoad
<1>6. ASSUME NEW l \in Loads, LoadFails(l) PROVE RegistryInvariant'
  BY <1>6 DEF LoadFails, NotLoading
<1>7. CASE RegistryTick
  <2>1. EntryInvariant'
    <3>1. CASE entry = NoEntry
      BY <1>7, <3>1 DEF RegistryTick
    <3>2. CASE entry # NoEntry
      <4>1. entry' = [active |-> entry.active, read |-> Older(entry.read),
                      stamped |-> Older(entry.stamped)]
        BY <1>7, <3>2 DEF RegistryTick
      <4>2. Older(entry.read) <= Older(entry.stamped)
            /\ Older(entry.read) \in Nat /\ Older(entry.stamped) \in Nat
        BY <3>2, OlderKeepsOrder
      <4> QED
        BY <1>7, <3>2, <4>1, <4>2 DEF RegistryTick
    <3> QED
      BY <3>1, <3>2
  <2>2. ASSUME NEW l \in Loads PROVE LoadInvariant(l)'
    <3>1. CASE loading[l] = NotLoading
      BY <1>7, <3>1 DEF RegistryTick, NotLoading
    <3>2. CASE loading[l] \in Asked
      <4>1. loading'[l] = [stage |-> "asked", begun |-> Older(loading[l].begun)]
        BY <1>7, <3>2 DEF RegistryTick
      <4> QED
        BY <3>2, <4>1, OlderKeepsOrder DEF NotLoading
    <3>3. CASE loading[l] \in Answered
      <4>1. loading'[l] = [stage |-> "read", begun |-> Older(loading[l].begun),
                           active |-> loading[l].active, read |-> Older(loading[l].read)]
        BY <1>7, <3>3 DEF RegistryTick
      <4> QED
        BY <1>7, <3>3, <4>1, OlderKeepsOrder DEF RegistryTick
    <3> QED
      BY <3>1, <3>2, <3>3
  <2> QED
    BY <1>7, <2>1, <2>2 DEF RegistryTick, NotServed
<1>8. ASSUME NEW rollup \in 0 .. canonical, RegistryRestart(rollup) PROVE RegistryInvariant'
  BY <1>8 DEF RegistryRestart, NotLoading, NotServed
<1>9. CASE UNCHANGED registryVars
  BY <1>9 DEF registryVars
<1> QED
  BY <1>1, <1>2, <1>3, <1>4, <1>5, <1>6, <1>7, <1>8, <1>9 DEF RegistryNext, RegistryStep

(* No response from the cache shows the table as it was Ttl ago or before. *)
THEOREM CacheIsFresh == RegistrySpec => []FreshWhenServed
<1>1. RegistryInvariant => FreshWhenServed
  BY DEF RegistryInvariant
<1> QED
  BY <1>1, RegistryBegins, RegistryKeepsInvariant, PTL DEF RegistrySpec

(* No response goes behind the rollup the process was deployed for.        *)
THEOREM DeployedRollupServed == RegistrySpec => []NotBehindDeploy
<1>1. RegistryInvariant => NotBehindDeploy
  BY DEF RegistryInvariant
<1> QED
  BY <1>1, RegistryBegins, RegistryKeepsInvariant, PTL DEF RegistrySpec

----------------------------------------------------------------------------
(* The rate limiter: what was let through since the start of a window is   *)
(* what the window counts, up to the limit, and before that no more than   *)
(* the limit, because a window is only replaced when it has expired.       *)
Histories == [Ages -> Nat]
Adds(sum, g) ==
    /\ sum \in Histories /\ sum[0] = g[0]
    /\ \A a \in Ages : a # 0 => sum[a] = sum[a - 1] + g[a]

LEMMA SumsExist ==
    ASSUME NEW g \in Histories
    PROVE  Adds(UpTo(g), g)
<1> USE RateAssumption DEF RateAssumption, Ages, Histories
<1> DEFINE V == Nat
           base == g[0]
           step == [n \in Nat |-> [x \in Nat |-> IF n <= Window THEN x + g[n] ELSE x]]
           F(f) == f = [a \in Ages |-> IF a = 0 THEN g[0] ELSE f[a - 1] + g[a]]
<1>1. \E f \in [Nat -> Nat] : Runs(f, base, step)
  <2>1. base \in V
    OBVIOUS
  <2>2. step \in Steps(V)
    <3>1. ASSUME NEW n \in Nat, NEW x \in Nat
          PROVE  (IF n <= Window THEN x + g[n] ELSE x) \in Nat
      <4>1. CASE n <= Window
        <5>1. g[n] \in Nat
          BY <4>1
        <5> QED
          BY <4>1, <5>1
      <4>2. CASE ~(n <= Window)
        BY <4>2
      <4> QED
        BY <4>1, <4>2
    <3> QED
      BY <3>1 DEF Steps
  <2> HIDE DEF base, step
  <2>3. \E f \in [Nat -> V] : Runs(f, base, step)
    BY <2>1, <2>2, RecursionOverNat
  <2> QED
    BY <2>3
<1>2. PICK f \in [Nat -> Nat] : Runs(f, base, step)
  BY <1>1
<1>3. f[0] = g[0] /\ \A n \in Nat : n # 0 /\ n <= Window => f[n] = f[n - 1] + g[n]
  <2>1. ASSUME NEW n \in Nat, n # 0, n <= Window PROVE f[n] = f[n - 1] + g[n]
    <3>1. n - 1 \in Nat
      BY <2>1
    <3>2. f[n - 1] \in Nat
      BY <1>2, <3>1
    <3>3. f[n] = step[n][f[n - 1]]
      BY <1>2, <2>1 DEF Runs
    <3> QED
      BY <2>1, <3>2, <3>3
  <2> QED
    BY <1>2, <2>1 DEF Runs
<1>4. F([a \in Ages |-> f[a]])
  <2>1. ASSUME NEW a \in Ages
        PROVE  f[a] = IF a = 0 THEN g[0] ELSE [b \in Ages |-> f[b]][a - 1] + g[a]
    BY <1>3
  <2> QED
    BY <2>1
<1>5. F(UpTo(g))
  <2>1. UpTo(g) = CHOOSE s : F(s)
    BY DEF UpTo
  <2> HIDE DEF F
  <2> QED
    BY <1>4, <2>1
<1>6. \A n \in Nat : n <= Window => UpTo(g)[n] = f[n]
  <2> DEFINE T == {n \in Nat : n <= Window => UpTo(g)[n] = f[n]}
  <2>1. 0 \in T
    BY <1>3, <1>5
  <2>2. ASSUME NEW n \in T PROVE n + 1 \in T
    <3>1. CASE n + 1 <= Window
      <4>1. n \in Nat /\ UpTo(g)[n] = f[n] /\ n + 1 \in Ages /\ n + 1 # 0 /\ (n + 1) - 1 = n
        BY <3>1
      <4>2. \A a \in Ages : UpTo(g)[a] = IF a = 0 THEN g[0] ELSE UpTo(g)[a - 1] + g[a]
        <5> DEFINE u == UpTo(g)
        <5>1. u = [a \in Ages |-> IF a = 0 THEN g[0] ELSE u[a - 1] + g[a]]
          BY <1>5
        <5> HIDE DEF u
        <5>2. \A a \in Ages : u[a] = IF a = 0 THEN g[0] ELSE u[a - 1] + g[a]
          BY <5>1
        <5> QED
          BY <5>2 DEF u
      <4>3. UpTo(g)[n + 1] = UpTo(g)[n] + g[n + 1]
        BY <4>1, <4>2
      <4>4. f[n + 1] = f[n] + g[n + 1]
        BY <1>3, <3>1, <4>1
      <4> QED
        BY <4>1, <4>3, <4>4
    <3>2. CASE ~(n + 1 <= Window)
      BY <3>2
    <3> QED
      BY <3>1, <3>2
  <2>3. T \subseteq Nat
    OBVIOUS
  <2>4. T = Nat
    <3> HIDE DEF T
    <3> QED
      BY <2>1, <2>2, <2>3, Induction
  <2> QED
    BY <2>4
<1>7. UpTo(g) = [a \in Ages |-> f[a]]
  <2>1. UpTo(g) = [a \in Ages |-> UpTo(g)[a]]
    BY <1>5
  <2>2. \A a \in Ages : UpTo(g)[a] = f[a]
    BY <1>6
  <2> QED
    BY <2>1, <2>2
<1> DEFINE sum == [a \in Ages |-> f[a]]
<1>8. sum \in Histories
  <2>1. \A a \in Ages : a \in Nat
    OBVIOUS
  <2>2. f \in [Nat -> Nat]
    BY <1>2
  <2>3. \A a \in Ages : f[a] \in Nat
    <3> HIDE DEF Ages
    <3> QED
      BY <2>1, <2>2
  <2> QED
    BY <2>3
<1>9. ASSUME NEW a \in Ages, a # 0 PROVE sum[a] = sum[a - 1] + g[a]
  <2>1. a - 1 \in Ages /\ sum[a] = f[a] /\ sum[a - 1] = f[a - 1]
    BY <1>9
  <2> QED
    BY <1>3, <1>9, <2>1
<1>10. sum[0] = g[0]
  BY <1>3
<1> QED
  BY <1>7, <1>8, <1>9, <1>10 DEF Adds

(* The sums of a history whose latest number has grown, that has aged, and *)
(* that is empty.                                                          *)
LEMMA SumsOfNext ==
    ASSUME NEW g \in Histories
    PROVE  /\ \A a, b \in Ages : a <= b => UpTo(g)[a] <= UpTo(g)[b]
           /\ [g EXCEPT ![0] = @ + 1] \in Histories
           /\ \A a \in Ages : UpTo([g EXCEPT ![0] = @ + 1])[a] = UpTo(g)[a] + 1
<1> USE RateAssumption DEF RateAssumption, Ages, Histories
<1> DEFINE h == [g EXCEPT ![0] = @ + 1]
<1>1. h \in Histories /\ h[0] = g[0] + 1 /\ \A a \in Ages : a # 0 => h[a] = g[a]
  OBVIOUS
<1> HIDE DEF h
<1> DEFINE u == UpTo(g)
           v == UpTo(h)
<1>2. Adds(u, g) /\ Adds(v, h)
  BY <1>1, SumsExist
<1> HIDE DEF u, v
<1>3. \A n \in Nat : n <= Window => v[n] = u[n] + 1
  <2> DEFINE T == {n \in Nat : n <= Window => v[n] = u[n] + 1}
  <2>1. 0 \in T
    BY <1>1, <1>2 DEF Adds
  <2>2. ASSUME NEW n \in T PROVE n + 1 \in T
    <3>1. CASE n + 1 <= Window
      <4>1. n \in Ages /\ n + 1 \in Ages /\ n + 1 # 0 /\ (n + 1) - 1 = n /\ v[n] = u[n] + 1
        BY <3>1
      <4>2. v[n + 1] = v[n] + h[n + 1] /\ u[n + 1] = u[n] + g[n + 1] /\ h[n + 1] = g[n + 1]
        BY <1>1, <1>2, <4>1 DEF Adds
      <4>3. u[n] \in Nat /\ g[n + 1] \in Nat
        BY <1>2, <4>1 DEF Adds
      <4> QED
        BY <4>1, <4>2, <4>3
    <3>2. CASE ~(n + 1 <= Window)
      BY <3>2
    <3> QED
      BY <3>1, <3>2
  <2>3. T \subseteq Nat
    OBVIOUS
  <2>4. T = Nat
    <3> HIDE DEF T
    <3> QED
      BY <2>1, <2>2, <2>3, Induction
  <2> QED
    BY <2>4
<1>4. ASSUME NEW a \in Ages
      PROVE  \A n \in Nat : a <= n /\ n <= Window => u[a] <= u[n]
  <2> DEFINE T == {n \in Nat : a <= n /\ n <= Window => u[a] <= u[n]}
  <2>1. 0 \in T
    BY <1>2 DEF Adds
  <2>2. ASSUME NEW n \in T PROVE n + 1 \in T
    <3>1. CASE a <= n /\ n + 1 <= Window
      <4>1. n \in Ages /\ n + 1 \in Ages /\ n + 1 # 0 /\ (n + 1) - 1 = n /\ u[a] <= u[n]
        BY <3>1
      <4>2. u[n + 1] = u[n] + g[n + 1]
        BY <1>2, <4>1 DEF Adds
      <4>3. u[n] \in Nat /\ u[a] \in Nat /\ g[n + 1] \in Nat
        BY <1>2, <4>1 DEF Adds
      <4> QED
        BY <4>1, <4>2, <4>3
    <3>2. CASE a = n + 1
      <4>1. n + 1 \in Ages /\ u[a] \in Nat
        BY <1>2, <3>2 DEF Adds
      <4> QED
        BY <3>2, <4>1
    <3>3. CASE ~(a <= n + 1 /\ n + 1 <= Window)
      BY <3>3
    <3> QED
      BY <3>1, <3>2, <3>3
  <2>3. T \subseteq Nat
    OBVIOUS
  <2>4. T = Nat
    <3> HIDE DEF T
    <3> QED
      BY <2>1, <2>2, <2>3, Induction
  <2> QED
    BY <2>4
<1>5. \A a \in Ages : a \in Nat /\ a <= Window
  OBVIOUS
<1> QED
  BY <1>1, <1>3, <1>4, <1>5 DEF h, u, v

Aged(g) == [a \in Ages |-> IF a = 0 THEN 0 ELSE g[a - 1]]
LEMMA SumsOfAged ==
    ASSUME NEW g \in Histories
    PROVE  /\ Aged(g) \in Histories
           /\ UpTo(Aged(g))[0] = 0
           /\ \A a \in Ages : a # 0 => UpTo(Aged(g))[a] = UpTo(g)[a - 1]
<1> USE RateAssumption DEF RateAssumption, Ages, Histories
<1> DEFINE h == Aged(g)
<1>1. h \in Histories /\ h[0] = 0 /\ \A a \in Ages : a # 0 => h[a] = g[a - 1]
  <2>1. \A a \in Ages : (IF a = 0 THEN 0 ELSE g[a - 1]) \in Nat
    OBVIOUS
  <2> QED
    BY <2>1 DEF Aged
<1> HIDE DEF h
<1> DEFINE u == UpTo(g)
           v == UpTo(h)
<1>2. Adds(u, g) /\ Adds(v, h)
  BY <1>1, SumsExist
<1> HIDE DEF u, v
<1>3. \A n \in Nat : n # 0 /\ n <= Window => v[n] = u[n - 1]
  <2> DEFINE T == {n \in Nat : n # 0 /\ n <= Window => v[n] = u[n - 1]}
  <2>1. 0 \in T
    OBVIOUS
  <2>2. ASSUME NEW n \in T PROVE n + 1 \in T
    <3>1. CASE n + 1 <= Window
      <4>1. n \in Ages /\ n + 1 \in Ages /\ n + 1 # 0 /\ (n + 1) - 1 = n /\ (n # 0 => v[n] = u[n - 1])
        <5>1. n \in Nat /\ n + 1 \in Nat /\ n <= Window
          BY <3>1
        <5>2. n # 0 => v[n] = u[n - 1]
          BY <5>1
        <5> QED
          BY <5>1, <5>2, <3>1
      <4>2. v[n + 1] = v[n] + h[n + 1] /\ (n # 0 => u[n] = u[n - 1] + g[n]) /\ h[n + 1] = g[n]
        BY <1>1, <1>2, <4>1 DEF Adds
      <4>3. n # 0 => n - 1 \in Ages
        BY <3>1
      <4>4. v[0] = 0 /\ u[0] = g[0] /\ u[0] \in Nat
        BY <1>1, <1>2 DEF Adds
      <4> QED
        BY <4>1, <4>2, <4>3, <4>4
    <3>2. CASE ~(n + 1 <= Window)
      BY <3>2
    <3> QED
      BY <3>1, <3>2
  <2>3. T \subseteq Nat
    OBVIOUS
  <2>4. T = Nat
    <3> HIDE DEF T
    <3> QED
      BY <2>1, <2>2, <2>3, Induction
  <2> QED
    BY <2>4
<1>4. v[0] = 0
  BY <1>1, <1>2 DEF Adds
<1> QED
  BY <1>1, <1>3, <1>4 DEF h, u, v

NothingLet == [a \in Ages |-> 0]
LEMMA SumsOfNothing ==
    NothingLet \in Histories /\ \A a \in Ages : UpTo(NothingLet)[a] = 0
<1> USE RateAssumption DEF RateAssumption, Ages, Histories
<1> DEFINE h == NothingLet
           v == UpTo(h)
<1>1. h \in Histories /\ \A a \in Ages : h[a] = 0
  BY DEF NothingLet
<1>2. Adds(v, h)
  BY <1>1, SumsExist
<1> HIDE DEF h, v
<1> DEFINE T == {n \in Nat : n <= Window => v[n] = 0}
<1>3. 0 \in T
  BY <1>1, <1>2 DEF Adds
<1>4. ASSUME NEW n \in T PROVE n + 1 \in T
  <2>1. n + 1 <= Window =>
        n + 1 \in Ages /\ n + 1 # 0 /\ (n + 1) - 1 = n /\ v[n] = 0
    OBVIOUS
  <2>2. n + 1 <= Window => v[n + 1] = v[n] + h[n + 1]
    BY <1>2, <2>1 DEF Adds
  <2> QED
    BY <1>1, <2>1, <2>2
<1>5. T \subseteq Nat
  OBVIOUS
<1>6. T = Nat
  <2> HIDE DEF T
  <2> QED
    BY <1>3, <1>4, <1>5, Induction
<1> QED
  BY <1>1, <1>6 DEF h, v

(* A window, what it let through, and the limit of its client.             *)
Windows == [requests : Nat, age : Nat]
AtMost(n, limit) == IF n <= limit THEN n ELSE limit
Counts(w, g, limit) ==
    /\ w.age <= Window + 1
    /\ w # NoWindow => w.requests \in 1 .. limit + 1
    /\ Expired(w) => UpTo(g)[0] = 0 /\ UpTo(g)[Window] <= limit
    /\ ~Expired(w) =>
        /\ UpTo(g)[w.age] = AtMost(w.requests, limit)
        /\ UpTo(g)[Window] - UpTo(g)[w.age] <= limit

RateInvariant ==
    /\ windows \in [Clients -> Windows]
    /\ granted \in [Clients -> Histories]
    /\ \A k \in Clients : Counts(windows[k], granted[k], Limit[k])
    /\ answer.to \subseteq Clients
    /\ answer.limited => \A k \in answer.to : ~Expired(windows[k]) /\ Limited(k, windows[k])

LEMMA RestartCounts ==
    ASSUME NEW k \in Clients
    PROVE  Counts(NoWindow, NothingLet, Limit[k])
  BY RateAssumption, SumsOfNothing DEF Counts, NoWindow, Expired, Ages, RateAssumption

LEMMA RateBegins == RateInit => RateInvariant
<1> SUFFICES ASSUME RateInit PROVE RateInvariant
  OBVIOUS
<1>1. \A k \in Clients : Counts(NoWindow, NothingLet, Limit[k])
  BY RestartCounts
<1>2. NothingLet \in Histories
  BY SumsOfNothing
<1> QED
  BY <1>1, <1>2 DEF RateInit, RateInvariant, Windows, NoWindow, NoAnswer, NothingLet

LEMMA TickCounts ==
    ASSUME NEW w \in Windows, NEW g \in Histories, NEW limit \in Nat \ {0}, Counts(w, g, limit)
    PROVE  Counts(IF w = NoWindow \/ w.age > Window THEN w ELSE [w EXCEPT !.age = @ + 1],
                  Aged(g), limit)
<1> USE RateAssumption DEF RateAssumption, Ages
<1>1. Aged(g) \in Histories /\ Window \in Ages /\ Window # 0 /\ Window - 1 \in Ages
  BY SumsOfAged
<1>2. UpTo(Aged(g))[0] = 0 /\ UpTo(Aged(g))[Window] = UpTo(g)[Window - 1]
  BY <1>1, SumsOfAged
<1>3. UpTo(g)[Window - 1] <= UpTo(g)[Window]
  <2>1. Window - 1 <= Window
    OBVIOUS
  <2>2. \A a, b \in Ages : a <= b => UpTo(g)[a] <= UpTo(g)[b]
    BY SumsOfNext
  <2> HIDE DEF Ages
  <2> QED
    BY <1>1, <2>1, <2>2
<1>4. UpTo(g) \in [Ages -> Nat]
  BY SumsExist DEF Adds, Histories
<1>5. UpTo(g)[Window] \in Nat /\ UpTo(g)[Window - 1] \in Nat
  BY <1>1, <1>4
<1>6. CASE Expired(w)
  <2>1. UpTo(Aged(g))[0] = 0 /\ UpTo(Aged(g))[Window] <= limit
    BY <1>2, <1>3, <1>5, <1>6 DEF Counts
  <2> QED
    BY <1>6, <2>1 DEF Counts, Expired
<1>7. CASE ~Expired(w)
  <2> DEFINE v == [w EXCEPT !.age = @ + 1]
  <2>1. w.age \in Ages /\ w # NoWindow /\ v.age = w.age + 1 /\ v.requests = w.requests
        /\ w.requests \in 1 .. limit + 1 /\ v # NoWindow
    BY <1>7 DEF Expired, Windows, NoWindow, Counts
  <2>2. UpTo(g)[w.age] = AtMost(w.requests, limit) /\ UpTo(g)[Window] - UpTo(g)[w.age] <= limit
        /\ UpTo(g)[w.age] \in Nat
    BY <1>4, <1>7, <2>1 DEF Counts
  <2>3. CASE w.age = Window
    <3>1. UpTo(g)[Window] <= limit
      BY <2>1, <2>2, <2>3 DEF AtMost
    <3>2. Expired(v)
      BY <2>1, <2>3 DEF Expired
    <3>3. UpTo(Aged(g))[Window] <= limit
      BY <1>2, <1>3, <1>5, <3>1
    <3> QED
      BY <1>2, <1>7, <2>1, <2>3, <3>2, <3>3 DEF Counts, Expired
  <2>4. CASE w.age < Window
    <3>1. ~Expired(v) /\ v.age \in Ages /\ v.age # 0 /\ v.age - 1 = w.age
      BY <2>1, <2>4 DEF Expired
    <3>2. UpTo(Aged(g))[v.age] = UpTo(g)[w.age]
      BY <3>1, SumsOfAged
    <3>3. UpTo(Aged(g))[Window] - UpTo(Aged(g))[v.age] <= limit
      BY <1>2, <1>3, <1>5, <2>2, <3>2
    <3> HIDE DEF v
    <3>4. Counts(v, Aged(g), limit)
      BY <2>1, <2>2, <2>4, <3>1, <3>2, <3>3 DEF Counts
    <3> QED
      BY <1>7, <3>4 DEF v, Expired
  <2> QED
    BY <2>1, <2>3, <2>4
<1> QED
  BY <1>6, <1>7

(* A request: the first of a window, one within it, and one beyond it.     *)
LEMMA AskCounts ==
    ASSUME NEW k \in Clients, NEW w \in Windows, NEW g \in Histories, Counts(w, g, Limit[k])
    PROVE  /\ Expired(w) => Counts([requests |-> 1, age |-> 0], [g EXCEPT ![0] = @ + 1], Limit[k])
           /\ ~Expired(w) /\ ~Limited(k, Counted(w, k)) =>
                Counts(Counted(w, k), [g EXCEPT ![0] = @ + 1], Limit[k])
           /\ ~Expired(w) /\ Limited(k, Counted(w, k)) => Counts(Counted(w, k), g, Limit[k])
           /\ ~Expired(w) => ~Expired(Counted(w, k))
           /\ Counted(w, k) \in Windows
<1> USE RateAssumption DEF RateAssumption, Ages
<1> DEFINE h == [g EXCEPT ![0] = @ + 1]
           limit == Limit[k]
           v == Counted(w, k)
<1>1. limit \in Nat \ {0}
  OBVIOUS
<1>2. UpTo(g) \in [Ages -> Nat] /\ \A a \in Ages : UpTo(h)[a] = UpTo(g)[a] + 1
  BY SumsExist, SumsOfNext DEF Adds, Histories
<1>3. 0 \in Ages /\ Window \in Ages /\ UpTo(g)[0] \in Nat /\ UpTo(g)[Window] \in Nat
  BY <1>2
<1>4. v \in Windows /\ v.age = w.age
      /\ v.requests = IF w.requests > limit THEN w.requests ELSE w.requests + 1
  BY <1>1 DEF Counted, Windows
<1> HIDE DEF h, limit, v
<1>5. ASSUME Expired(w) PROVE Counts([requests |-> 1, age |-> 0], h, limit)
  <2>1. UpTo(g)[0] = 0 /\ UpTo(g)[Window] <= limit
    BY <1>5 DEF Counts, limit
  <2> QED
    BY <1>1, <1>2, <1>3, <2>1 DEF Counts, Expired, NoWindow, AtMost
<1>6. ASSUME ~Expired(w)
      PROVE  /\ ~Expired(v)
             /\ v.requests <= limit => Counts(v, h, limit)
             /\ v.requests > limit => Counts(v, g, limit)
  <2>1. w # NoWindow /\ w.requests \in 1 .. limit + 1 /\ w.age \in Ages
    BY <1>6 DEF Counts, Expired, limit, Windows
  <2>2. UpTo(g)[w.age] = AtMost(w.requests, limit) /\ UpTo(g)[Window] - UpTo(g)[w.age] <= limit
        /\ UpTo(g)[w.age] \in Nat
    BY <1>2, <1>6, <2>1 DEF Counts, limit
  <2>3. ~Expired(v) /\ v # NoWindow /\ v.requests \in 1 .. limit + 1 /\ v.age \in Ages
    BY <1>1, <1>4, <2>1 DEF Expired, NoWindow
  <2>4. UpTo(h)[v.age] = UpTo(g)[w.age] + 1 /\ UpTo(h)[Window] = UpTo(g)[Window] + 1
    BY <1>2, <1>3, <1>4, <2>1
  <2>5. ASSUME v.requests <= limit PROVE Counts(v, h, limit)
    BY <1>1, <1>3, <1>4, <2>1, <2>2, <2>3, <2>4, <2>5 DEF Counts, AtMost
  <2>6. ASSUME v.requests > limit PROVE Counts(v, g, limit)
    BY <1>1, <1>3, <1>4, <2>1, <2>2, <2>3, <2>6 DEF Counts, AtMost
  <2> QED
    BY <2>3, <2>5, <2>6
<1>7. Limited(k, v) <=> v.requests > limit
  BY DEF Limited, limit
<1> QED
  BY <1>1, <1>4, <1>5, <1>6, <1>7 DEF h, limit, v, Windows

LEMMA SweptCounts ==
    ASSUME NEW w \in Windows, NEW g \in Histories, NEW limit \in Nat \ {0}, Counts(w, g, limit), Expired(w)
    PROVE  Counts(NoWindow, g, limit)
  BY RateAssumption DEF Counts, Expired, NoWindow, RateAssumption

LEMMA AskKeepsInvariant ==
    ASSUME RateInvariant, NEW k \in Clients, Ask(k)
    PROVE  RateInvariant'
<1> USE RateAssumption DEF RateAssumption, RateInvariant
<1> DEFINE Next(map) ==
        LET w == IF Expired(map[k]) THEN [requests |-> 1, age |-> 0] ELSE Counted(map[k], k)
            limited == ~Expired(map[k]) /\ Limited(k, w)
        IN  /\ windows' = [map EXCEPT ![k] = w]
            /\ granted' = IF limited THEN granted ELSE [granted EXCEPT ![k][0] = @ + 1]
            /\ answer' = [limited |-> limited, to |-> {k}]
<1>1. PICK map \in {windows, Swept} : Next(map)
  BY DEF Ask
<1>2. map \in [Clients -> Windows] /\ \A c \in Clients : Counts(map[c], granted[c], Limit[c])
  <2>1. CASE map = windows
    BY <2>1
  <2>2. CASE map = Swept
    <3>1. \A c \in Clients : Limit[c] \in Nat \ {0} /\ windows[c] \in Windows /\ granted[c] \in Histories
      OBVIOUS
    <3>2. \A c \in Clients : map[c] = IF Expired(windows[c]) THEN NoWindow ELSE windows[c]
      BY <2>2 DEF Swept
    <3>3. NoWindow \in Windows
      BY DEF NoWindow, Windows
    <3>4. map = [c \in Clients |-> IF Expired(windows[c]) THEN NoWindow ELSE windows[c]]
      BY <2>2 DEF Swept
    <3>5. map \in [Clients -> Windows]
      BY <3>1, <3>3, <3>4
    <3> QED
      BY <3>1, <3>2, <3>5, SweptCounts
  <2> QED
    BY <2>1, <2>2
<1> DEFINE w == IF Expired(map[k]) THEN [requests |-> 1, age |-> 0] ELSE Counted(map[k], k)
           limited == ~Expired(map[k]) /\ Limited(k, w)
           h == [granted[k] EXCEPT ![0] = @ + 1]
<1>3. granted[k] \in Histories /\ h \in Histories
  BY SumsOfNext
<1>4. w \in Windows /\ (limited => ~Expired(w)) /\ Counts(w, IF limited THEN granted[k] ELSE h, Limit[k])
  <2>1. map[k] \in Windows /\ Counts(map[k], granted[k], Limit[k])
    BY <1>2
  <2>2. [requests |-> 1, age |-> 0] \in Windows
    BY DEF Windows
  <2> QED
    BY <1>3, <2>1, <2>2, AskCounts
<1>5. granted' = [granted EXCEPT ![k] = IF limited THEN @ ELSE h]
  <2>1. CASE limited
    BY <1>1, <2>1
  <2>2. CASE ~limited
    BY <1>1, <2>2
  <2> QED
    BY <2>1, <2>2
<1>6. windows' = [map EXCEPT ![k] = w] /\ answer' = [limited |-> limited, to |-> {k}]
  BY <1>1
<1> HIDE DEF w, h
<1>7. windows' \in [Clients -> Windows] /\ granted' \in [Clients -> Histories]
  BY <1>2, <1>3, <1>4, <1>5, <1>6
<1>8. ASSUME NEW c \in Clients PROVE Counts(windows'[c], granted'[c], Limit[c])
  <2>1. CASE c = k
    <3>1. windows'[c] = w /\ granted'[c] = IF limited THEN granted[k] ELSE h
      BY <1>2, <1>5, <1>6, <2>1
    <3> QED
      BY <1>4, <2>1, <3>1
  <2>2. CASE c # k
    BY <1>2, <1>5, <1>6, <2>2
  <2> QED
    BY <2>1, <2>2
<1>9. limited => ~Expired(windows'[k]) /\ Limited(k, windows'[k])
  BY <1>2, <1>4, <1>6
<1> QED
  BY <1>6, <1>7, <1>8, <1>9

LEMMA RateKeepsInvariant ==
    ASSUME RateInvariant, [RateNext]_rateVars
    PROVE  RateInvariant'
<1> USE RateAssumption DEF RateAssumption, RateInvariant
<1>1. CASE \E k \in Clients : Ask(k)
  BY <1>1, AskKeepsInvariant
<1>2. CASE RateTick
  <2>1. granted' = [k \in Clients |-> Aged(granted[k])]
    BY <1>2 DEF RateTick, Aged
  <2>2. \A k \in Clients : Aged(granted[k]) \in Histories
    BY SumsOfAged
  <2>3. windows' \in [Clients -> Windows]
    BY <1>2 DEF RateTick, Windows
  <2>4. ASSUME NEW k \in Clients PROVE Counts(windows'[k], granted'[k], Limit[k])
    <3>1. windows'[k] = IF windows[k] = NoWindow \/ windows[k].age > Window THEN windows[k]
                        ELSE [windows[k] EXCEPT !.age = @ + 1]
      BY <1>2 DEF RateTick
    <3>2. windows[k] \in Windows /\ granted[k] \in Histories /\ Limit[k] \in Nat \ {0}
      OBVIOUS
    <3> QED
      BY <2>1, <3>1, <3>2, TickCounts
  <2>5. granted' \in [Clients -> Histories]
    BY <2>1, <2>2
  <2>6. answer' = NoAnswer
    BY <1>2 DEF RateTick
  <2> QED
    BY <2>3, <2>4, <2>5, <2>6 DEF NoAnswer
<1>3. CASE RateRestart
  <2>1. granted' = [k \in Clients |-> NothingLet] /\ windows' = [k \in Clients |-> NoWindow]
        /\ answer' = NoAnswer
    BY <1>3 DEF RateRestart, NothingLet
  <2>2. NothingLet \in Histories /\ NoWindow \in Windows
    BY SumsOfNothing DEF NoWindow, Windows
  <2> QED
    BY <2>1, <2>2, RestartCounts DEF NoAnswer
<1>4. CASE UNCHANGED rateVars
  BY <1>4 DEF rateVars
<1> QED
  BY <1>1, <1>2, <1>3, <1>4 DEF RateNext

(* No client is let through more than twice its limit within the window,   *)
(* and none is refused before its limit was let through within it, for     *)
(* any clients, limits and window, and wherever the sweeps fall.           *)
THEOREM LimitIsKept == RateSpec => []RatesKept
<1>1. ASSUME RateInvariant PROVE RatesKept
  <2> USE RateAssumption DEF RateAssumption, RateInvariant
  <2>1. ASSUME NEW k \in Clients
        PROVE  /\ Recent(k) <= 2 * Limit[k]
               /\ ~Expired(windows[k]) /\ Limited(k, windows[k]) => Recent(k) >= Limit[k]
    <3> DEFINE u == UpTo(granted[k])
               w == windows[k]
    <3>1. w \in Windows /\ Limit[k] \in Nat \ {0} /\ Counts(w, granted[k], Limit[k])
          /\ granted[k] \in Histories
      BY <1>1
    <3>2. u \in [Ages -> Nat] /\ \A a, b \in Ages : a <= b => u[a] <= u[b]
      BY <3>1, SumsExist, SumsOfNext DEF Adds, Histories
    <3>3. Window \in Ages /\ u[Window] \in Nat
      BY <3>2 DEF Ages
    <3>4. CASE Expired(w)
      BY <3>1, <3>3, <3>4 DEF Counts, Recent
    <3>5. CASE ~Expired(w)
      <4>1. w.age \in Ages /\ w.age <= Window /\ w.requests \in Nat
        BY <3>1, <3>5 DEF Counts, Expired, Windows, Ages
      <4>2. u[w.age] \in Nat /\ u[w.age] <= u[Window]
        BY <3>2, <3>3, <4>1
      <4>3. u[w.age] = AtMost(w.requests, Limit[k]) /\ u[Window] - u[w.age] <= Limit[k]
        BY <3>1, <3>5 DEF Counts
      <4> QED
        BY <3>1, <3>3, <4>1, <4>2, <4>3 DEF AtMost, Recent, Limited
    <3> QED
      BY <3>4, <3>5
  <2>2. answer.limited => \A k \in answer.to :
            k \in Clients /\ ~Expired(windows[k]) /\ Limited(k, windows[k])
    BY <1>1
  <2> QED
    BY <2>1, <2>2 DEF RatesKept
<1> QED
  BY <1>1, RateBegins, RateKeepsInvariant, PTL DEF RateSpec

----------------------------------------------------------------------------
(* The social accounts: an account is only shown for the validator its     *)
(* owner set out to verify, a flow is only refused because of another one  *)
(* or of time, and an account is not replaced by who found it on arrival.  *)
Accounts == Flows \cup {Nothing, Source, Custom}
Stages == {"new", "challenged", "away", "called", "verified", "linking", "cleaning",
           "leaving", "over"}
FlowRows == [at : Stages, target : Validators, row : Flows \cup {Nothing},
             named : BOOLEAN, refused : BOOLEAN, late : BOOLEAN]
ChallengeRows == [id : Flows \cup {Nothing}, holder : Flows \cup {Nothing}, old : BOOLEAN]
MigrationSteps == {"no", "listed", "found", "empty", "tracking"}

(* What the tables, the cookies and the flows look like.                   *)
SocialTypeOK ==
    /\ social \in SocialCases
    /\ profiles \in [Validators -> [Columns -> Accounts]]
    /\ challenges \in [Validators -> ChallengeRows]
    /\ session \in [Browsers -> Flows \cup {Nothing}]
    /\ flow \in [Flows -> FlowRows]
    /\ migrating \in [Validators -> MigrationSteps]

(* A flow only ever writes the row of its own validator, and the migration *)
(* only what the older database has.                                       *)
KeepsTarget == \A f \in Flows : flow[f].target = Of(f)
FoundInSource ==
    \A v \in Validators : migrating[v] \in {"found", "empty"} => v \in DOMAIN social.older
OwnInvariant == SocialTypeOK /\ KeepsTarget /\ FoundInSource /\ LinksOwn

(* The flows of a case are no validators and no other account, and each is *)
(* of one browser and one validator.                                       *)
LEMMA FlowFacts ==
    ASSUME social \in SocialCases
    PROVE  /\ \A f \in Flows : /\ f \notin {Nothing, Source, Custom} /\ Of(f) \in Validators
                               /\ Browser(f) \in Browsers
           /\ \A v \in DOMAIN social.older : social.older[v] \in [Columns -> {Nothing, Source}]
<1>1. \A f \in Flows : f \notin Validators \cup {Nothing, Source, Custom}
  BY SocialAssumption DEF Flows
<1>2. \A f \in Flows : social.flows[f] \in [browser : Nat, of : {"x", "discord"}, validator : Validators]
  BY SocialAssumption DEF Flows
<1>3. \A v \in DOMAIN social.older : social.older[v] \in [Columns -> {Nothing, Source}]
  BY SocialAssumption
<1> QED
  BY <1>1, <1>2, <1>3 DEF Of, Browser, Browsers

LEMMA InitOwn == SocialInit => OwnInvariant
<1> SUFFICES ASSUME SocialInit PROVE OwnInvariant
  OBVIOUS
<1>1. social \in SocialCases
  BY DEF SocialInit
<1>2. SocialTypeOK
  BY <1>1, FlowFacts DEF SocialInit, SocialTypeOK, Accounts, NoProfile, NoChallenge, NewFlow,
     Stages, MigrationSteps, FlowRows, ChallengeRows
<1>3. KeepsTarget
  BY DEF SocialInit, KeepsTarget, NewFlow
<1>4. FoundInSource
  BY DEF SocialInit, FoundInSource
<1>5. LinksOwn
  BY <1>1, FlowFacts DEF SocialInit, LinksOwn, NoProfile, Columns
<1> QED
  BY <1>2, <1>3, <1>4, <1>5 DEF OwnInvariant

(* The case of a behaviour never changes, nor what is defined by it.       *)
LEMMA SameCase ==
    ASSUME UNCHANGED social
    PROVE  /\ Flows' = Flows /\ Browsers' = Browsers /\ Accounts' = Accounts
           /\ FlowRows' = FlowRows /\ ChallengeRows' = ChallengeRows
           /\ \A g : Of(g)' = Of(g) /\ Browser(g)' = Browser(g) /\ IsX(g)' = IsX(g)
BY DEF Flows, Browsers, Accounts, FlowRows, ChallengeRows, Of, Browser, IsX

(* The steps of a flow.  Its callback takes the target from the cookie,    *)
(* which is this flow's own as soon as the state is valid.                 *)
LEMMA FlowMoves ==
    ASSUME SocialTypeOK, KeepsTarget, NEW f \in Flows, FlowStep(f)
    PROVE  \E row \in FlowRows :
              /\ flow' = [flow EXCEPT ![f] = row]
              /\ row.target = Of(f) /\ row.at # "new" /\ row.late = flow[f].late
              /\ flow[f].refused => row.refused
<1>1. flow \in [Flows -> FlowRows] /\ flow[f] \in FlowRows /\ flow[f].target = Of(f)
  BY DEF SocialTypeOK, KeepsTarget
<1>2. \A stage \in Stages, refused, named \in BOOLEAN, key \in Flows \cup {Nothing} :
        /\ [flow[f] EXCEPT !.at = stage] \in FlowRows
        /\ [flow[f] EXCEPT !.at = stage, !.refused = refused] \in FlowRows
        /\ [flow[f] EXCEPT !.at = stage, !.named = named] \in FlowRows
        /\ [flow[f] EXCEPT !.at = stage, !.row = key] \in FlowRows
        /\ [flow[f] EXCEPT !.at = stage, !.target = Of(f)] \in FlowRows
  BY <1>1 DEF FlowRows
<1> DEFINE Moved ==
        \E row \in FlowRows :
            /\ flow' = [flow EXCEPT ![f] = row]
            /\ row.target = Of(f) /\ row.at # "new" /\ row.late = flow[f].late
            /\ flow[f].refused => row.refused
<1>3. ASSUME NEW stage \in Stages \ {"new"}, Goes(f, stage) PROVE Moved
  <2>1. [flow[f] EXCEPT !.at = stage] \in FlowRows
    BY <1>2
  <2> QED
    BY <1>1, <1>3, <2>1 DEF Goes, FlowRows
<1>4. ASSUME Refused(f) PROVE Moved
  <2>1. [flow[f] EXCEPT !.at = "leaving", !.refused = TRUE] \in FlowRows
    BY <1>2 DEF Stages
  <2> QED
    BY <1>1, <1>4, <2>1 DEF Refused, FlowRows
<1>5. CASE GetChallenge(f) \/ Initiate(f) \/ CleanupChallenge(f) \/ LinkX(f) \/ LinkDiscord(f)
             \/ FlowFails(f) \/ FlowDies(f) \/ Leave(f)
  <2>1. \E stage \in Stages \ {"new"} : Goes(f, stage)
    BY <1>5 DEF GetChallenge, Initiate, CleanupChallenge, LinkX, LinkDiscord, FlowFails, FlowDies,
       Leave, Stages
  <2> QED
    BY <1>3, <2>1
<1>6. CASE Callback(f)
  <2>1. Refused(f) \/ flow' = [flow EXCEPT ![f].at = "called", ![f].target = Of(f)]
    BY <1>6 DEF Callback, StateValid
  <2>2. [flow[f] EXCEPT !.at = "called", !.target = Of(f)] \in FlowRows
    BY <1>2 DEF Stages
  <2> QED
    BY <1>1, <1>4, <2>1, <2>2 DEF FlowRows
<1>7. CASE VerifyChallenge(f)
  <2>1. Refused(f) \/ \E key \in Flows \cup {Nothing} :
            flow' = [flow EXCEPT ![f].at = "verified", ![f].row = key]
    BY <1>1, <1>7 DEF VerifyChallenge, SocialTypeOK, FlowRows, ChallengeRows
  <2>2. ASSUME NEW key \in Flows \cup {Nothing},
               flow' = [flow EXCEPT ![f].at = "verified", ![f].row = key]
        PROVE  Moved
    <3>1. [flow[f] EXCEPT !.at = "verified", !.row = key] \in FlowRows
      BY <1>2 DEF Stages
    <3> QED
      BY <1>1, <2>2, <3>1 DEF FlowRows
  <2> QED
    BY <1>4, <2>1, <2>2
<1>8. CASE CheckProfile(f)
  <2>1. Goes(f, "leaving") \/ \E named \in BOOLEAN :
            flow' = [flow EXCEPT ![f].at = "linking", ![f].named = named]
    BY <1>8 DEF CheckProfile
  <2>2. ASSUME NEW named \in BOOLEAN,
               flow' = [flow EXCEPT ![f].at = "linking", ![f].named = named]
        PROVE  Moved
    <3>1. [flow[f] EXCEPT !.at = "linking", !.named = named] \in FlowRows
      BY <1>2 DEF Stages
    <3> QED
      BY <1>1, <2>2, <3>1 DEF FlowRows
  <2>3. "leaving" \in Stages \ {"new"}
    BY DEF Stages
  <2> QED
    BY <1>3, <2>1, <2>2, <2>3
<1> QED
  BY <1>5, <1>6, <1>7, <1>8 DEF FlowStep

LEMMA FlowOwn ==
    ASSUME OwnInvariant, NEW f \in Flows, FlowStep(f)
    PROVE  OwnInvariant'
<1> USE DEF OwnInvariant, SocialTypeOK
<1>1. UNCHANGED <<social, migrating>>
  BY DEF FlowStep, GetChallenge, Initiate, Callback, VerifyChallenge, CheckProfile, LinkX,
     CleanupChallenge, LinkDiscord, FlowFails, FlowDies, Leave, migrationVars
<1>2. /\ Flows' = Flows /\ Browsers' = Browsers /\ Accounts' = Accounts
      /\ FlowRows' = FlowRows /\ ChallengeRows' = ChallengeRows
      /\ \A g : Of(g)' = Of(g)
  BY <1>1, SameCase
<1>3. flow \in [Flows -> FlowRows] /\ flow[f] \in FlowRows /\ flow[f].target = Of(f)
  BY DEF KeepsTarget
<1>4. flow' \in [Flows -> FlowRows] /\ \A g \in Flows : flow'[g].target = Of(g)
  BY <1>3, FlowMoves DEF KeepsTarget
<1>5. Of(f) \in Validators /\ Browser(f) \in Browsers /\ f \in Accounts
  BY FlowFacts DEF Accounts
<1>6. session' \in [Browsers -> Flows \cup {Nothing}]
  BY <1>5 DEF FlowStep, GetChallenge, Initiate, Callback, VerifyChallenge, CheckProfile, LinkX,
     CleanupChallenge, LinkDiscord, FlowFails, FlowDies, Leave, rowVars
<1>7. challenges' \in [Validators -> ChallengeRows]
  <2>1. Cleaned \in [Validators -> ChallengeRows] /\ NoChallenge \in ChallengeRows
    BY DEF Cleaned, NoChallenge, ChallengeRows
  <2>2. ASSUME GetChallenge(f) PROVE challenges' \in [Validators -> ChallengeRows]
    BY <1>5, <2>1, <2>2 DEF GetChallenge, ChallengeRows
  <2>3. ASSUME CleanupChallenge(f) PROVE challenges' \in [Validators -> ChallengeRows]
    BY <1>3, <1>5, <2>1, <2>3 DEF CleanupChallenge
  <2>4. GetChallenge(f) \/ CleanupChallenge(f) \/ UNCHANGED challenges
    BY DEF FlowStep, Initiate, Callback, VerifyChallenge, CheckProfile, LinkX, LinkDiscord,
       FlowFails, FlowDies, Leave, rowVars
  <2> QED
    BY <2>2, <2>3, <2>4
<1>8. profiles' \in [Validators -> [Columns -> Accounts]] /\ LinksOwn'
  <2>1. ASSUME LinkX(f) PROVE profiles' \in [Validators -> [Columns -> Accounts]] /\ LinksOwn'
    <3>1. profiles' = [profiles EXCEPT ![Of(f)] = profiles'[Of(f)]]
      BY <1>3, <1>5, <2>1 DEF LinkX
    <3>2. /\ profiles'[Of(f)] \in [Columns -> Accounts]
          /\ \A c \in Columns \ {"name"} : profiles'[Of(f)][c] \in {f, profiles[Of(f)][c]}
      BY <1>3, <1>5, <2>1 DEF LinkX, Columns
    <3> QED
      BY <1>2, <1>5, <3>1, <3>2 DEF LinksOwn, Columns
  <2>2. ASSUME LinkDiscord(f) PROVE profiles' \in [Validators -> [Columns -> Accounts]] /\ LinksOwn'
    <3>1. profiles' = [profiles EXCEPT ![Of(f)] = profiles'[Of(f)]]
      BY <1>3, <1>5, <2>2 DEF LinkDiscord
    <3>2. /\ profiles'[Of(f)] \in [Columns -> Accounts]
          /\ \A c \in Columns \ {"name"} : profiles'[Of(f)][c] \in {f, profiles[Of(f)][c]}
      BY <1>3, <1>5, <2>2 DEF LinkDiscord, Columns
    <3> QED
      BY <1>2, <1>5, <3>1, <3>2 DEF LinksOwn, Columns
  <2>3. LinkX(f) \/ LinkDiscord(f) \/ UNCHANGED profiles
    BY DEF FlowStep, GetChallenge, Initiate, Callback, VerifyChallenge, CheckProfile,
       CleanupChallenge, FlowFails, FlowDies, Leave, rowVars
  <2>4. CASE UNCHANGED profiles
    BY <1>2, <2>4 DEF LinksOwn
  <2> QED
    BY <2>1, <2>2, <2>3, <2>4
<1> QED
  BY <1>1, <1>2, <1>4, <1>6, <1>7, <1>8 DEF KeepsTarget, FoundInSource

(* The other steps: a challenge grows old, an owner takes away or renames, *)
(* and the migration, whose account is no flow's.                          *)
LEMMA OthersOwn ==
    ASSUME OwnInvariant, SocialNext, \A f \in Flows : ~FlowStep(f)
    PROVE  OwnInvariant'
<1> USE DEF OwnInvariant, SocialTypeOK
<1>1. UNCHANGED social
  BY DEF SocialNext, ChallengeAges, OwnerStep, AskUnlink, UnlinkX, UnlinkDiscord, Rename,
     MigrationStep, FindInSource, AlreadyLinked, FindEmpty, CopySocial, TrackValidator,
     ErrorSwallowed, MigrationFails, ListUnprocessed, RestartMigration, KeepsRest
<1>2. /\ Flows' = Flows /\ Browsers' = Browsers /\ Accounts' = Accounts
      /\ FlowRows' = FlowRows /\ ChallengeRows' = ChallengeRows
      /\ \A g : Of(g)' = Of(g)
  BY <1>1, SameCase
<1>3. ASSUME NEW v \in Validators, ChallengeAges(v) PROVE OwnInvariant'
  <2>1. challenges[v].holder \in Flows \cup {Nothing}
    BY DEF ChallengeRows
  <2>2. [challenges[v] EXCEPT !.old = TRUE] \in ChallengeRows
    BY DEF ChallengeRows
  <2>3. challenges' \in [Validators -> ChallengeRows]
    BY <1>3, <2>2 DEF ChallengeAges
  <2>4. ASSUME NEW g \in Flows PROVE flow'[g] \in FlowRows /\ flow'[g].target = flow[g].target
    <3>1. flow[g] \in FlowRows /\ [flow[g] EXCEPT !.late = TRUE] \in FlowRows
      BY DEF FlowRows
    <3>2. flow'[g] \in {flow[g], [flow[g] EXCEPT !.late = TRUE]}
      BY <1>3 DEF ChallengeAges
    <3> QED
      BY <3>1, <3>2 DEF FlowRows
  <2>5. flow' \in [Flows -> FlowRows]
    BY <1>3, <2>4 DEF ChallengeAges
  <2> QED
    BY <1>1, <1>2, <1>3, <2>3, <2>4, <2>5
    DEF ChallengeAges, migrationVars, KeepsTarget, FoundInSource, LinksOwn
<1>4. ASSUME NEW v \in Validators, NEW c \in Columns, NEW a \in {Nothing, Custom},
             profiles' = [profiles EXCEPT ![v] = [@ EXCEPT ![c] = a]]
      PROVE  profiles' \in [Validators -> [Columns -> Accounts]] /\ LinksOwn'
  <2>1. profiles'[v] \in [Columns -> Accounts]
    BY <1>4 DEF Accounts
  <2>2. \A f \in Flows : f # a
    BY FlowFacts
  <2> QED
    BY <1>2, <1>4, <2>1, <2>2 DEF LinksOwn, Columns
<1>5. ASSUME NEW v \in Validators, OwnerStep(v) PROVE OwnInvariant'
  <2>1. UNCHANGED <<challenges, session, flow, migrating>>
    BY <1>5 DEF OwnerStep, AskUnlink, UnlinkX, UnlinkDiscord, Rename, rowVars, migrationVars
  <2>2. profiles' \in [Validators -> [Columns -> Accounts]] /\ LinksOwn'
    <3>1. \/ UNCHANGED profiles
          \/ \E c \in Columns, a \in {Nothing, Custom} :
                profiles' = [profiles EXCEPT ![v] = [@ EXCEPT ![c] = a]]
      BY <1>5 DEF OwnerStep, AskUnlink, UnlinkX, UnlinkDiscord, Rename, rowVars, Columns
    <3> QED
      BY <1>2, <1>4, <3>1 DEF LinksOwn
  <2> QED
    BY <1>1, <1>2, <2>1, <2>2 DEF KeepsTarget, FoundInSource
<1>6. ASSUME NEW v \in Validators, CopySocial(v) PROVE OwnInvariant'
  <2>1. v \in DOMAIN social.older
    BY <1>6 DEF CopySocial, FoundInSource
  <2>2. \A c \in Columns : social.older[v][c] \in {Nothing, Source}
    BY <2>1, FlowFacts
  <2>3. /\ profiles'[v] \in [Columns -> Accounts]
        /\ \A c \in Columns : profiles'[v][c] \in {Source, profiles[v][c]}
    BY <1>6, <2>2 DEF CopySocial, Accounts
  <2>4. \A f \in Flows : f # Source
    BY FlowFacts
  <2>5. \A w \in Validators \ {v} : profiles'[w] = profiles[w]
    BY <1>6 DEF CopySocial
  <2>6. profiles' \in [Validators -> [Columns -> Accounts]]
    BY <1>6, <2>3 DEF CopySocial
  <2>7. LinksOwn'
    BY <1>2, <2>3, <2>4, <2>5 DEF LinksOwn, Columns
  <2> QED
    BY <1>1, <1>2, <1>6, <2>6, <2>7
    DEF CopySocial, Advances, KeepsRest, KeepsTarget, FoundInSource, MigrationSteps
<1>7. ASSUME NEW v \in Validators,
             FindInSource(v) \/ AlreadyLinked(v) \/ FindEmpty(v) \/ TrackValidator(v)
               \/ ErrorSwallowed(v) \/ MigrationFails(v)
      PROVE  OwnInvariant'
  <2>1. UNCHANGED <<profiles, challenges, session, flow>>
    BY <1>7 DEF FindInSource, AlreadyLinked, FindEmpty, TrackValidator, ErrorSwallowed,
       MigrationFails, KeepsRest
  <2>2. migrating' \in [Validators -> MigrationSteps] /\ FoundInSource'
    BY <1>1, <1>7 DEF FindInSource, AlreadyLinked, FindEmpty, TrackValidator, ErrorSwallowed,
       MigrationFails, Advances, InSource, FoundInSource, MigrationSteps
  <2> QED
    BY <1>1, <1>2, <2>1, <2>2 DEF KeepsTarget, LinksOwn
<1>8. ASSUME ListUnprocessed \/ RestartMigration PROVE OwnInvariant'
  <2>1. UNCHANGED <<profiles, challenges, session, flow>>
    BY <1>8 DEF ListUnprocessed, RestartMigration, KeepsRest, rowVars
  <2>2. migrating' \in [Validators -> MigrationSteps] /\ FoundInSource'
    BY <1>1, <1>8 DEF ListUnprocessed, RestartMigration, FoundInSource, MigrationSteps
  <2> QED
    BY <1>1, <1>2, <2>1, <2>2 DEF KeepsTarget, LinksOwn
<1> QED
  BY <1>3, <1>5, <1>6, <1>7, <1>8 DEF SocialNext, MigrationStep

(* An account is only ever shown for the validator its owner set out to    *)
(* verify, for any number of flows in any number of tabs that share a      *)
(* cookie, and whatever the migration does meanwhile.                      *)
THEOREM AccountsAreOwn == SocialSpec => []LinksOwn
<1>1. OwnInvariant /\ [SocialNext]_socialVars => OwnInvariant'
  <2>1. ASSUME OwnInvariant, UNCHANGED socialVars PROVE OwnInvariant'
    BY <2>1, SameCase DEF socialVars, rowVars, migrationVars, OwnInvariant, SocialTypeOK,
       KeepsTarget, FoundInSource, LinksOwn
  <2> QED
    BY <2>1, FlowOwn, OthersOwn
<1>2. OwnInvariant => LinksOwn
  BY DEF OwnInvariant
<1> QED
  BY <1>1, <1>2, InitOwn, PTL DEF SocialSpec

----------------------------------------------------------------------------
(* Why a flow is not refused for nothing: as long as it needs them, the    *)
(* challenge of its validator and the cookie of its browser are its own,   *)
(* unless it is late or another flow has come between.                     *)
Disturbed(f) == \E g \in Flows : Disturbs(g, f)
HoldersBegan ==
    \A v \in Validators : \A f \in Flows :
        challenges[v].holder = f =>
            /\ Of(f) = v /\ ~At(f, "new")
            /\ challenges[v].old => flow[f].late
OwnChallenge ==
    \A f \in Flows : flow[f].at \in {"challenged", "away", "called"} =>
        challenges[Of(f)].holder = f \/ flow[f].late \/ Disturbed(f)
OwnCookie == \A f \in Flows : At(f, "away") => session[Browser(f)] = f \/ Disturbed(f)

IsolatedInvariant ==
    OwnInvariant /\ HoldersBegan /\ OwnChallenge /\ OwnCookie /\ FlowsIsolated

LEMMA InitIsolated == SocialInit => IsolatedInvariant
<1> SUFFICES ASSUME SocialInit PROVE IsolatedInvariant
  OBVIOUS
<1>1. \A f \in Flows : flow[f].at = "new" /\ ~flow[f].refused
  BY DEF SocialInit, NewFlow
<1>2. \A v \in Validators, f \in Flows : challenges[v].holder # f
  BY FlowFacts DEF SocialInit, NoChallenge
<1> QED
  BY <1>1, <1>2, InitOwn DEF IsolatedInvariant, HoldersBegan, OwnChallenge, OwnCookie,
     FlowsIsolated, At

(* A flow that has begun never begins again, and what disturbed, delayed   *)
(* or refused it stays.                                                    *)
LEMMA FlowsGoOn ==
    ASSUME SocialTypeOK, KeepsTarget, NEW f \in Flows, FlowStep(f)
    PROVE  /\ UNCHANGED social /\ ~At(f, "new")'
           /\ \A g \in Flows \ {f} : flow'[g] = flow[g]
           /\ flow'[f].late = flow[f].late
           /\ flow[f].refused => flow'[f].refused
           /\ \A g \in Flows : Disturbed(g) => Disturbed(g)'
           /\ \A g \in Flows \ {f} :
                Browser(f) = Browser(g) \/ Of(f) = Of(g) => Disturbed(g)'
<1>1. UNCHANGED social
  BY DEF FlowStep, GetChallenge, Initiate, Callback, VerifyChallenge, CheckProfile, LinkX,
     CleanupChallenge, LinkDiscord, FlowFails, FlowDies, Leave
<1>2. PICK row \in FlowRows :
        /\ flow' = [flow EXCEPT ![f] = row]
        /\ row.target = Of(f) /\ row.at # "new" /\ row.late = flow[f].late
        /\ flow[f].refused => row.refused
  BY FlowMoves
<1>3. flow'[f] = row /\ \A g \in Flows \ {f} : flow'[g] = flow[g]
  BY <1>2 DEF SocialTypeOK
<1>4. Flows' = Flows /\ \A g : Of(g)' = Of(g) /\ Browser(g)' = Browser(g) /\ IsX(g)' = IsX(g)
  BY <1>1, SameCase
<1>5. \A g \in Flows : ~At(g, "new") => ~At(g, "new")'
  BY <1>2, <1>3 DEF At
<1>6. \A g, h \in Flows : Disturbs(g, h) => Disturbs(g, h)'
  BY <1>4, <1>5 DEF Disturbs
<1> QED
  BY <1>1, <1>2, <1>3, <1>4, <1>6 DEF Disturbed, Disturbs, At

LEMMA FlowIsolated ==
    ASSUME IsolatedInvariant, NEW f \in Flows, FlowStep(f)
    PROVE  IsolatedInvariant'
<1> USE DEF IsolatedInvariant
<1>1. SocialTypeOK /\ KeepsTarget /\ OwnInvariant'
  BY FlowOwn DEF OwnInvariant
<1>2. /\ UNCHANGED social /\ ~At(f, "new")'
      /\ \A g \in Flows \ {f} : flow'[g] = flow[g]
      /\ flow'[f].late = flow[f].late
      /\ flow[f].refused => flow'[f].refused
      /\ \A g \in Flows : Disturbed(g) => Disturbed(g)'
      /\ \A g \in Flows \ {f} :
            Browser(f) = Browser(g) \/ Of(f) = Of(g) => Disturbed(g)'
  BY <1>1, FlowsGoOn
<1>3. Flows' = Flows /\ \A g : Of(g)' = Of(g) /\ Browser(g)' = Browser(g) /\ IsX(g)' = IsX(g)
  BY <1>2, SameCase
<1>4. flow[f].target = Of(f) /\ Of(f) \in Validators /\ Browser(f) \in Browsers
  BY <1>1, FlowFacts DEF KeepsTarget, SocialTypeOK
<1>5. flow \in [Flows -> FlowRows]
  BY <1>1 DEF SocialTypeOK
<1>6. /\ Refused(f) => flow'[f].at = "leaving" /\ flow'[f].refused
      /\ \A stage \in Stages : Goes(f, stage) =>
            flow'[f].at = stage /\ flow'[f].refused = flow[f].refused
  BY <1>5 DEF Refused, Goes, FlowRows
<1>7. ~Initiate(f) => flow'[f].at # "away"
  <2>1. ASSUME Callback(f) \/ VerifyChallenge(f) \/ CheckProfile(f) PROVE flow'[f].at # "away"
    <3>1. \/ Refused(f) \/ Goes(f, "leaving")
          \/ \E to : flow' = [flow EXCEPT ![f].at = "called", ![f].target = to]
          \/ \E key : flow' = [flow EXCEPT ![f].at = "verified", ![f].row = key]
          \/ \E named : flow' = [flow EXCEPT ![f].at = "linking", ![f].named = named]
      BY <2>1 DEF Callback, VerifyChallenge, CheckProfile
    <3> QED
      BY <1>5, <1>6, <3>1 DEF FlowRows, Stages
  <2>2. ASSUME GetChallenge(f) \/ LinkX(f) \/ CleanupChallenge(f) \/ LinkDiscord(f)
               \/ FlowFails(f) \/ FlowDies(f) \/ Leave(f)
        PROVE  flow'[f].at # "away"
    BY <1>6, <2>2 DEF GetChallenge, LinkX, CleanupChallenge, LinkDiscord, FlowFails, FlowDies,
       Leave, Stages
  <2> QED
    BY <2>1, <2>2 DEF FlowStep
<1>9. ASSUME NEW v \in Validators, NEW g \in Flows, challenges'[v].holder = g,
             challenges'[v] # challenges[v]
      PROVE  g = f /\ v = Of(f) /\ ~challenges'[v].old
  <2>1. g # Nothing /\ challenges \in [Validators -> ChallengeRows]
    BY <1>1, FlowFacts DEF SocialTypeOK
  <2>2. CASE GetChallenge(f)
    <3>1. \A rows \in {challenges, Cleaned} : \A w \in Validators \ {Of(f)} :
              rows[w].holder = g => rows[w] = challenges[w]
      BY <2>1 DEF Cleaned, NoChallenge
    <3>2. PICK rows \in {challenges, Cleaned} :
              challenges' = [rows EXCEPT ![Of(f)] =
                  [id |-> IF @ = NoChallenge THEN f ELSE @.id, holder |-> f, old |-> FALSE]]
      BY <2>2 DEF GetChallenge
    <3>3. DOMAIN rows = Validators
      BY <2>1, <3>2 DEF Cleaned
    <3>4. v = Of(f)
      BY <1>9, <3>1, <3>2, <3>3
    <3>5. challenges'[v].holder = f /\ ~challenges'[v].old
      BY <3>2, <3>3, <3>4
    <3> QED
      BY <1>9, <2>2, <3>4, <3>5 DEF GetChallenge
  <2>3. CASE CleanupChallenge(f)
    BY <1>9, <2>1, <2>3 DEF CleanupChallenge, NoChallenge
  <2>4. GetChallenge(f) \/ CleanupChallenge(f) \/ UNCHANGED challenges
    BY DEF FlowStep, Initiate, Callback, VerifyChallenge, CheckProfile, LinkX, LinkDiscord,
       FlowFails, FlowDies, Leave, rowVars
  <2> QED
    BY <1>9, <2>2, <2>3, <2>4
<1>10. HoldersBegan'
  <2> SUFFICES ASSUME NEW v \in Validators, NEW g \in Flows, challenges'[v].holder = g
               PROVE  Of(g) = v /\ ~At(g, "new")' /\ (challenges'[v].old => flow'[g].late)
    BY <1>3 DEF HoldersBegan
  <2>1. CASE challenges'[v] # challenges[v]
    BY <1>2, <1>9, <2>1
  <2>2. CASE challenges'[v] = challenges[v]
    <3>1. Of(g) = v /\ ~At(g, "new") /\ (challenges[v].old => flow[g].late)
      BY <2>2 DEF HoldersBegan
    <3> QED
      BY <1>2, <2>2, <3>1 DEF At
  <2> QED
    BY <2>1, <2>2
<1>11. ASSUME NEW g \in Flows, challenges[Of(g)].holder = g,
              f = g => ~At(f, "cleaning"), challenges'[Of(g)].holder # g
       PROVE  flow'[g].late \/ Disturbed(g)'
  <2>1. Of(g) \in Validators /\ g # Nothing /\ challenges \in [Validators -> ChallengeRows]
    BY <1>1, FlowFacts DEF SocialTypeOK
  <2>2. CASE GetChallenge(f)
    <3>1. PICK rows \in {challenges, Cleaned} :
              challenges' = [rows EXCEPT ![Of(f)] =
                  [id |-> IF @ = NoChallenge THEN f ELSE @.id, holder |-> f, old |-> FALSE]]
      BY <2>2 DEF GetChallenge
    <3>2. DOMAIN rows = Validators
      BY <2>1, <3>1 DEF Cleaned
    <3>3. CASE Of(f) = Of(g)
      <4>1. f # g
        BY <1>4, <1>11, <3>1, <3>2, <3>3
      <4> QED
        BY <1>2, <3>3, <4>1
    <3>4. CASE Of(f) # Of(g)
      <4>1. challenges[Of(g)].old
        BY <1>11, <2>1, <3>1, <3>2, <3>4 DEF Cleaned
      <4>2. flow[g].late
        BY <1>11, <2>1, <4>1 DEF HoldersBegan
      <4> QED
        BY <1>2, <4>2
    <3> QED
      BY <3>3, <3>4
  <2>3. CASE CleanupChallenge(f)
    <3>1. At(f, "cleaning")
      BY <2>3 DEF CleanupChallenge
    <3>2. Of(f) = Of(g)
      BY <1>4, <1>11, <2>1, <2>3 DEF CleanupChallenge
    <3> QED
      BY <1>2, <1>11, <3>1, <3>2
  <2>4. GetChallenge(f) \/ CleanupChallenge(f) \/ UNCHANGED challenges
    BY DEF FlowStep, Initiate, Callback, VerifyChallenge, CheckProfile, LinkX, LinkDiscord,
       FlowFails, FlowDies, Leave, rowVars
  <2> QED
    BY <1>11, <2>2, <2>3, <2>4
<1>12. OwnChallenge'
  <2> SUFFICES ASSUME NEW g \in Flows, flow'[g].at \in {"challenged", "away", "called"}
               PROVE  challenges'[Of(g)].holder = g \/ flow'[g].late \/ Disturbed(g)'
    BY <1>3 DEF OwnChallenge
  <2>1. CASE g = f /\ GetChallenge(f)
    BY <1>1, <1>4, <2>1 DEF GetChallenge, Cleaned, SocialTypeOK
  <2>2. CASE ~(g = f /\ GetChallenge(f))
    <3>1. flow[g].at \in {"challenged", "away", "called"}
      <4>1. CASE g # f
        BY <1>2, <4>1
      <4>2. ASSUME g = f, ~(Initiate(f) \/ Callback(f))
            PROVE  flow'[f].at \notin {"challenged", "away", "called"}
        <5>1. ASSUME VerifyChallenge(f) \/ CheckProfile(f)
              PROVE  flow'[f].at \in {"verified", "linking", "leaving"}
          <6>1. \/ Refused(f) \/ Goes(f, "leaving")
                \/ \E key : flow' = [flow EXCEPT ![f].at = "verified", ![f].row = key]
                \/ \E named : flow' = [flow EXCEPT ![f].at = "linking", ![f].named = named]
            BY <5>1 DEF VerifyChallenge, CheckProfile
          <6> QED
            BY <1>5, <1>6, <6>1 DEF FlowRows, Stages
        <5>2. ASSUME LinkX(f) \/ CleanupChallenge(f) \/ LinkDiscord(f) \/ FlowFails(f)
                     \/ FlowDies(f) \/ Leave(f)
              PROVE  flow'[f].at \in {"cleaning", "leaving", "over"}
          BY <1>6, <5>2 DEF LinkX, CleanupChallenge, LinkDiscord, FlowFails, FlowDies, Leave, Stages
        <5> QED
          BY <2>2, <4>2, <5>1, <5>2 DEF FlowStep
      <4> QED
        BY <2>2, <4>1, <4>2 DEF Initiate, Callback, At
    <3>2. challenges[Of(g)].holder = g \/ flow[g].late \/ Disturbed(g)
      BY <3>1 DEF OwnChallenge
    <3> QED
      BY <1>2, <1>11, <3>1, <3>2 DEF At
  <2> QED
    BY <2>1, <2>2
<1>13. OwnCookie'
  <2> SUFFICES ASSUME NEW g \in Flows, At(g, "away")', ~Disturbed(g)'
               PROVE  session'[Browser(g)] = g
    BY <1>3 DEF OwnCookie
  <2>1. session \in [Browsers -> Flows \cup {Nothing}]
    BY <1>1 DEF SocialTypeOK
  <2>2. CASE g = f /\ Initiate(f)
    BY <1>4, <2>1, <2>2 DEF Initiate
  <2>3. CASE g # f
    <3>1. Browser(f) # Browser(g) /\ session[Browser(g)] = g /\ Browser(g) \in Browsers
      BY <1>2, <2>3 DEF OwnCookie, At, Browsers
    <3> QED
      BY <3>1, <2>1 DEF FlowStep, GetChallenge, Initiate, Callback, VerifyChallenge, CheckProfile,
         LinkX, CleanupChallenge, LinkDiscord, FlowFails, FlowDies, Leave, rowVars
  <2>4. CASE g = f /\ ~Initiate(f)
    BY <1>7, <2>4 DEF At
  <2> QED
    BY <2>2, <2>3, <2>4
<1>14. FlowsIsolated'
  <2> SUFFICES ASSUME NEW g \in Flows, flow'[g].refused
               PROVE  flow'[g].late \/ Disturbed(g)'
    BY <1>3 DEF FlowsIsolated, Disturbed
  <2>1. CASE flow[g].refused
    BY <1>2, <2>1 DEF FlowsIsolated, Disturbed
  <2>2. CASE ~flow[g].refused
    <3>1. g = f
      BY <1>2, <2>2
    <3>2. CASE Callback(f)
      <4>1. CASE session[Browser(f)] # f
        BY <1>2, <3>1, <3>2, <4>1 DEF Callback, OwnCookie
      <4>2. ASSUME NEW to, flow' = [flow EXCEPT ![f].at = "called", ![f].target = to]
            PROVE  flow'[f].refused = flow[f].refused
        BY <1>5, <4>2 DEF FlowRows
      <4> QED
        BY <2>2, <3>1, <3>2, <4>1, <4>2 DEF Callback, StateValid
    <3>3. CASE VerifyChallenge(f)
      <4>1. ASSUME NEW key, flow' = [flow EXCEPT ![f].at = "verified", ![f].row = key]
            PROVE  flow'[f].refused = flow[f].refused
        BY <1>5, <4>1 DEF FlowRows
      <4>2. CASE challenges[Of(f)].holder = f
        <5>1. \E key : flow' = [flow EXCEPT ![f].at = "verified", ![f].row = key]
          BY <1>4, <3>3, <4>2 DEF VerifyChallenge
        <5> QED
          BY <2>2, <3>1, <4>1, <5>1
      <4>3. CASE challenges[Of(f)].holder # f
        BY <1>2, <3>1, <3>3, <4>3 DEF VerifyChallenge, OwnChallenge, At
      <4> QED
        BY <4>2, <4>3
    <3>4. ASSUME ~Callback(f), ~VerifyChallenge(f) PROVE flow'[f].refused = flow[f].refused
      <4>1. \/ \E stage \in Stages : Goes(f, stage)
            \/ \E named : flow' = [flow EXCEPT ![f].at = "linking", ![f].named = named]
        BY <3>4 DEF FlowStep, GetChallenge, Initiate, CheckProfile, LinkX, CleanupChallenge,
           LinkDiscord, FlowFails, FlowDies, Leave, Stages
      <4> QED
        BY <1>5, <1>6, <4>1 DEF FlowRows
    <3> QED
      BY <2>2, <3>1, <3>2, <3>3, <3>4
  <2> QED
    BY <2>1, <2>2
<1> QED
  BY <1>1, <1>10, <1>12, <1>13, <1>14

(* What is left only ever adds that a challenge is old and its flow late.  *)
LEMMA OthersIsolated ==
    ASSUME IsolatedInvariant, SocialNext, \A f \in Flows : ~FlowStep(f)
    PROVE  IsolatedInvariant'
<1> USE DEF IsolatedInvariant
<1>1. SocialTypeOK /\ OwnInvariant'
  BY OthersOwn DEF OwnInvariant
<1>2. flow \in [Flows -> FlowRows] /\ challenges \in [Validators -> ChallengeRows]
  BY <1>1 DEF SocialTypeOK
<1>3. UNCHANGED <<social, session>>
  BY DEF SocialNext, ChallengeAges, OwnerStep, AskUnlink, UnlinkX, UnlinkDiscord, Rename,
     MigrationStep, FindInSource, AlreadyLinked, FindEmpty, CopySocial, TrackValidator,
     ErrorSwallowed, MigrationFails, ListUnprocessed, RestartMigration, KeepsRest, rowVars
<1>4. /\ Flows' = Flows
      /\ \A g : Of(g)' = Of(g) /\ Browser(g)' = Browser(g) /\ IsX(g)' = IsX(g)
  BY <1>3, SameCase
<1>5. \/ UNCHANGED <<flow, challenges>>
      \/ \E v \in Validators : ChallengeAges(v)
  BY DEF SocialNext, OwnerStep, AskUnlink, UnlinkX, UnlinkDiscord, Rename,
     MigrationStep, FindInSource, AlreadyLinked, FindEmpty, CopySocial, TrackValidator,
     ErrorSwallowed, MigrationFails, ListUnprocessed, RestartMigration, KeepsRest, rowVars
<1>6. \A g \in Flows :
        /\ flow'[g].at = flow[g].at /\ flow'[g].refused = flow[g].refused
        /\ flow[g].late => flow'[g].late
  <2>1. ASSUME NEW v \in Validators, ChallengeAges(v), NEW g \in Flows
        PROVE  flow'[g] \in {flow[g], [flow[g] EXCEPT !.late = TRUE]}
    BY <1>2, <2>1 DEF ChallengeAges
  <2> QED
    BY <1>2, <1>5, <2>1 DEF FlowRows
<1>7. \A v \in Validators :
        /\ challenges'[v].holder = challenges[v].holder
        /\ challenges'[v].old /\ ~challenges[v].old =>
              \A g \in Flows : challenges[v].holder = g => flow'[g].late
  <2>1. ASSUME NEW w \in Validators, ChallengeAges(w), NEW v \in Validators
        PROVE  /\ challenges'[v] = IF v = w THEN [challenges[v] EXCEPT !.old = TRUE]
                                             ELSE challenges[v]
               /\ flow' = [flow EXCEPT ![challenges[w].holder].late = TRUE]
    BY <1>2, <2>1 DEF ChallengeAges
  <2>2. ASSUME NEW w \in Validators, ChallengeAges(w), NEW v \in Validators
        PROVE  challenges'[v].holder = challenges[v].holder
    BY <1>2, <2>1, <2>2 DEF ChallengeRows
  <2>3. ASSUME NEW w \in Validators, ChallengeAges(w), NEW v \in Validators,
               challenges'[v].old, ~challenges[v].old,
               NEW g \in Flows, challenges[v].holder = g
        PROVE  flow'[g].late
    <3>1. v = w
      BY <2>1, <2>3
    <3>2. flow' = [flow EXCEPT ![g].late = TRUE]
      BY <2>1, <2>3, <3>1
    <3>3. flow'[g] = [flow[g] EXCEPT !.late = TRUE] /\ flow[g] \in FlowRows
      BY <1>2, <3>2
    <3> QED
      BY <3>3 DEF FlowRows
  <2> QED
    BY <1>5, <2>2, <2>3
<1>8. \A g, h \in Flows : Disturbs(g, h)' <=> Disturbs(g, h)
  BY <1>4, <1>6 DEF Disturbs, At
<1>9. \A g \in Flows : Disturbed(g)' <=> Disturbed(g)
  BY <1>4, <1>8 DEF Disturbed
<1>11. HoldersBegan'
  BY <1>4, <1>6, <1>7 DEF HoldersBegan, At
<1>12. OwnChallenge'
  BY <1>1, <1>4, <1>6, <1>7, <1>9, FlowFacts DEF OwnChallenge, SocialTypeOK
<1>13. OwnCookie'
  BY <1>3, <1>4, <1>6, <1>9 DEF OwnCookie, At
<1>14. FlowsIsolated'
  BY <1>4, <1>6, <1>8 DEF FlowsIsolated
<1> QED
  BY <1>1, <1>11, <1>12, <1>13, <1>14

(* No flow is refused but for another one of its browser or validator, or  *)
(* for taking more than five minutes.                                      *)
THEOREM RefusedForAReason == SocialSpec => []FlowsIsolated
<1>1. IsolatedInvariant /\ [SocialNext]_socialVars => IsolatedInvariant'
  <2>1. ASSUME IsolatedInvariant, UNCHANGED socialVars PROVE IsolatedInvariant'
    <3>1. UNCHANGED <<social, profiles, challenges, session, flow, migrating>>
      BY <2>1 DEF socialVars, rowVars, migrationVars
    <3>2. /\ Flows' = Flows /\ Browsers' = Browsers /\ Accounts' = Accounts
          /\ FlowRows' = FlowRows /\ ChallengeRows' = ChallengeRows
          /\ \A g : Of(g)' = Of(g) /\ Browser(g)' = Browser(g) /\ IsX(g)' = IsX(g)
      BY <3>1, SameCase
    <3>3. \A g, h \in Flows : Disturbs(g, h)' <=> Disturbs(g, h)
      BY <3>1, <3>2 DEF Disturbs, At
    <3>4. OwnInvariant'
      BY <2>1, <3>1, <3>2 DEF IsolatedInvariant, OwnInvariant, SocialTypeOK, KeepsTarget,
         FoundInSource, LinksOwn
    <3>5. \A g \in Flows : Disturbed(g)' <=> Disturbed(g)
      BY <3>2, <3>3 DEF Disturbed
    <3> QED
      BY <2>1, <3>1, <3>2, <3>3, <3>4, <3>5 DEF IsolatedInvariant, HoldersBegan, OwnChallenge,
         OwnCookie, FlowsIsolated, At
  <2> QED
    BY <2>1, FlowIsolated, OthersIsolated
<1>2. IsolatedInvariant => FlowsIsolated
  BY DEF IsolatedInvariant
<1> QED
  BY <1>1, <1>2, InitIsolated, PTL DEF SocialSpec

----------------------------------------------------------------------------
(* A flow links once: past that, its account only ever leaves a row.       *)
Past(f) == flow[f].at \in {"cleaning", "leaving", "over"}
ShownArePast == \A v \in Validators, f \in Flows : profiles[v].x = f => Past(f)
FoundArePast == \A w \in Flows \cup Validators, f \in Flows : before[w] = f => Past(f)

(* A row that shows, or showed, an account of the older database has kept  *)
(* its name, and is not taken for empty again.                             *)
Named(v) == profiles[v].name # Nothing
SourceNamed == \A v \in Validators : profiles[v].x = Source => Named(v)
FoundNamed == \A f \in Flows : before[f] = Source => Named(Of(f))
EmptyUnnamed ==
    \A v \in Validators : migrating[v] = "empty" =>
        /\ profiles[v].x # Source
        /\ \A f \in Flows : Of(f) = v => before[f] # Source

(* What the two writers rely on between their check and their write.       *)
Other(v, w) == profiles[v].x = Nothing \/ profiles[v].x # before[w]
LinkingFree == \A f \in Flows : At(f, "linking") => Other(Of(f), f)
EmptyFree == \A v \in Validators : migrating[v] = "empty" => Other(v, v)

KeptInvariant ==
    /\ OwnInvariant
    /\ before \in [Flows \cup Validators -> Accounts]
    /\ ShownArePast /\ FoundArePast
    /\ SourceNamed /\ FoundNamed /\ EmptyUnnamed
    /\ LinkingFree /\ EmptyFree

LEMMA KeptFacts ==
    ASSUME social \in SocialCases
    PROVE  /\ \A f \in Flows : /\ f \notin Validators \cup {Nothing, Source, Custom}
                               /\ Of(f) \in Validators
           /\ \A v \in DOMAIN social.older :
                /\ social.older[v] \in [Columns -> {Nothing, Source}]
                /\ social.older[v].x # Nothing => social.older[v].name # Nothing
           /\ Source # Nothing
<1>1. \A f \in Flows : f \notin Validators \cup {Nothing, Source, Custom}
  BY SocialAssumption DEF Flows
<1>2. \A v \in DOMAIN social.older :
        /\ social.older[v] \in [Columns -> {Nothing, Source}]
        /\ social.older[v].x # Nothing => social.older[v].name # Nothing
  BY SocialAssumption
<1> QED
  BY <1>1, <1>2, FlowFacts DEF Source, Nothing

LEMMA InitKept == SocialInit => KeptInvariant
<1> SUFFICES ASSUME SocialInit PROVE KeptInvariant
  OBVIOUS
<1>1. OwnInvariant /\ social \in SocialCases
  BY InitOwn DEF SocialInit
<1>2. /\ \A v \in Validators : profiles[v].x = Nothing /\ migrating[v] = "no"
      /\ before = [w \in Flows \cup Validators |-> Nothing]
  BY DEF SocialInit, NoProfile, Columns
<1>3. \A f \in Flows : f # Nothing /\ Of(f) \in Validators
  BY <1>1, KeptFacts
<1> QED
  BY <1>1, <1>2, <1>3, KeptFacts DEF KeptInvariant, ShownArePast, FoundArePast, SourceNamed, FoundNamed,
     EmptyUnnamed, LinkingFree, EmptyFree, Other, Accounts

(* Names never go away: renaming refuses an empty one.                     *)
LEMMA NamesStay ==
    ASSUME KeptInvariant, SocialNext, NEW v \in Validators, Named(v)
    PROVE  Named(v)'
<1> USE DEF KeptInvariant, OwnInvariant, SocialTypeOK
<1>1. ASSUME NEW f \in Flows, FlowStep(f) PROVE Named(v)'
  <2>1. CASE LinkX(f) \/ LinkDiscord(f)
    BY <2>1, KeptFacts DEF LinkX, LinkDiscord, Named, Columns
  <2>2. CASE UNCHANGED profiles
    BY <2>2 DEF Named
  <2> QED
    BY <1>1, <2>1, <2>2 DEF FlowStep, GetChallenge, Initiate, Callback, VerifyChallenge,
       CheckProfile, CleanupChallenge, FlowFails, FlowDies, Leave, rowVars
<1>2. ASSUME NEW w \in Validators, UnlinkX(w) \/ UnlinkDiscord(w) \/ Rename(w) PROVE Named(v)'
  BY <1>2 DEF UnlinkX, UnlinkDiscord, Rename, Named, Columns, Custom, Nothing
<1>3. ASSUME NEW w \in Validators, CopySocial(w) PROVE Named(v)'
  <2>1. profiles'[w].name \in {profiles[w].name, Source}
    <3>1. social.older[w] \in [Columns -> {Nothing, Source}]
      BY <1>3, KeptFacts DEF CopySocial, FoundInSource
    <3> QED
      BY <1>3, <3>1 DEF CopySocial, Columns
  <2>2. v # w => profiles'[v] = profiles[v]
    BY <1>3 DEF CopySocial
  <2> QED
    BY <2>1, <2>2, KeptFacts DEF Named
<1>4. CASE UNCHANGED profiles
  BY <1>4 DEF Named
<1> QED
  BY <1>1, <1>2, <1>3, <1>4 DEF SocialNext, ChallengeAges, OwnerStep, AskUnlink, MigrationStep,
     FindInSource, AlreadyLinked, FindEmpty, TrackValidator, ErrorSwallowed, MigrationFails,
     ListUnprocessed, RestartMigration, KeepsRest, rowVars

(* What a flow has linked it does not link again.                          *)
LEMMA PastStays ==
    ASSUME KeptInvariant, SocialNext, NEW f \in Flows, Past(f)
    PROVE  Past(f)'
<1> USE DEF KeptInvariant, OwnInvariant, SocialTypeOK
<1>1. flow \in [Flows -> FlowRows] /\ flow[f] \in FlowRows
  OBVIOUS
<1>2. ASSUME NEW g \in Flows, FlowStep(g) PROVE Past(f)'
  <2>1. CASE g # f
    BY <1>1, <1>2, <2>1, FlowMoves DEF Past
  <2>2. CASE g = f
    <3>1. CleanupChallenge(f) \/ FlowDies(f) \/ Leave(f)
      BY <1>2, <2>2 DEF FlowStep, GetChallenge, Initiate, Callback, VerifyChallenge, CheckProfile,
         LinkX, LinkDiscord, FlowFails, At, Past
    <3>2. Goes(f, "leaving") \/ Goes(f, "over")
      BY <3>1 DEF CleanupChallenge, FlowDies, Leave
    <3>3. \E stage \in {"leaving", "over"} : flow'[f] = [flow[f] EXCEPT !.at = stage]
      BY <1>1, <3>2 DEF Goes
    <3> QED
      BY <1>1, <3>3 DEF FlowRows, Past
  <2> QED
    BY <2>1, <2>2
<1>3. ASSUME NEW v \in Validators, ChallengeAges(v) PROVE Past(f)'
  <2>1. flow'[f] \in {flow[f], [flow[f] EXCEPT !.late = TRUE]}
    BY <1>1, <1>3 DEF ChallengeAges
  <2> QED
    BY <1>1, <2>1 DEF Past, FlowRows
<1>4. CASE UNCHANGED flow
  BY <1>4 DEF Past
<1> QED
  BY <1>2, <1>3, <1>4 DEF SocialNext, OwnerStep, AskUnlink, UnlinkX, UnlinkDiscord, Rename,
     MigrationStep, FindInSource, AlreadyLinked, FindEmpty, CopySocial, TrackValidator,
     ErrorSwallowed, MigrationFails, ListUnprocessed, RestartMigration, KeepsRest

(* What a step does to the X account of a row.                             *)
Links(v) ==
    \E f \in Flows : Of(f) = v /\ At(f, "linking") /\ flow'[f].at = "cleaning" /\ profiles'[v].x = f
Copies(v) ==
    migrating[v] = "empty" /\ migrating'[v] = "tracking" /\ profiles'[v].x = Source /\ Named(v)'
LEMMA AccountSteps ==
    ASSUME KeptInvariant, SocialNext
    PROVE  \A v \in Validators :
              profiles'[v].x \in {Nothing, profiles[v].x} \/ Links(v) \/ Copies(v)
<1> USE DEF KeptInvariant, OwnInvariant, SocialTypeOK
<1> DEFINE Effect == \A v \in Validators :
              profiles'[v].x \in {Nothing, profiles[v].x} \/ Links(v) \/ Copies(v)
<1>1. ASSUME NEW f \in Flows, LinkX(f) PROVE Effect
  <2>1. flow[f].target = Of(f) /\ Of(f) \in Validators /\ flow[f] \in FlowRows
    BY KeptFacts DEF KeepsTarget
  <2>2. profiles'[Of(f)].x = f /\ \A v \in Validators \ {Of(f)} : profiles'[v] = profiles[v]
    BY <1>1, <2>1 DEF LinkX, Columns
  <2>3. At(f, "linking") /\ flow'[f].at = "cleaning"
    BY <1>1, <2>1 DEF LinkX, Goes, FlowRows
  <2> QED
    BY <2>2, <2>3 DEF Links
<1>2. ASSUME NEW f \in Flows, LinkDiscord(f) PROVE Effect
  BY <1>2 DEF LinkDiscord, Columns
<1>3. ASSUME NEW w \in Validators, UnlinkX(w) \/ UnlinkDiscord(w) \/ Rename(w) PROVE Effect
  BY <1>3 DEF UnlinkX, UnlinkDiscord, Rename, Columns
<1>4. ASSUME NEW w \in Validators, CopySocial(w) PROVE Effect
  <2>1. /\ social.older[w] \in [Columns -> {Nothing, Source}]
        /\ social.older[w].x # Nothing => social.older[w].name # Nothing
    BY <1>4, KeptFacts DEF CopySocial, FoundInSource
  <2>2. \A c \in Columns :
          profiles'[w][c] = IF social.older[w][c] = Nothing THEN profiles[w][c] ELSE social.older[w][c]
    BY <1>4 DEF CopySocial
  <2>3. migrating[w] = "empty" /\ migrating'[w] = "tracking"
    BY <1>4 DEF CopySocial, Advances
  <2>4. \A v \in Validators \ {w} : profiles'[v] = profiles[v]
    BY <1>4 DEF CopySocial
  <2>5. CASE social.older[w].x = Nothing
    BY <2>2, <2>4, <2>5 DEF Columns
  <2>6. CASE social.older[w].x # Nothing
    <3>1. profiles'[w].x = Source /\ profiles'[w].name = Source
      BY <2>1, <2>2, <2>6 DEF Columns
    <3> QED
      BY <2>3, <2>4, <3>1, KeptFacts DEF Copies, Named
  <2> QED
    BY <2>5, <2>6
<1>5. CASE UNCHANGED profiles
  BY <1>5
<1> QED
  BY <1>1, <1>2, <1>3, <1>4, <1>5 DEF SocialNext, ChallengeAges, OwnerStep, AskUnlink, MigrationStep,
     FindInSource, AlreadyLinked, FindEmpty, TrackValidator, ErrorSwallowed, MigrationFails,
     ListUnprocessed, RestartMigration, KeepsRest, rowVars, FlowStep, GetChallenge, Initiate,
     Callback, VerifyChallenge, CheckProfile, CleanupChallenge, FlowFails, FlowDies, Leave

(* What is found on arrival, by a callback or by a run of the migration.   *)
LEMMA ArrivalSteps ==
    ASSUME KeptInvariant, SocialNext
    PROVE  /\ before' \in [Flows \cup Validators -> Accounts]
           /\ \A f \in Flows : \/ before'[f] = before[f]
                               \/ before'[f] = profiles[Of(f)].x /\ flow'[f].at = "called"
           /\ \A v \in Validators : \/ before'[v] = before[v]
                                    \/ before'[v] = profiles[v].x /\ migrating'[v] # "empty"
<1> USE DEF KeptInvariant, OwnInvariant, SocialTypeOK
<1>1. ASSUME NEW f \in Flows, Callback(f), ~UNCHANGED before
      PROVE  before' = [before EXCEPT ![f] = profiles[Of(f)].x] /\ flow'[f].at = "called"
  BY <1>1 DEF Callback, StateValid, FlowRows
<1>2. ASSUME ListUnprocessed
      PROVE  /\ \A f \in Flows : before'[f] = before[f]
             /\ \A v \in Validators : before'[v] = profiles[v].x /\ migrating'[v] # "empty"
             /\ before' \in [Flows \cup Validators -> Accounts]
  <2>1. \A f \in Flows : f \notin Validators
    BY KeptFacts
  <2>2. \A v \in Validators : profiles[v].x \in Accounts
    BY DEF Columns
  <2> QED
    BY <1>2, <2>1, <2>2 DEF ListUnprocessed
<1>3. \A f \in Flows : f \notin Validators /\ Of(f) \in Validators /\ profiles[Of(f)].x \in Accounts
  BY KeptFacts DEF Columns
<1>4. (\E f \in Flows : Callback(f)) \/ ListUnprocessed \/ UNCHANGED before
  BY DEF SocialNext, ChallengeAges, OwnerStep, AskUnlink, UnlinkX, UnlinkDiscord, Rename,
     MigrationStep, FindInSource, AlreadyLinked, FindEmpty, CopySocial, TrackValidator,
     ErrorSwallowed, MigrationFails, RestartMigration, KeepsRest, FlowStep, GetChallenge,
     Initiate, VerifyChallenge, CheckProfile, LinkX, CleanupChallenge, LinkDiscord, FlowFails,
     FlowDies, Leave
<1> QED
  BY <1>1, <1>2, <1>3, <1>4

(* How a flow comes to link, and the migration to copy.                    *)
LEMMA CheckSteps ==
    ASSUME KeptInvariant, SocialNext
    PROVE  /\ \A f \in Flows : flow'[f].at = "linking" =>
                At(f, "linking") \/ profiles'[Of(f)].x = Nothing
           /\ \A v \in Validators : migrating'[v] = "empty" =>
                \/ migrating[v] = "empty"
                \/ ~HasSocial(profiles[v]) /\ UNCHANGED <<profiles, before>>
<1> USE DEF KeptInvariant, OwnInvariant, SocialTypeOK
<1>1. ASSUME NEW f \in Flows, flow'[f].at = "linking", ~At(f, "linking")
      PROVE  profiles'[Of(f)].x = Nothing
  <2>1. flow[f] \in FlowRows /\ flow[f].target = Of(f)
    BY DEF KeepsTarget
  <2>2. ASSUME NEW g \in Flows, FlowStep(g) PROVE CheckProfile(f)
    <3>1. g = f
      BY <1>1, <2>2, FlowMoves DEF At
    <3>2. ASSUME NEW stage, Goes(f, stage) PROVE flow'[f].at = stage
      BY <2>1, <3>2 DEF Goes, FlowRows
    <3>3. ~Refused(f)
      BY <1>1, <2>1 DEF Refused, FlowRows
    <3>4. ASSUME NEW to, flow' = [flow EXCEPT ![f].at = "called", ![f].target = to] PROVE FALSE
      BY <1>1, <2>1, <3>4 DEF FlowRows
    <3>5. ASSUME NEW key, flow' = [flow EXCEPT ![f].at = "verified", ![f].row = key] PROVE FALSE
      BY <1>1, <2>1, <3>5 DEF FlowRows
    <3> QED
      BY <1>1, <2>2, <3>1, <3>2, <3>3, <3>4, <3>5 DEF FlowStep, GetChallenge, Initiate, Callback,
         VerifyChallenge, LinkX, CleanupChallenge, LinkDiscord, FlowFails, FlowDies, Leave
  <2>3. ASSUME NEW v \in Validators, ChallengeAges(v) PROVE FALSE
    <3>1. flow'[f] \in {flow[f], [flow[f] EXCEPT !.late = TRUE]}
      BY <2>3 DEF ChallengeAges
    <3> QED
      BY <1>1, <2>1, <3>1 DEF FlowRows, At
  <2>4. flow' # flow
    BY <1>1 DEF At
  <2>5. CheckProfile(f)
    BY <2>2, <2>3, <2>4 DEF SocialNext, OwnerStep, AskUnlink, UnlinkX, UnlinkDiscord, Rename,
       MigrationStep, FindInSource, AlreadyLinked, FindEmpty, CopySocial, TrackValidator,
       ErrorSwallowed, MigrationFails, ListUnprocessed, RestartMigration, KeepsRest
  <2>6. ~Goes(f, "leaving")
    BY <1>1, <2>1 DEF Goes, FlowRows
  <2> QED
    BY <2>1, <2>5, <2>6 DEF CheckProfile, Free, rowVars
<1>2. ASSUME NEW v \in Validators, migrating'[v] = "empty", migrating[v] # "empty"
      PROVE  ~HasSocial(profiles[v]) /\ UNCHANGED <<profiles, before>>
  <2>1. ASSUME NEW w \in Validators, NEW stage, Advances(w, stage)
        PROVE  w = v /\ stage = "empty"
    <3>1. migrating' = [migrating EXCEPT ![w] = stage] /\ DOMAIN migrating = Validators
      BY <2>1 DEF Advances
    <3>2. CASE w # v
      BY <1>2, <3>1, <3>2
    <3>3. CASE w = v
      BY <1>2, <3>1, <3>3
    <3> QED
      BY <3>2, <3>3
  <2>2. \A w \in Validators :
          /\ ~Advances(w, "found") /\ ~Advances(w, "tracking") /\ ~Advances(w, "no")
          /\ Advances(w, "empty") => w = v
    BY <2>1
  <2>3. ASSUME NEW w \in Validators,
               MigrationStep(w) \/ ErrorSwallowed(w) \/ MigrationFails(w)
        PROVE  FindEmpty(v)
    BY <2>2, <2>3 DEF MigrationStep, FindInSource, AlreadyLinked, FindEmpty, CopySocial,
       TrackValidator, ErrorSwallowed, MigrationFails
  <2>4. ~ListUnprocessed /\ ~RestartMigration
    BY <1>2 DEF ListUnprocessed, RestartMigration
  <2>5. migrating' # migrating
    BY <1>2
  <2>6. FindEmpty(v)
    BY <2>3, <2>4, <2>5 DEF SocialNext, ChallengeAges, OwnerStep, AskUnlink, UnlinkX, UnlinkDiscord,
       Rename, FlowStep, GetChallenge, Initiate, Callback, VerifyChallenge, CheckProfile, LinkX,
       CleanupChallenge, LinkDiscord, FlowFails, FlowDies, Leave, migrationVars
  <2> QED
    BY <2>6 DEF FindEmpty, KeepsRest
<1> QED
  BY <1>1, <1>2

LEMMA KeptStep ==
    ASSUME KeptInvariant, SocialNext
    PROVE  KeptInvariant'
<1> USE DEF KeptInvariant
<1>1. OwnInvariant' /\ social \in SocialCases
  BY FlowOwn, OthersOwn DEF OwnInvariant, SocialTypeOK
<1>2. /\ Flows' = Flows /\ Accounts' = Accounts
      /\ \A g : Of(g)' = Of(g)
  <2>1. UNCHANGED social
    BY DEF SocialNext, ChallengeAges, OwnerStep, AskUnlink, UnlinkX, UnlinkDiscord, Rename,
       MigrationStep, FindInSource, AlreadyLinked, FindEmpty, CopySocial, TrackValidator,
       ErrorSwallowed, MigrationFails, ListUnprocessed, RestartMigration, KeepsRest, FlowStep,
       GetChallenge, Initiate, Callback, VerifyChallenge, CheckProfile, LinkX, CleanupChallenge,
       LinkDiscord, FlowFails, FlowDies, Leave
  <2> QED
    BY <2>1, SameCase
<1>3. /\ \A f \in Flows : f \notin Validators \cup {Nothing, Source} /\ Of(f) \in Validators
      /\ Source # Nothing
  BY <1>1, KeptFacts
<1>4. ShownArePast'
  <2> SUFFICES ASSUME NEW v \in Validators, NEW f \in Flows, profiles'[v].x = f PROVE Past(f)'
    BY <1>2 DEF ShownArePast
  <2>1. CASE profiles[v].x = f
    BY <2>1, PastStays DEF ShownArePast
  <2>2. CASE Links(v)
    BY <2>2 DEF Links, Past
  <2> QED
    BY <1>3, <2>1, <2>2, AccountSteps DEF Copies
<1>5. FoundArePast'
  <2> SUFFICES ASSUME NEW w \in Flows \cup Validators, NEW f \in Flows, before'[w] = f
               PROVE  Past(f)'
    BY <1>2 DEF FoundArePast
  <2>1. Past(f)
    BY <1>3, ArrivalSteps DEF FoundArePast, ShownArePast
  <2> QED
    BY <2>1, PastStays
<1>6. SourceNamed'
  <2> SUFFICES ASSUME NEW v \in Validators, profiles'[v].x = Source PROVE Named(v)'
    BY DEF SourceNamed
  <2>1. profiles[v].x = Source \/ Copies(v)
    BY <1>3, AccountSteps DEF Links
  <2> QED
    BY <2>1, NamesStay DEF SourceNamed, Copies
<1>7. FoundNamed'
  <2> SUFFICES ASSUME NEW f \in Flows, NEW v \in Validators, v = Of(f), before'[f] = Source
               PROVE  Named(v)'
    BY <1>2, <1>3 DEF FoundNamed, Named
  <2>1. Named(v)
    BY ArrivalSteps DEF FoundNamed, SourceNamed
  <2> QED
    BY <2>1, NamesStay
<1>8. EmptyUnnamed'
  <2> SUFFICES ASSUME NEW v \in Validators, migrating'[v] = "empty"
               PROVE  /\ profiles'[v].x # Source
                      /\ \A f \in Flows : Of(f) = v => before'[f] # Source
    BY <1>2 DEF EmptyUnnamed
  <2>1. CASE migrating[v] = "empty"
    BY <1>3, <2>1, AccountSteps, ArrivalSteps DEF EmptyUnnamed, Links, Copies
  <2>2. CASE ~HasSocial(profiles[v]) /\ UNCHANGED <<profiles, before>>
    BY <1>3, <2>2 DEF HasSocial, Columns, FoundNamed, Named
  <2> QED
    BY <2>1, <2>2, CheckSteps
<1>9. LinkingFree'
  <2> SUFFICES ASSUME NEW f \in Flows, flow'[f].at = "linking"
               PROVE  profiles'[Of(f)].x = Nothing \/ profiles'[Of(f)].x # before'[f]
    BY <1>2 DEF LinkingFree, Other, At
  <2>1. before'[f] = before[f]
    BY ArrivalSteps
  <2>2. CASE At(f, "linking")
    <3>1. CASE Links(Of(f))
      BY <2>1, <3>1 DEF Links, FoundArePast, Past, At
    <3>2. CASE Copies(Of(f))
      BY <1>3, <2>1, <3>2 DEF Copies, EmptyUnnamed
    <3> QED
      BY <1>3, <2>1, <2>2, <3>1, <3>2, AccountSteps DEF LinkingFree, Other
  <2> QED
    BY <2>2, CheckSteps
<1>10. EmptyFree'
  <2> SUFFICES ASSUME NEW v \in Validators, migrating'[v] = "empty"
               PROVE  profiles'[v].x = Nothing \/ profiles'[v].x # before'[v]
    BY DEF EmptyFree, Other
  <2>1. before'[v] = before[v]
    BY ArrivalSteps
  <2>2. CASE migrating[v] = "empty"
    <3>1. CASE Links(v)
      BY <2>1, <3>1 DEF Links, FoundArePast, Past, At
    <3>2. ~Copies(v)
      BY DEF Copies
    <3> QED
      BY <2>1, <2>2, <3>1, <3>2, AccountSteps DEF EmptyFree, Other
  <2>3. CASE ~HasSocial(profiles[v]) /\ UNCHANGED <<profiles, before>>
    BY <2>3 DEF HasSocial, Columns
  <2> QED
    BY <2>2, <2>3, CheckSteps
<1> QED
  BY <1>1, <1>2, <1>4, <1>5, <1>6, <1>7, <1>8, <1>9, <1>10, ArrivalSteps

(* However callbacks, owners and the migration interleave, and whatever    *)
(* fails in between, an X account that one of them found on its arrival    *)
(* is not replaced by it.                                                  *)
THEOREM AccountsAreKept == SocialSpec => LinkKept
<1> DEFINE Kept ==
        \A v \in Validators :
            LET old == profiles[v].x
                new == profiles'[v].x
            IN  old # Nothing /\ new \notin {Nothing, old} => before[Writer(v, new)] # old
<1>1. KeptInvariant /\ [SocialNext]_socialVars => KeptInvariant'
  <2>1. ASSUME KeptInvariant, UNCHANGED socialVars PROVE KeptInvariant'
    <3>1. UNCHANGED <<social, profiles, challenges, session, flow, migrating, before>>
      BY <2>1 DEF socialVars, rowVars, migrationVars
    <3>2. /\ Flows' = Flows /\ Accounts' = Accounts /\ Browsers' = Browsers
          /\ FlowRows' = FlowRows /\ ChallengeRows' = ChallengeRows
          /\ \A g : Of(g)' = Of(g)
      BY <3>1, SameCase
    <3>3. OwnInvariant'
      BY <2>1, <3>1, <3>2 DEF KeptInvariant, OwnInvariant, SocialTypeOK, KeepsTarget,
         FoundInSource, LinksOwn
    <3> QED
      BY <2>1, <3>1, <3>2, <3>3 DEF KeptInvariant, ShownArePast, FoundArePast, SourceNamed,
         FoundNamed, EmptyUnnamed, LinkingFree, EmptyFree, Past, Named, Other, At
  <2> QED
    BY <2>1, KeptStep
<1>2. KeptInvariant /\ [SocialNext]_socialVars => [Kept]_socialVars
  <2> SUFFICES ASSUME KeptInvariant, SocialNext, NEW v \in Validators,
                      profiles[v].x # Nothing, profiles'[v].x \notin {Nothing, profiles[v].x}
               PROVE  before[Writer(v, profiles'[v].x)] # profiles[v].x
    OBVIOUS
  <2>1. \A f \in Flows : f # Source
    BY KeptFacts DEF KeptInvariant, OwnInvariant, SocialTypeOK
  <2>2. CASE Links(v)
    BY <2>1, <2>2 DEF Links, KeptInvariant, LinkingFree, Other, Writer
  <2>3. CASE Copies(v)
    BY <2>3 DEF Copies, KeptInvariant, EmptyFree, Other, Writer
  <2> QED
    BY <2>2, <2>3, AccountSteps
<1> QED
  BY <1>1, <1>2, InitKept, PTL DEF SocialSpec, LinkKept

----------------------------------------------------------------------------
(* The governance views: a table shows a part of the chain, which only     *)
(* grows, and what a view says depends on what is shown.                   *)
ShownInvariant ==
    /\ chain \in Seq({chain[b] : b \in 1 .. Now})
    /\ shown \in [Tables -> 0 .. Now]

LEMMA ChainGrows ==
    ASSUME ShownInvariant, [GovernanceNext]_governanceVars
    PROVE  /\ Now \in Nat /\ Now' \in Nat /\ Now <= Now'
           /\ \A b \in 1 .. Now : chain'[b] = chain[b]
           /\ \A t \in Tables : shown[t] <= shown'[t]
           /\ ShownInvariant'
<1> DEFINE S == {chain[b] : b \in 1 .. Now}
<1>1. chain \in Seq(S) /\ Len(chain) \in Nat /\ shown \in [Tables -> 0 .. Len(chain)]
  BY DEF ShownInvariant, Now
<1>2. ASSUME NEW x, chain' = Append(chain, x), shown' = shown
      PROVE  /\ Now' = Now + 1 /\ \A b \in 1 .. Now : chain'[b] = chain[b]
             /\ ShownInvariant'
  <2> DEFINE T == S \cup {x}
  <2>1. chain \in Seq(T)
    BY <1>1
  <2> HIDE DEF S
  <2>2. Len(chain') = Len(chain) + 1 /\ chain' \in Seq(T)
        /\ chain'[Len(chain) + 1] = x /\ \A b \in 1 .. Len(chain) : chain'[b] = chain[b]
    BY <1>1, <1>2, <2>1
  <2>3. chain' \in Seq({chain'[b] : b \in 1 .. Len(chain')})
    BY <2>2, SeqDef
  <2>4. shown' \in [Tables -> 0 .. Len(chain')]
    BY <1>1, <1>2, <2>2
  <2> QED
    BY <2>2, <2>3, <2>4 DEF Now, ShownInvariant
<1>3. ASSUME NEW t \in Tables, Fill(t)
      PROVE  /\ chain' = chain /\ ShownInvariant' /\ \A u \in Tables : shown[u] <= shown'[u]
  <2>1. chain' = chain /\ shown[t] < Len(chain) /\ shown' = [shown EXCEPT ![t] = @ + 1]
    BY <1>3 DEF Fill, Now
  <2>2. \A u \in Tables : shown[u] \in Nat /\ shown[u] <= Len(chain)
    BY <1>1
  <2>3. \A u \in Tables : shown'[u] = IF u = t THEN shown[t] + 1 ELSE shown[u]
    BY <1>1, <2>1
  <2>4. \A u \in Tables : shown'[u] \in 0 .. Len(chain) /\ shown[u] <= shown'[u]
    BY <1>1, <2>1, <2>2, <2>3
  <2>5. shown' \in [Tables -> 0 .. Len(chain)]
    BY <1>1, <2>1, <2>4
  <2> QED
    BY <1>1, <2>1, <2>4, <2>5 DEF ShownInvariant, Now
<1>4. \/ \E x : chain' = Append(chain, x) /\ shown' = shown
      \/ \E t \in Tables : Fill(t)
      \/ chain' = chain /\ shown' = shown
  BY DEF GovernanceNext, Signal, PassBlock, Submit, Happens, RecordSlot, ChangeStatus, governanceVars
<1>5. ShownInvariant' => Now' \in Nat
  BY DEF ShownInvariant, Now
<1>6. Now \in Nat /\ \A t \in Tables : shown[t] <= shown[t]
  BY <1>1 DEF Now
<1>7. CASE \E x : chain' = Append(chain, x) /\ shown' = shown
  <2>1. PICK x : chain' = Append(chain, x) /\ shown' = shown
    BY <1>7
  <2>2. /\ Now' = Now + 1 /\ \A b \in 1 .. Now : chain'[b] = chain[b]
        /\ ShownInvariant'
    BY <1>2, <2>1
  <2>3. Now <= Now'
    BY <1>6, <2>2
  <2> QED
    BY <1>5, <1>6, <2>1, <2>2, <2>3
<1>8. CASE \E t \in Tables : Fill(t)
  BY <1>3, <1>5, <1>6, <1>8 DEF Now
<1>9. CASE chain' = chain /\ shown' = shown
  BY <1>6, <1>9 DEF Now, ShownInvariant
<1> QED
  BY <1>4, <1>7, <1>8, <1>9

LEMMA ShownIsKept == GovernanceSpec => []ShownInvariant
<1>1. GovernanceInit => ShownInvariant
  <2> SUFFICES ASSUME GovernanceInit PROVE ShownInvariant
    OBVIOUS
  <2>1. chain = <<>> /\ Now = 0 /\ shown = [t \in Tables |-> 0]
    BY DEF GovernanceInit, Now
  <2> QED
    BY <2>1 DEF ShownInvariant
<1>2. ShownInvariant /\ [GovernanceNext]_governanceVars => ShownInvariant'
  BY ChainGrows
<1> QED
  BY <1>1, <1>2, PTL DEF GovernanceSpec

(* Rounds follow one another.                                              *)
LEMMA RoundsGrow == \A b, c \in Nat : b <= c => Round(b) \in Int /\ Round(b) <= Round(c)
<1> SUFFICES ASSUME NEW b \in Nat, NEW c \in Nat, b <= c
             PROVE  Round(b) \in Int /\ Round(b) <= Round(c)
  OBVIOUS
<1> DEFINE q == b \div RoundSize
           s == c \div RoundSize
<1>1. RoundSize \in Nat /\ RoundSize > 0
  BY GovernanceAssumption
<1>2. q \in Int /\ s \in Int /\ RoundSize * q <= b /\ c < RoundSize * (s + 1)
  BY <1>1
<1> HIDE DEF q, s
<1>3. ~(s + 1 <= q)
  <2> SUFFICES ASSUME s + 1 <= q PROVE FALSE
    OBVIOUS
  <2>1. RoundSize * (s + 1) <= RoundSize * q
    BY <1>1, <1>2
  <2> QED
    BY <1>1, <1>2, <2>1
<1>4. q <= s
  BY <1>2, <1>3
<1> QED
  BY <1>2, <1>4 DEF Round, q, s

(* What a table shows of a round stays, and goes on.                       *)
LEMMA RowsGrow ==
    ASSUME ShownInvariant, [GovernanceNext]_governanceVars
    PROVE  /\ \A p, r : SubmittableRows(p, r) \subseteq SubmittableRows(p, r)'
           /\ \A p, r : SubmittedRows(p, r) \subseteq SubmittedRows(p, r)'
           /\ \A r \in Nat : TooOld(r) => TooOld(r)'
<1>1. /\ Now \in Nat /\ Now' \in Nat /\ Now <= Now'
      /\ \A b \in 1 .. Now : chain'[b] = chain[b]
      /\ \A t \in Tables : shown[t] <= shown'[t]
      /\ ShownInvariant'
  BY ChainGrows
<1>2. \A t \in Tables : /\ shown[t] \in Nat /\ shown'[t] \in Nat
                        /\ \A b \in Filled(t) : b \in Nat /\ b \in 1 .. Now /\ b \in Filled(t)'
  <2> SUFFICES ASSUME NEW t \in Tables
               PROVE  /\ shown[t] \in Nat /\ shown'[t] \in Nat
                      /\ \A b \in Filled(t) : b \in Nat /\ b \in 1 .. Now /\ b \in Filled(t)'
    OBVIOUS
  <2>1. shown[t] \in 0 .. Now /\ shown'[t] \in 0 .. Now' /\ shown[t] <= shown'[t]
    BY <1>1 DEF ShownInvariant
  <2> QED
    BY <1>1, <2>1 DEF Filled
<1>3. \A b \in 1 .. Now : Is(b, "signal")' = Is(b, "signal") /\ Is(b, "submit")' = Is(b, "submit")
  BY <1>1 DEF Is
<1>4. ASSUME NEW b \in 1 .. Now PROVE ReachesQuorum(b)' <=> ReachesQuorum(b)
  <2>1. {c \in Signals(chain[b].payload, Round(b)) : c <= b}'
            = {c \in Signals(chain[b].payload, Round(b)) : c <= b}
    <3>1. \A c : c \in 1 .. Now /\ c <= b <=> c \in 1 .. Now' /\ c <= b
      BY <1>1
    <3> QED
      BY <1>1, <1>3, <3>1 DEF Signals, Round
  <2> QED
    BY <1>3, <2>1 DEF ReachesQuorum
<1>5. \A p, r : SubmittableRows(p, r) \subseteq SubmittableRows(p, r)'
  BY <1>1, <1>2, <1>4 DEF SubmittableRows, Tables, Round
<1>6. \A p, r : SubmittedRows(p, r) \subseteq SubmittedRows(p, r)'
  BY <1>1, <1>2, <1>3 DEF SubmittedRows, Tables
<1>7. ASSUME NEW r \in Nat, TooOld(r) PROVE TooOld(r)'
  <2>1. Round(Now) <= Round(Now') /\ Round(Now) \in Int /\ Round(Now') \in Int
    BY <1>1, RoundsGrow
  <2>2. Round(Now)' = Round(Now')
    BY DEF Round
  <2> QED
    BY <1>7, <2>1, <2>2, GovernanceAssumption DEF TooOld
<1> QED
  BY <1>5, <1>6, <1>7

(* The list of a range is never ahead of the matrix, which shows all.      *)
LEMMA MatrixGoesOn ==
    ASSUME ShownInvariant, [GovernanceNext]_governanceVars, NEW p, NEW r \in Nat
    PROVE  /\ \A range : Rank[ListStatus(p, r, range)] <= Rank[MatrixStatus(p, r)]
           /\ Rank[MatrixStatus(p, r)] <= Rank[MatrixStatus(p, r)']
           /\ Rank[MatrixStatus(p, r)'] \in Nat /\ Rank[MatrixStatus(p, r)] \in Nat
           /\ \A range : Rank[ListStatus(p, r, range)] \in Nat
<1>1. /\ SubmittableRows(p, r) \subseteq SubmittableRows(p, r)'
      /\ SubmittedRows(p, r) \subseteq SubmittedRows(p, r)'
      /\ TooOld(r) => TooOld(r)'
  BY RowsGrow
<1>2. ASSUME NEW a \in BOOLEAN, NEW b \in BOOLEAN, NEW c \in BOOLEAN
      PROVE  Rank[PayloadStatus(a, b, c)] = IF a THEN 3 ELSE IF c THEN 2 ELSE IF b THEN 1 ELSE 0
  BY DEF Rank, PayloadStatus
<1>3. \A range : Select(SubmittedRows(p, r), range) \subseteq SubmittedRows(p, r)
                 /\ Select(SubmittableRows(p, r), range) \subseteq SubmittableRows(p, r)
  BY DEF Select
<1>4. TooOld(r) \in BOOLEAN /\ TooOld(r)' \in BOOLEAN
  BY DEF TooOld
<1>5. Rank[MatrixStatus(p, r)] = IF SubmittedRows(p, r) # {} THEN 3 ELSE IF TooOld(r) THEN 2
                                 ELSE IF SubmittableRows(p, r) # {} THEN 1 ELSE 0
  BY <1>2, <1>4 DEF MatrixStatus
<1>6. Rank[MatrixStatus(p, r)'] = IF SubmittedRows(p, r)' # {} THEN 3 ELSE IF TooOld(r)' THEN 2
                                  ELSE IF SubmittableRows(p, r)' # {} THEN 1 ELSE 0
  BY <1>2, <1>4 DEF MatrixStatus
<1>7. ASSUME NEW range
      PROVE  /\ Rank[ListStatus(p, r, range)] <= Rank[MatrixStatus(p, r)]
             /\ Rank[ListStatus(p, r, range)] \in Nat
  <2>1. Rank[ListStatus(p, r, range)] =
            IF Select(SubmittedRows(p, r), range) # {} THEN 3 ELSE IF TooOld(r) THEN 2
            ELSE IF Select(SubmittableRows(p, r), range) # {} /\ SubmittedRows(p, r) = {} THEN 1 ELSE 0
    BY <1>2, <1>4 DEF ListStatus
  <2> QED
    BY <1>3, <1>5, <2>1
<1> QED
  BY <1>1, <1>5, <1>6, <1>7

(* Of what was handled in a range, the list shows what the matrix shows.   *)
LEMMA HandledAlike ==
    ASSUME NEW p, NEW r, NEW range, HandledIn(p, r, range)
    PROVE  ListStatus(p, r, range) = MatrixStatus(p, r)
  BY DEF HandledIn, Inside, ListStatus, MatrixStatus

(* The summary of a round counts the payloads by what the list shows.      *)
LEMMA SummaryCounts ==
    ASSUME ShownInvariant, NEW r, NEW range, \A p \in PayloadsIn(r, range) : HandledIn(p, r, range),
           NEW status \in DOMAIN Summary(r, range)
    PROVE  Summary(r, range)[status] = Cardinality(ListShows(r, range, status))
<1> DEFINE listed == PayloadsIn(r, range)
           submitted == {p \in listed : Select(SubmittedRows(p, r), range) # {}}
           submittable == {p \in listed : SummarySubmittable(p, r, range)}
           waiting == listed \ (submitted \cup submittable)
<1>1. IsFiniteSet(listed)
  <2>1. shown["votes"] \in Nat
    BY DEF ShownInvariant, Tables, Now
  <2>2. IsFiniteSet(1 .. shown["votes"])
    BY <2>1, FS_Interval
  <2>3. VotesIn(r, range) \subseteq 1 .. shown["votes"]
    BY DEF VotesIn, Select, VoteRows, Filled
  <2>4. IsFiniteSet(VotesIn(r, range))
    BY <2>2, <2>3, FS_Subset
  <2> DEFINE payload == [b \in VotesIn(r, range) |-> chain[b].payload]
  <2>5. payload \in Surjection(VotesIn(r, range), listed)
    BY DEF Surjection, PayloadsIn
  <2> QED
    BY <2>4, <2>5, FS_Surjection
<1>2. \A p \in listed : Select(SubmittedRows(p, r), range) = SubmittedRows(p, r)
  BY DEF HandledIn, Inside
<1>3. ListShows(r, range, "Submitted") = submitted
  BY DEF ListShows, ListStatus, PayloadStatus
<1>4. ~TooOld(r) => /\ ListShows(r, range, "Submittable") = submittable
                    /\ ListShows(r, range, "Active") = waiting
                    /\ ListShows(r, range, "Expired") = {}
  BY <1>2 DEF ListShows, ListStatus, PayloadStatus, SummarySubmittable
<1>5. TooOld(r) => /\ ListShows(r, range, "Submittable") = {}
                   /\ ListShows(r, range, "Active") = {}
                   /\ ListShows(r, range, "Expired") = waiting \cup submittable
  BY <1>2 DEF ListShows, ListStatus, PayloadStatus, SummarySubmittable
<1>6. Cardinality(waiting \cup submittable) = Cardinality(waiting) + Cardinality(submittable)
  <2>1. waiting \cap submittable = {} /\ waiting \subseteq listed /\ submittable \subseteq listed
    OBVIOUS
  <2> HIDE DEF waiting, submittable, listed
  <2>2. IsFiniteSet(waiting) /\ IsFiniteSet(submittable)
    BY <1>1, <2>1, FS_Subset
  <2>3. Cardinality(waiting \cup submittable)
            = Cardinality(waiting) + Cardinality(submittable) - Cardinality(waiting \cap submittable)
    BY <2>2, FS_Union
  <2>4. Cardinality(waiting) \in Nat /\ Cardinality(submittable) \in Nat
        /\ Cardinality(waiting \cap submittable) = 0
    BY <2>1, <2>2, FS_EmptySet, FS_CardinalityType
  <2> QED
    BY <2>3, <2>4
<1>7. Summary(r, range) =
        [Submitted |-> Cardinality(submitted),
         Submittable |-> IF TooOld(r) THEN 0 ELSE Cardinality(submittable),
         Active |-> IF TooOld(r) THEN 0 ELSE Cardinality(waiting),
         Expired |-> IF TooOld(r) THEN Cardinality(waiting) + Cardinality(submittable) ELSE 0]
  BY DEF Summary
<1> HIDE DEF submitted, submittable, waiting, listed
<1>8. status \in {"Submitted", "Submittable", "Active", "Expired"}
  BY <1>7
<1>9. Cardinality({}) = 0
  BY FS_EmptySet
<1> QED
  BY <1>3, <1>4, <1>5, <1>6, <1>7, <1>8, <1>9

(* What a view has said of a payload it does not take back: the queries of *)
(* getPayloadDetails and of the signaling matrix, whatever the tables lag. *)
THEOREM StatusIsKept == GovernanceSpec => StatusGoesOn
<1>1. ASSUME ShownInvariant, [GovernanceNext]_governanceVars, NEW selected \in Selections,
             NEW r \in Rounds, NEW p \in PayloadsIn(r, RangeOf(selected))
      PROVE  /\ HandledIn(p, r, RangeOf(selected))'
                    => Rank[ListStatus(p, r, RangeOf(selected))] <= Rank[ListStatus(p, r, RangeOf(selected))']
             /\ Rank[MatrixStatus(p, r)] <= Rank[MatrixStatus(p, r)']
  <2>1. r \in Nat
    BY DEF Rounds
  <2>2. /\ Rank[ListStatus(p, r, RangeOf(selected))] <= Rank[MatrixStatus(p, r)]
        /\ Rank[MatrixStatus(p, r)] <= Rank[MatrixStatus(p, r)']
        /\ Rank[MatrixStatus(p, r)'] \in Nat /\ Rank[MatrixStatus(p, r)] \in Nat
        /\ Rank[ListStatus(p, r, RangeOf(selected))] \in Nat
    BY <1>1, <2>1, MatrixGoesOn
  <2>3. HandledIn(p, r, RangeOf(selected))'
            => ListStatus(p, r, RangeOf(selected))' = MatrixStatus(p, r)'
    BY HandledAlike DEF HandledIn, Inside, ListStatus, MatrixStatus
  <2> QED
    BY <2>2, <2>3
<1>2. ShownInvariant /\ [GovernanceNext]_governanceVars =>
        [Rollups' = Rollups =>
            \A selected \in Selections, r \in Rounds :
                \A p \in PayloadsIn(r, RangeOf(selected)) :
                    /\ HandledIn(p, r, RangeOf(selected))'
                        => Rank[ListStatus(p, r, RangeOf(selected))] <= Rank[ListStatus(p, r, RangeOf(selected))']
                    /\ Rank[MatrixStatus(p, r)] <= Rank[MatrixStatus(p, r)']]_governanceVars
  BY <1>1
<1> QED
  BY <1>2, ShownIsKept, PTL DEF GovernanceSpec, StatusGoesOn

(* However far each table is filled, the list, the dashboard and the       *)
(* matrix agree on a payload that was handled in the range, and the        *)
(* summary of a round counts what the list shows.                          *)
THEOREM ViewsAreOne == GovernanceSpec => []ViewsAgree
<1>1. ASSUME ShownInvariant, NEW selected \in Selections, NEW r \in Rounds
      PROVE  LET range == RangeOf(selected)
                 handled == {p \in PayloadsIn(r, range) : HandledIn(p, r, range)}
             IN  /\ \A p \in handled :
                        /\ ListStatus(p, r, range) = MatrixStatus(p, r)
                        /\ OverviewSubmitted(p, r, range) <=> ListStatus(p, r, range) = "Submitted"
                        /\ OverviewSubmittable(p, r, range)
                            => ListStatus(p, r, range) \in {"Submittable", "Expired"}
                        /\ ListStatus(p, r, range) = "Submittable"
                            => \/ OverviewSubmittable(p, r, range)
                               \/ \E other \in Rounds : SubmittedRows(p, other) # {}
                 /\ handled = PayloadsIn(r, range) =>
                        \A status \in DOMAIN Summary(r, range) :
                            Summary(r, range)[status] = Cardinality(ListShows(r, range, status))
  <2> DEFINE range == RangeOf(selected)
             listed == PayloadsIn(r, range)
  <2>1. ASSUME NEW p \in listed, HandledIn(p, r, range)
        PROVE  /\ ListStatus(p, r, range) = MatrixStatus(p, r)
               /\ OverviewSubmitted(p, r, range) <=> ListStatus(p, r, range) = "Submitted"
               /\ OverviewSubmittable(p, r, range)
                    => ListStatus(p, r, range) \in {"Submittable", "Expired"}
               /\ ListStatus(p, r, range) = "Submittable"
                    => \/ OverviewSubmittable(p, r, range)
                       \/ \E other \in Rounds : SubmittedRows(p, other) # {}
    BY <2>1, HandledAlike DEF Rounds, HandledIn, Inside, ListStatus, PayloadStatus, OverviewSubmitted,
       OverviewSubmittable
  <2>2. ASSUME \A p \in listed : HandledIn(p, r, range), NEW status \in DOMAIN Summary(r, range)
        PROVE  Summary(r, range)[status] = Cardinality(ListShows(r, range, status))
    BY <2>2, <1>1, SummaryCounts
  <2> QED
    BY <2>1, <2>2
<1>2. ShownInvariant => ViewsAgree
  BY <1>1 DEF ViewsAgree
<1> QED
  BY <1>2, ShownIsKept, PTL DEF GovernanceSpec

----------------------------------------------------------------------------
(* SumFunction adds up one element after the other.                        *)
Picked(s) == CHOOSE x \in s : TRUE
Added(f, g) ==
    g = [s \in SUBSET DOMAIN f |-> IF s = {} THEN 0 ELSE f[Picked(s)] + g[s \ {Picked(s)}]]

LEMMA SumsOfFinite ==
    ASSUME NEW S, IsFiniteSet(S), NEW f \in [S -> Nat]
    PROVE  \E g \in [SUBSET S -> Nat] : Added(f, g) /\ SumFunction(f) = g[S]
<1> DEFINE V == [SUBSET S -> Nat]
           base == [s \in SUBSET S |-> 0]
           step == [n \in Nat |-> [h \in V |->
                     [s \in SUBSET S |-> IF s = {} THEN 0 ELSE f[Picked(s)] + h[s \ {Picked(s)}]]]]
<1>1. \A s \in SUBSET S : s # {} => Picked(s) \in s /\ f[Picked(s)] \in Nat
  BY DEF Picked
<1>2. base \in V /\ step \in Steps(V)
  <2>1. ASSUME NEW n \in Nat, NEW h \in V
        PROVE  [s \in SUBSET S |-> IF s = {} THEN 0 ELSE f[Picked(s)] + h[s \ {Picked(s)}]] \in V
    <3>1. \A s \in SUBSET S : s # {} => f[Picked(s)] + h[s \ {Picked(s)}] \in Nat
      BY <1>1
    <3> QED
      BY <3>1
  <2> QED
    BY <2>1 DEF Steps
<1>3. PICK F \in [Nat -> V] : Runs(F, base, step)
  <2> HIDE DEF V, base, step
  <2> QED
    BY <1>2, RecursionOverNat
<1>4. /\ F[0] = base
      /\ \A n \in Nat \ {0} : F[n] = step[n][F[n - 1]]
  BY <1>3 DEF Runs
<1>5. \A s \in SUBSET S : IsFiniteSet(s) /\ Cardinality(s) \in Nat
  BY FS_Subset, FS_CardinalityType
<1> DEFINE g == [s \in SUBSET S |-> F[Cardinality(s)][s]]
<1>6. ASSUME NEW s \in SUBSET S, s # {}
      PROVE  g[s] = f[Picked(s)] + g[s \ {Picked(s)}]
  <2>1. Picked(s) \in s /\ s \ {Picked(s)} \in SUBSET S
    BY <1>1, <1>6
  <2>2. Cardinality(s \ {Picked(s)}) = Cardinality(s) - 1
    BY <1>5, <2>1, FS_RemoveElement
  <2>3. Cardinality(s) \in Nat \ {0}
    BY <1>5, <2>1, <2>2
  <2>4. F[Cardinality(s)] = step[Cardinality(s)][F[Cardinality(s) - 1]] /\ F[Cardinality(s) - 1] \in V
    <3> DEFINE c == Cardinality(s)
    <3>1. c \in Nat \ {0} /\ c - 1 \in Nat
      BY <2>3
    <3>2. F[c] = step[c][F[c - 1]]
      BY <1>4, <3>1, Zenon
    <3>3. F[c - 1] \in V
      <4> HIDE DEF c, V
      <4> QED
        BY <1>3, <3>1
    <3> QED
      BY <3>2, <3>3
  <2>5. F[Cardinality(s)][s] = f[Picked(s)] + F[Cardinality(s) - 1][s \ {Picked(s)}]
    BY <2>3, <2>4, <1>6
  <2> QED
    BY <2>1, <2>2, <2>5
<1>7. g[{}] = 0
  BY <1>4, FS_EmptySet
<1>8. g \in [SUBSET S -> Nat]
  <2>1. \A s \in SUBSET S : F[Cardinality(s)] \in V
    BY <1>5
  <2> QED
    BY <2>1
<1> HIDE DEF g
<1>9. Added(f, g)
  <2>1. DOMAIN f = S /\ DOMAIN g = SUBSET S /\ g = [s \in SUBSET S |-> g[s]]
    BY <1>8
  <2>2. \A s \in SUBSET S : g[s] = IF s = {} THEN 0 ELSE f[Picked(s)] + g[s \ {Picked(s)}]
    BY <1>6, <1>7
  <2> QED
    BY <2>1, <2>2 DEF Added
<1>10. ASSUME NEW h, Added(f, h)
       PROVE  h = g
  <2> DEFINE T == {n \in Nat : \A s \in SUBSET S : Cardinality(s) = n => h[s] = g[s]}
  <2>1. DOMAIN f = S /\ DOMAIN g = SUBSET S /\ DOMAIN h = SUBSET S
    BY <1>10, <1>8 DEF Added
  <2>2. \A s \in SUBSET S : h[s] = IF s = {} THEN 0 ELSE f[Picked(s)] + h[s \ {Picked(s)}]
    BY <1>10, <2>1 DEF Added
  <2>3. \A s \in SUBSET S : g[s] = IF s = {} THEN 0 ELSE f[Picked(s)] + g[s \ {Picked(s)}]
    BY <1>6, <1>7
  <2>4. 0 \in T
    <3>1. ASSUME NEW s \in SUBSET S, Cardinality(s) = 0 PROVE s = {}
      BY <1>5, <3>1, FS_EmptySet
    <3> QED
      BY <2>2, <2>3, <3>1
  <2>5. ASSUME NEW n \in T PROVE n + 1 \in T
    <3>2. n \in Nat /\ n + 1 # 0 /\ (n + 1) - 1 = n
      OBVIOUS
    <3>1. ASSUME NEW s \in SUBSET S, Cardinality(s) = n + 1 PROVE h[s] = g[s]
      <4>1. s # {}
        BY <3>1, <3>2, FS_EmptySet
      <4>2. Picked(s) \in s /\ s \ {Picked(s)} \in SUBSET S
        BY <4>1, <1>1
      <4>3. Cardinality(s \ {Picked(s)}) = n
        BY <1>5, <3>1, <3>2, <4>2, FS_RemoveElement
      <4>4. h[s \ {Picked(s)}] = g[s \ {Picked(s)}]
        BY <4>2, <4>3
      <4> QED
        BY <4>1, <4>4, <2>2, <2>3
    <3> QED
      BY <3>1
  <2>6. T = Nat
    <3> HIDE DEF T
    <3> QED
      BY <2>4, <2>5, Induction, T \subseteq Nat DEF T
  <2>7. \A s \in SUBSET S : h[s] = g[s]
    BY <2>6, <1>5
  <2>8. h = [s \in SUBSET S |-> h[s]] /\ g = [s \in SUBSET S |-> g[s]]
    BY <1>10, <1>8, <2>1 DEF Added
  <2> QED
    BY <2>7, <2>8
<1>11. SumFunction(f) = (CHOOSE h : Added(f, h))[S]
  BY DEF SumFunction, SumFunctionOnSet, FoldFunctionOnSet, MapThenFoldSet, Added, Picked
<1>12. (CHOOSE h : Added(f, h)) = g
  BY <1>9, <1>10
<1> QED
  BY <1>8, <1>9, <1>11, <1>12

(* The sizes of sets add up to at least that of their union, and to just   *)
(* that if no two have an element in common.                               *)
LEMMA SumOfSizes ==
    ASSUME NEW S, IsFiniteSet(S), NEW parts, \A x \in S : IsFiniteSet(parts[x]),
           NEW size, size = [x \in S |-> Cardinality(parts[x])]
    PROVE  /\ IsFiniteSet(UNION {parts[x] : x \in S})
           /\ SumFunction(size) \in Nat
           /\ SumFunction(size) >= Cardinality(UNION {parts[x] : x \in S})
           /\ (\A x, y \in S : x # y => parts[x] \cap parts[y] = {}) =>
                SumFunction(size) = Cardinality(UNION {parts[x] : x \in S})
<1> DEFINE All(s) == UNION {parts[x] : x \in s}
           Apart == \A x, y \in S : x # y => parts[x] \cap parts[y] = {}
<1>1. size \in [S -> Nat] /\ DOMAIN size = S
  BY FS_CardinalityType
<1>2. PICK g \in [SUBSET S -> Nat] : Added(size, g) /\ SumFunction(size) = g[S]
  BY <1>1, SumsOfFinite
<1>3. \A s \in SUBSET S : g[s] = IF s = {} THEN 0 ELSE size[Picked(s)] + g[s \ {Picked(s)}]
  BY <1>1, <1>2 DEF Added
<1>4. \A s \in SUBSET S : IsFiniteSet(s) /\ Cardinality(s) \in Nat
  BY FS_Subset, FS_CardinalityType
<1> DEFINE Good(s) == /\ IsFiniteSet(All(s)) /\ g[s] >= Cardinality(All(s))
                      /\ Apart => g[s] = Cardinality(All(s))
           T == {n \in Nat : \A s \in SUBSET S : Cardinality(s) = n => Good(s)}
<1>5. Good({})
  <2>1. All({}) = {}
    OBVIOUS
  <2>2. g[{}] = 0
    BY <1>3
  <2>3. IsFiniteSet(All({})) /\ Cardinality(All({})) = 0
    BY <2>1, FS_EmptySet
  <2> QED
    BY <2>2, <2>3
<1>6. ASSUME NEW s \in SUBSET S, s # {}, Good(s \ {Picked(s)})
      PROVE  Good(s)
  <2> DEFINE x == Picked(s)
             rest == s \ {x}
  <2>1. x \in s
    BY <1>6 DEF Picked
  <2> HIDE DEF x
  <2>2. All(s) = parts[x] \cup All(rest)
    BY <2>1
  <2>3. g[s] = Cardinality(parts[x]) + g[rest]
    BY <1>3, <1>6, <2>1 DEF x
  <2>4. IsFiniteSet(parts[x]) /\ Cardinality(parts[x]) \in Nat /\ g[rest] \in Nat
    BY <2>1, FS_CardinalityType
  <2>5. /\ IsFiniteSet(All(rest)) /\ Cardinality(All(rest)) \in Nat /\ g[rest] >= Cardinality(All(rest))
        /\ Apart => g[rest] = Cardinality(All(rest))
    BY <1>6, FS_CardinalityType DEF x
  <2> DEFINE both == parts[x] \cap All(rest)
  <2>6. Apart => both = {}
    BY <2>1
  <2> HIDE DEF All
  <2>7. IsFiniteSet(both) /\ Cardinality(both) \in Nat /\ (both = {} => Cardinality(both) = 0)
    <3>1. both \in SUBSET parts[x]
      OBVIOUS
    <3> HIDE DEF both
    <3>2. IsFiniteSet(both)
      BY <2>4, <3>1, FS_Subset
    <3> QED
      BY <3>2, FS_CardinalityType, FS_EmptySet
  <2>8. /\ IsFiniteSet(parts[x] \cup All(rest))
        /\ Cardinality(parts[x] \cup All(rest)) = Cardinality(parts[x]) + Cardinality(All(rest)) - Cardinality(both)
    BY <2>4, <2>5, FS_Union
  <2> HIDE DEF both, Apart, rest
  <2> QED
    BY <2>2, <2>3, <2>4, <2>5, <2>6, <2>7, <2>8
<1>7. 0 \in T
  <2>1. \A s \in SUBSET S : Cardinality(s) = 0 => s = {}
    BY <1>4, FS_EmptySet
  <2> HIDE DEF Good
  <2> QED
    BY <2>1, <1>5
<1>8. ASSUME NEW n \in T PROVE n + 1 \in T
  <2> HIDE DEF Good
  <2>2. n \in Nat /\ n + 1 # 0 /\ (n + 1) - 1 = n
    OBVIOUS
  <2>1. ASSUME NEW s \in SUBSET S, Cardinality(s) = n + 1 PROVE Good(s)
    <3>1. s # {}
      BY <2>1, <2>2, FS_EmptySet
    <3>2. Picked(s) \in s /\ s \ {Picked(s)} \in SUBSET S
      BY <3>1 DEF Picked
    <3>3. Cardinality(s \ {Picked(s)}) = n
      <4>1. IsFiniteSet(s)
        BY <1>4
      <4>2. Cardinality(s \ {Picked(s)}) = Cardinality(s) - 1
        BY <4>1, <3>2, FS_RemoveElement
      <4> QED
        BY <4>2, <2>1, <2>2
    <3> QED
      BY <3>1, <3>2, <3>3, <1>6
  <2> QED
    BY <2>1
<1>9. T = Nat
  <2> HIDE DEF T
  <2> QED
    BY <1>7, <1>8, Induction, T \subseteq Nat DEF T
<1>10. Good(S)
  <2> HIDE DEF Good
  <2> QED
    BY <1>9, <1>4
<1> QED
  BY <1>2, <1>10

----------------------------------------------------------------------------
(* What the blocks and the electorate look like.                           *)
ChainInvariant ==
    /\ ShownInvariant
    /\ electorate \in Electorates
    /\ \A b \in 1 .. Now : chain[b].switch \in {"no", "before", "after"}
    /\ attested \subseteq 1 .. Now

LEMMA ChainStep ==
    ASSUME ChainInvariant, [GovernanceNext]_governanceVars
    PROVE  ChainInvariant'
<1>1. ShownInvariant'
  BY ChainGrows DEF ChainInvariant
<1>2. CASE UNCHANGED governanceVars
  BY <1>1, <1>2 DEF ChainInvariant, governanceVars, Now
<1>3. ASSUME NEW event, event.switch \in SwitchNow, Happens(event)
      PROVE  ChainInvariant'
  <2>1. event.switch \in {"no", "before", "after"}
    BY <1>3 DEF SwitchNow
  <2>2. /\ Now' = Now + 1 /\ Now \in Nat /\ chain'[Now + 1] = event
        /\ \A b \in 1 .. Now : chain'[b] = chain[b]
    <3> DEFINE T == {chain[b] : b \in 1 .. Now} \cup {event}
    <3>1. chain \in Seq(T) /\ event \in T
      BY DEF ChainInvariant, ShownInvariant
    <3>2. chain' = Append(chain, event)
      BY <1>3 DEF Happens
    <3> HIDE DEF T
    <3> QED
      BY <3>1, <3>2 DEF Now
  <2>3. electorate' = electorate
    BY <1>3 DEF Happens
  <2>4. \A b \in 1 .. Now' : chain'[b].switch \in {"no", "before", "after"}
    <3>1. \A b \in 1 .. Now' : b \in 1 .. Now \/ b = Now + 1
      BY <2>2
    <3> QED
      BY <2>1, <2>2, <3>1 DEF ChainInvariant
  <2>5. attested' \subseteq 1 .. Now'
    BY <1>3, <2>2 DEF Happens, ChainInvariant
  <2> QED
    BY <1>1, <2>3, <2>4, <2>5 DEF ChainInvariant
<1>4. ASSUME NEW p, Signal(p) PROVE ChainInvariant'
  BY <1>3, <1>4 DEF Signal
<1>5. ASSUME PassBlock PROVE ChainInvariant'
  BY <1>3, <1>5 DEF PassBlock
<1>6. ASSUME NEW p, NEW r, Submit(p, r) PROVE ChainInvariant'
  BY <1>3, <1>6 DEF Submit
<1>7. ASSUME NEW t \in Tables, Fill(t) PROVE ChainInvariant'
  BY <1>1, <1>7 DEF Fill, ChainInvariant, Now
<1>8. ASSUME chain' = chain, electorate' = electorate, attested' \subseteq 1 .. Now PROVE ChainInvariant'
  BY <1>1, <1>8 DEF ChainInvariant, Now
<1>9. ASSUME NEW b \in 1 .. Now, RecordSlot(b) PROVE ChainInvariant'
  BY <1>8, <1>9 DEF RecordSlot, ChainInvariant
<1>10. ASSUME NEW s, ChangeStatus(s) PROVE ChainInvariant'
  BY <1>8, <1>10 DEF ChangeStatus, ChainInvariant
<1> QED
  BY <1>2, <1>4, <1>5, <1>6, <1>7, <1>9, <1>10 DEF GovernanceNext

LEMMA ChainIsKept == GovernanceSpec => []ChainInvariant
<1>1. GovernanceInit => ShownInvariant
  BY DEF GovernanceInit, ShownInvariant, Now
<1>2. GovernanceInit => ChainInvariant
  BY <1>1 DEF GovernanceInit, ChainInvariant, Now
<1> QED
  BY <1>2, ChainStep, PTL DEF GovernanceSpec

(* A block is within the slots of its round.                               *)
LEMMA BlockInRound ==
    ASSUME NEW b \in Nat, NEW n \in Nat \ {0}
    PROVE  (b \div n) * n <= b /\ b <= (b \div n) * n + n - 1
  OBVIOUS

LEMMA MostAndLeast ==
    ASSUME NEW n \in Nat, NEW S, S \subseteq 0 .. n, S # {}
    PROVE  /\ Max(S) \in S /\ \A x \in S : x <= Max(S)
           /\ Min(S) \in S /\ \A x \in S : Min(S) <= x
<1>1. IsFiniteSet(0 .. n)
  BY FS_Interval
<1>2. S \subseteq Nat /\ IsFiniteSet(S)
  <2>1. S \subseteq Nat
    OBVIOUS
  <2> QED
    BY <1>1, <2>1, FS_Subset
<1>3. \E x \in S : \A y \in S : x >= y
  <2>1. \E x \in S : \A y \in S : y <= x
    BY <1>2, GreatestOfFinite, Zenon
  <2> QED
    BY <2>1, <1>2
<1>4. \E x \in S : \A y \in S : x <= y
  BY <1>2, LeastNumber, Zenon
<1>5. Max(S) \in S /\ \A y \in S : Max(S) >= y
  BY <1>3, Zenon DEF Max
<1>6. Min(S) \in S /\ \A y \in S : Min(S) <= y
  BY <1>4, Zenon DEF Min
<1> QED
  BY <1>2, <1>5, <1>6

(* When the registry knows every switch, a signal within the range of      *)
(* rollups that follow each other is in a slot of one of them, which the   *)
(* matrix has if it has all slots of the round.                            *)
LEMMA SignalsHaveSlots ==
    ASSUME ChainInvariant, SwitchesSeen,
           NEW selected \in Selections, FollowEachOther(selected),
           NEW r \in Rounds, Recorded(r, selected), NEW b \in VotesIn(r, RangeOf(selected))
    PROVE  b \in SlotsOf(Proposer(b), r, selected)
<1>1. /\ Now \in Nat /\ shown["votes"] \in 0 .. Now
      /\ RoundSize \in Nat \ {0}
  BY GovernanceAssumption DEF ChainInvariant, ShownInvariant, Now, Tables
<1>2. /\ b \in 1 .. Now /\ Is(b, "signal") /\ Round(b) = r
      /\ RangeOf(selected).start <= b /\ b < RangeOf(selected).end
  BY <1>1 DEF VotesIn, Select, Within, VoteRows, Filled
<1>4. /\ Switches \subseteq 0 .. Now /\ 0 \in Switches
      /\ b \in Nat /\ \A v \in Switches : v \in Nat
  BY <1>1, <1>2 DEF Switches
<1>3. InRound(b, r)
  <2>1. (b \div RoundSize) * RoundSize <= b /\ b <= (b \div RoundSize) * RoundSize + RoundSize - 1
    BY <1>1, <1>4, BlockInRound
  <2>2. b \div RoundSize = r
    BY <1>2 DEF Round
  <2> QED
    BY <2>1, <2>2 DEF InRound, StartSlot, EndSlot
<1>17. Known = Switches /\ \A v \in 1 .. Now : Is(v, "signal") => chain[v].switch # "after"
  BY DEF SwitchesSeen
<1>5. Ahead = {} /\ Rollups = Switches
  BY <1>4, <1>17, MostAndLeast, <1>1 DEF Ahead, Rollups
<1>6. selected \subseteq Switches /\ selected # {} /\ selected \subseteq 0 .. Now
  BY <1>4, <1>5 DEF Selections
<1>7. {StartOf(v) : v \in selected} = selected
  BY <1>6, <1>17 DEF StartOf
<1>8. Min(selected) \in selected /\ Min(selected) <= b /\ \A v \in selected : Min(selected) <= v
  BY <1>1, <1>2, <1>6, <1>7, MostAndLeast DEF RangeOf
<1>9. Max(selected) \in selected /\ \A v \in selected : v <= Max(selected)
  BY <1>1, <1>6, MostAndLeast
<1> DEFINE passed == {v \in Switches : v < b \/ (v = b /\ chain[b].switch = "before")}
           R == Max(passed)
<1>10. \A v \in Switches : v \in passed <=> v <= b
  <2>1. b \in Switches => chain[b].switch = "before"
    BY <1>1, <1>2, <1>4, <1>17 DEF Switches, ChainInvariant
  <2>2. ASSUME NEW v \in Switches PROVE v \in passed <=> v <= b
    <3>1. v \in Nat /\ b \in Nat
      BY <1>4
    <3> QED
      BY <2>1, <3>1
  <2> QED
    BY <2>2
<1>11. R \in Switches /\ R <= b /\ \A v \in Switches : v <= b => v <= R
  <2>1. passed \subseteq 0 .. Now /\ passed # {}
    <3>1. 0 \in passed /\ passed \subseteq Switches
      BY <1>4, <1>10
    <3> QED
      BY <3>1, <1>4
  <2> HIDE DEF passed
  <2>2. R \in passed /\ \A v \in passed : v <= R
    BY <2>1, <1>1, MostAndLeast
  <2> QED
    <3>1. R \in Switches
      BY <2>2 DEF passed
    <3> HIDE DEF R
    <3> QED
      BY <2>2, <3>1, <1>10
<1>12. RollupAt(b) = R
  BY DEF RollupAt
<1> HIDE DEF R, passed
<1>16. R \in Nat /\ Min(selected) \in Nat /\ Max(selected) \in Nat /\ \A v \in selected : v \in Nat
  BY <1>4, <1>6, <1>8, <1>9, <1>11
<1>13. Min(selected) <= R
  BY <1>6, <1>8, <1>11
<1>14. R <= Max(selected)
  <2>1. ASSUME Max(selected) < R PROVE FALSE
    <3> DEFINE ends == {EndOf(v) : v \in selected}
    <3>1. \A v \in selected : EndOf(v) \in Int /\ EndOf(v) <= R
      <4>1. ASSUME NEW v \in selected PROVE EndOf(v) \in Int /\ EndOf(v) <= R
        <5> DEFINE later == {c \in Known : c > v}
        <5>1. R \in later /\ later \subseteq 0 .. Now
          <6>1. R \in Known /\ R > v
            BY <1>9, <1>11, <1>16, <1>17, <2>1
          <6> QED
            BY <6>1, <1>4, <1>17
        <5>2. Min(later) \in later /\ Min(later) <= R
          BY <5>1, <1>1, MostAndLeast
        <5> QED
          BY <5>1, <5>2, <1>4 DEF EndOf
      <4> QED
        BY <4>1
    <3>2. ends \subseteq 0 .. Now /\ ends # {}
      <4>1. ASSUME NEW v \in selected PROVE EndOf(v) \in 0 .. Now
        <5> DEFINE later == {c \in Known : c > v}
        <5>1. R \in later /\ later \subseteq 0 .. Now
          <6>1. R \in Known /\ R > v
            BY <1>9, <1>11, <1>16, <1>17, <2>1
          <6> QED
            BY <6>1, <1>4, <1>17
        <5>2. Min(later) \in later
          BY <5>1, <1>1, MostAndLeast
        <5> QED
          BY <5>1, <5>2 DEF EndOf
      <4> QED
        BY <4>1, <1>6
    <3>3. Max(ends) \in ends
      BY <3>2, <1>1, MostAndLeast
    <3>4. RangeOf(selected).end = Max(ends)
      BY DEF RangeOf
    <3>5. Max(ends) <= R
      BY <3>1, <3>3
    <3> QED
      BY <3>2, <3>3, <3>4, <3>5, <1>2, <1>4, <1>11
  <2> QED
    BY <2>1, <1>16
<1>15. R \in selected
  <2>1. CASE R = Min(selected) \/ R = Max(selected)
    BY <2>1, <1>8, <1>9
  <2>2. CASE Min(selected) < R /\ R < Max(selected)
    BY <2>2, <1>5, <1>11 DEF FollowEachOther
  <2> QED
    BY <2>1, <2>2, <1>13, <1>14, <1>16
<1>18. b \in attested
  BY <1>2, <1>12, <1>15 DEF Recorded
<1> QED
  BY <1>2, <1>3, <1>12, <1>15, <1>18 DEF SlotsOf

LEMMA ElectorateIsFinite ==
    ASSUME ChainInvariant
    PROVE  /\ IsFiniteSet(AllSequencers) /\ IsFiniteSet(AllProviders)
           /\ \A q : IsFiniteSet(MembersOf(q)) /\ MembersOf(q) \subseteq AllSequencers
           /\ \A b \in 1 .. Now : Proposer(b) \in AllSequencers
           /\ \A s \in AllSequencers : ProvidersOf(s) \subseteq AllProviders
           /\ \A s \in active : ProvidersOf(s) # {}
<1>1. /\ Len(Sequencers) \in Nat \ {0} /\ DOMAIN Sequencers = 1 .. Len(Sequencers)
  BY GovernanceAssumption
<1>2. IsFiniteSet(AllSequencers)
  <2>1. IsFiniteSet(DOMAIN Sequencers)
    BY <1>1, FS_Interval
  <2> QED
    BY <2>1, ImageIsFinite DEF AllSequencers
<1>3. \A s \in AllSequencers : IsFiniteSet(ProvidersOf(s))
  BY GovernanceAssumption, FS_Singleton, FS_EmptySet DEF ChainInvariant, ProvidersOf
<1>8. \A s \in active : ProvidersOf(s) # {}
  BY DEF ProvidersOf
<1>4. IsFiniteSet(AllProviders)
  <2> DEFINE f == [s \in AllSequencers |-> ProvidersOf(s)]
             sets == {ProvidersOf(s) : s \in AllSequencers}
  <2>1. sets \subseteq {f[s] : s \in AllSequencers} /\ \A T \in sets : IsFiniteSet(T)
    BY <1>3
  <2> HIDE DEF f, sets
  <2>2. IsFiniteSet(sets)
    BY <1>2, <2>1, ImageIsFinite
  <2>3. IsFiniteSet(UNION sets)
    BY <2>1, <2>2, FS_UNION
  <2> QED
    BY <2>3 DEF AllProviders, sets
<1>5. \A q : IsFiniteSet(MembersOf(q)) /\ MembersOf(q) \subseteq AllSequencers
  <2>1. \A q : MembersOf(q) \in SUBSET AllSequencers
    BY DEF MembersOf
  <2> QED
    BY <1>2, <2>1, FS_Subset
<1>6. ASSUME NEW b \in 1 .. Now PROVE Proposer(b) \in AllSequencers
  <2>1. b \in Nat
    BY DEF ChainInvariant, ShownInvariant, Now
  <2>2. (b % Len(Sequencers)) + 1 \in 1 .. Len(Sequencers)
    BY <1>1, <2>1
  <2> QED
    BY <1>1, <2>2 DEF Proposer, AllSequencers
<1>7. \A s \in AllSequencers : ProvidersOf(s) \subseteq AllProviders
  BY DEF AllProviders
<1> QED
  BY <1>2, <1>4, <1>5, <1>6, <1>7, <1>8

(* What a provider is shown to have is the number of recorded slots of the *)
(* sequencers in its list, and of the signals of those who have one.       *)
SlotsSeen(q, r, selected) ==
    {b \in attested : /\ Proposer(b) \in MembersOf(q)
                      /\ InRound(b, r) /\ RollupAt(b) \in selected}
SignalsSeen(q, r, selected) ==
    {b \in VotesIn(r, RangeOf(selected)) : /\ Proposer(b) \in MembersOf(q)
                                           /\ SlotsOf(Proposer(b), r, selected) # {}}

LEMMA SharesOf ==
    ASSUME ChainInvariant, NEW q, NEW r, NEW selected
    PROVE  /\ IsFiniteSet(SlotsSeen(q, r, selected)) /\ IsFiniteSet(SignalsSeen(q, r, selected))
           /\ ProposerSlots(q, r, selected) = Cardinality(SlotsSeen(q, r, selected))
           /\ TotalSignals(q, r, selected) = Cardinality(SignalsSeen(q, r, selected))
<1> DEFINE M == MembersOf(q)
           votes == VotesIn(r, RangeOf(selected))
           slots == {b \in attested : Proposer(b) \in M /\ InRound(b, r) /\ RollupAt(b) \in selected}
           signals == {b \in votes : Proposer(b) \in M /\ SlotsOf(Proposer(b), r, selected) # {}}
           slotsOf == [s \in M |-> SlotsOf(s, r, selected)]
           seen == {s \in M : SlotsOf(s, r, selected) # {}}
           signalsOf == [s \in seen |-> SignalsOf(s, r, RangeOf(selected))]
<1>1. /\ IsFiniteSet(1 .. Now) /\ attested \subseteq 1 .. Now
      /\ votes \subseteq 1 .. Now
  <2>1. Now \in Nat /\ shown["votes"] \in 0 .. Now
    BY DEF ChainInvariant, ShownInvariant, Now, Tables
  <2>2. votes \subseteq 1 .. Now
    BY <2>1 DEF VotesIn, Select, VoteRows, Filled
  <2>3. IsFiniteSet(1 .. Now)
    BY <2>1, FS_Interval
  <2> QED
    BY <2>2, <2>3 DEF ChainInvariant
<1>2. IsFiniteSet(M)
  BY ElectorateIsFinite
<1>3. slots \subseteq 1 .. Now /\ signals \subseteq 1 .. Now
  BY <1>1
<1>4. \A S \in SUBSET (1 .. Now) : IsFiniteSet(S) /\ Cardinality(S) \in Nat
  BY <1>1, FS_Subset, FS_CardinalityType
<1>5. ProposerSlots(q, r, selected) = Cardinality(slots)
  <2> DEFINE size == [s \in M |-> Cardinality(slotsOf[s])]
  <2>1. \A s \in M : slotsOf[s] = SlotsOf(s, r, selected) /\ slotsOf[s] \in SUBSET (1 .. Now)
    BY <1>1 DEF SlotsOf
  <2>2. \A s, x \in M : s # x => slotsOf[s] \cap slotsOf[x] = {}
    BY DEF SlotsOf
  <2>3. UNION {slotsOf[s] : s \in M} = slots
    BY <2>1 DEF SlotsOf
  <2>4. size = [s \in M |-> Cardinality(SlotsOf(s, r, selected))]
    BY <2>1
  <2>5. \A s \in M : IsFiniteSet(slotsOf[s])
    BY <1>4, <2>1
  <2>6. SumFunction(size) = Cardinality(UNION {slotsOf[s] : s \in M})
    <3> HIDE DEF M, slotsOf
    <3> QED
      BY <1>2, <2>2, <2>5, SumOfSizes
  <2> QED
    BY <2>3, <2>4, <2>6 DEF ProposerSlots
<1>6. TotalSignals(q, r, selected) = Cardinality(signals)
  <2> DEFINE size == [s \in seen |-> Cardinality(signalsOf[s])]
  <2>1. \A s \in seen : signalsOf[s] = SignalsOf(s, r, RangeOf(selected)) /\ signalsOf[s] \in SUBSET (1 .. Now)
    BY <1>1 DEF SignalsOf
  <2>2. \A s, x \in seen : s # x => signalsOf[s] \cap signalsOf[x] = {}
    BY DEF SignalsOf
  <2>3. UNION {signalsOf[s] : s \in seen} = signals
    <3>1. ASSUME NEW b \in signals PROVE b \in UNION {signalsOf[s] : s \in seen}
      <4>1. Proposer(b) \in seen /\ b \in SignalsOf(Proposer(b), r, RangeOf(selected))
        BY DEF SignalsOf
      <4> QED
        BY <2>1, <4>1
    <3>2. ASSUME NEW s \in seen, NEW b \in signalsOf[s] PROVE b \in signals
      BY <2>1, <3>2 DEF SignalsOf
    <3> QED
      BY <3>1, <3>2
  <2>4. size = [s \in seen |-> Cardinality(SignalsOf(s, r, RangeOf(selected)))]
    BY <2>1
  <2>5. \A s \in seen : IsFiniteSet(signalsOf[s])
    BY <1>4, <2>1
  <2>6. IsFiniteSet(seen)
    BY <1>2, FS_Subset, seen \in SUBSET M
  <2>7. SumFunction(size) = Cardinality(UNION {signalsOf[s] : s \in seen})
    <3> HIDE DEF seen, signalsOf
    <3> QED
      BY <2>2, <2>5, <2>6, SumOfSizes
  <2> QED
    BY <2>3, <2>4, <2>7 DEF TotalSignals
<1> QED
  BY <1>3, <1>4, <1>5, <1>6 DEF SlotsSeen, SignalsSeen

(* Nothing is counted that is not a signal of the range; and when all slots *)
(* are recorded, no provider has more signals than slots, and none of the  *)
(* signals of active sequencers is missing.                                *)
THEOREM SharesAddUp == GovernanceSpec => []ProvidersAddUp
<1>1. ASSUME ChainInvariant, NEW selected \in Selections, NEW r \in Rounds
      PROVE  LET votes == VotesIn(r, RangeOf(selected))
                 shares == SumFunction([q \in AllProviders |-> TotalSignals(q, r, selected)])
             IN  /\ OneListEach => shares <= Cardinality(votes)
                 /\ SwitchesSeen /\ FollowEachOther(selected) /\ Recorded(r, selected) =>
                     /\ \A q \in AllProviders : TotalSignals(q, r, selected) <= ProposerSlots(q, r, selected)
                     /\ {Proposer(b) : b \in votes} \subseteq active => shares >= Cardinality(votes)
  <2> DEFINE votes == VotesIn(r, RangeOf(selected))
             part == [q \in AllProviders |-> SignalsSeen(q, r, selected)]
             size == [q \in AllProviders |-> Cardinality(part[q])]
             all == UNION {part[q] : q \in AllProviders}
             complete == SwitchesSeen /\ FollowEachOther(selected) /\ Recorded(r, selected)
             listed == {Proposer(b) : b \in votes} \subseteq active
  <2>1. complete => \A b \in votes : b \in SlotsOf(Proposer(b), r, selected)
    BY <1>1, SignalsHaveSlots
  <2>2. votes \subseteq 1 .. Now /\ IsFiniteSet(votes)
    <3>1. Now \in Nat /\ shown["votes"] \in 0 .. Now
      BY <1>1 DEF ChainInvariant, ShownInvariant, Now, Tables
    <3>2. votes \in SUBSET (1 .. Now)
      BY <3>1 DEF VotesIn, Select, VoteRows, Filled
    <3>3. IsFiniteSet(1 .. Now)
      BY <3>1, FS_Interval
    <3> HIDE DEF votes
    <3> QED
      BY <3>2, <3>3, FS_Subset
  <2>3. ASSUME NEW q \in AllProviders
        PROVE  /\ IsFiniteSet(part[q]) /\ TotalSignals(q, r, selected) = Cardinality(part[q])
               /\ complete => TotalSignals(q, r, selected) <= ProposerSlots(q, r, selected)
    <3> DEFINE slots == SlotsSeen(q, r, selected)
               signals == SignalsSeen(q, r, selected)
    <3>1. /\ IsFiniteSet(slots) /\ IsFiniteSet(signals)
          /\ ProposerSlots(q, r, selected) = Cardinality(slots)
          /\ TotalSignals(q, r, selected) = Cardinality(signals)
      BY <1>1, SharesOf
    <3>2. part[q] = signals
      OBVIOUS
    <3>3. complete => signals \in SUBSET slots
      BY <2>1 DEF SlotsOf, SlotsSeen, SignalsSeen
    <3> HIDE DEF slots, signals, complete
    <3>4. complete => Cardinality(signals) <= Cardinality(slots)
      BY <3>1, <3>3, FS_Subset
    <3> QED
      BY <3>1, <3>2, <3>4
  <2>4. all \in SUBSET votes /\ (complete /\ listed => all = votes)
    <3>1. ASSUME complete, listed, NEW b \in votes PROVE \E q \in AllProviders : b \in part[q]
      <4>1. Proposer(b) \in active /\ Proposer(b) \in AllSequencers
        BY <1>1, <2>2, <3>1, ElectorateIsFinite
      <4>2. PICK q \in ProvidersOf(Proposer(b)) : q \in AllProviders
        BY <1>1, <4>1, ElectorateIsFinite
      <4>3. Proposer(b) \in MembersOf(q)
        BY <4>1, <4>2 DEF MembersOf
      <4>4. SlotsOf(Proposer(b), r, selected) # {}
        BY <2>1, <3>1
      <4> QED
        BY <3>1, <4>2, <4>3, <4>4 DEF SignalsSeen
    <3>2. \A q \in AllProviders : part[q] \subseteq votes
      BY DEF SignalsSeen
    <3> HIDE DEF part, votes, complete, listed
    <3> QED
      BY <3>1, <3>2
  <2>5. ASSUME OneListEach, NEW q \in AllProviders, NEW x \in AllProviders, q # x
        PROVE  part[q] \cap part[x] = {}
    <3>1. ASSUME NEW b \in part[q] \cap part[x] PROVE FALSE
      <4>1. Proposer(b) \in AllSequencers /\ {q, x} \subseteq ProvidersOf(Proposer(b))
        BY <3>1 DEF SignalsSeen, MembersOf
      <4> QED
        BY <2>5, <4>1 DEF OneListEach
    <3> QED
      BY <3>1
  <2>6. size = [q \in AllProviders |-> TotalSignals(q, r, selected)]
    BY <2>3
  <2>7. IsFiniteSet(AllProviders)
    BY <1>1, ElectorateIsFinite
  <2> HIDE DEF part, votes, complete, listed
  <2>8. /\ SumFunction(size) >= Cardinality(all)
        /\ OneListEach => SumFunction(size) = Cardinality(all)
    <3>1. \A q \in AllProviders : IsFiniteSet(part[q])
      BY <2>3
    <3>2. /\ SumFunction(size) >= Cardinality(UNION {part[q] : q \in AllProviders})
          /\ (\A q, x \in AllProviders : q # x => part[q] \cap part[x] = {}) =>
               SumFunction(size) = Cardinality(UNION {part[q] : q \in AllProviders})
      BY <2>7, <3>1, SumOfSizes
    <3> QED
      BY <2>5, <3>2
  <2>9. Cardinality(all) \in Nat /\ Cardinality(votes) \in Nat /\ Cardinality(all) <= Cardinality(votes)
    <3> HIDE DEF all
    <3> QED
      BY <2>2, <2>4, FS_Subset, FS_CardinalityType
  <2>10. OneListEach => SumFunction(size) <= Cardinality(votes)
    BY <2>8, <2>9
  <2>11. complete /\ listed => SumFunction(size) >= Cardinality(votes)
    BY <2>4, <2>8
  <2> QED
    BY <2>3, <2>6, <2>10, <2>11 DEF votes, complete, listed
<1>2. ChainInvariant => ProvidersAddUp
  BY <1>1 DEF ProvidersAddUp
<1> QED
  BY <1>2, ChainIsKept, PTL

=============================================================================
