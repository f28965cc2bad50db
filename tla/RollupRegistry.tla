----------------------------- MODULE RollupRegistry -----------------------------
(***************************************************************************)
(* getRollupRegistry of the web application (services/rollupRegistry.ts):  *)
(* the list of rollups, read from the table that the materializer fills    *)
(* and kept for a minute.  A request that finds the list too old reads the *)
(* table itself, and several may do so at once.                            *)
(*                                                                         *)
(* Rollups are numbered in the order in which they became canonical, and   *)
(* the table is how many of them it shows.  Instants are ages, as in       *)
(* RateLimiter.                                                            *)
(***************************************************************************)
EXTENDS Integers, FiniteSets

CONSTANTS
    Goals,       \* how many rollups there will be, in a behaviour; 0: no requests
    Loads,       \* bound: requests that read the table at once
    Ttl,         \* CACHE_TTL_MS, in ticks
    MaxLosses    \* bound: times the table loses rows

ASSUME RegistryAssumption ==
    /\ Goals \subseteq Nat /\ Ttl \in Nat \ {0} /\ MaxLosses \in Nat

VARIABLES
    goal,        \* rollups of this behaviour
    canonical,   \* rollups that have become canonical
    table,       \* how many CanonicalRollupUpdated shows
    configured,  \* ROLLUP_CONTRACT_ADDRESS of this process
    entry,       \* cachedRegistry and cacheTimestamp
    loading,     \* the requests that are reading
    served,      \* the last response, within this tick
    losses

registryVars == <<goal, canonical, table, configured, entry, loading, served, losses>>
storeVars == <<goal, canonical, table, losses>>

NoEntry == [active |-> 0]
NotLoading == [stage |-> "none"]
NotServed == [cached |-> FALSE]

RegistryInit ==
    /\ goal \in Goals
    /\ canonical = IF goal = 0 THEN 0 ELSE 1
    /\ table = 0
    /\ configured = canonical
    /\ entry = NoEntry
    /\ loading = [l \in Loads |-> NotLoading]
    /\ served = NotServed
    /\ losses = 0

----------------------------------------------------------------------------
BecomesCanonical ==
    /\ canonical < goal
    /\ canonical' = canonical + 1
    /\ UNCHANGED <<goal, table, configured, entry, loading, served, losses>>

TableGains ==
    /\ table < canonical
    /\ table' = table + 1
    /\ UNCHANGED <<goal, canonical, configured, entry, loading, served, losses>>

TableLoses ==
    /\ losses < MaxLosses
    /\ \E n \in 0 .. (table - 1) : table' = n
    /\ losses' = losses + 1
    /\ UNCHANGED <<goal, canonical, configured, entry, loading, served>>

(* A deploy configures a rollup that is canonical by then, and restarts.   *)
RegistryRestart(rollup) ==
    /\ rollup \in configured .. canonical
    /\ configured' = rollup
    /\ entry' = NoEntry
    /\ loading' = [l \in Loads |-> NotLoading]
    /\ served' = NotServed
    /\ UNCHANGED storeVars

----------------------------------------------------------------------------
(* A configured rollup the table does not show is newer than all it shows. *)
(* Mutant: the last one of the table, if there is one.                     *)
LastShown(shown) == IF shown = 0 THEN configured ELSE shown
ActiveOf(shown) == IF configured > shown THEN configured ELSE shown

Older(age) == IF age > Ttl THEN age ELSE age + 1
Fresh == entry # NoEntry /\ entry.stamped < Ttl

Respond(cached, list) ==
    served' = [cached |-> cached, active |-> list.active, read |-> list.read]

Hit ==
    /\ goal > 0 /\ Fresh
    /\ Respond(TRUE, entry)
    /\ UNCHANGED <<storeVars, configured, entry, loading>>

(* now is taken before the query.                                          *)
BeginLoad(l) ==
    /\ goal > 0 /\ ~Fresh
    /\ loading[l] = NotLoading
    /\ loading' = [loading EXCEPT ![l] = [stage |-> "asked", begun |-> 0]]
    /\ UNCHANGED <<storeVars, configured, entry, served>>

ReadTable(l) ==
    /\ loading[l].stage = "asked"
    /\ loading' = [loading EXCEPT ![l] =
         [stage |-> "read", begun |-> @.begun, active |-> ActiveOf(table), read |-> 0]]
    /\ UNCHANGED <<storeVars, configured, entry, served>>

(* cacheTimestamp = now.  Mutant: the time of the assignment.              *)
StampLate(load) == [active |-> load.active, read |-> load.read, stamped |-> 0]
Stamp(load) == [active |-> load.active, read |-> load.read, stamped |-> load.begun]

FinishLoad(l) ==
    /\ loading[l].stage = "read"
    /\ entry' = Stamp(loading[l])
    /\ loading' = [loading EXCEPT ![l] = NotLoading]
    /\ Respond(FALSE, loading[l])
    /\ UNCHANGED <<storeVars, configured>>

(* The query throws, and the request with it.                              *)
LoadFails(l) ==
    /\ loading[l].stage = "asked"
    /\ loading' = [loading EXCEPT ![l] = NotLoading]
    /\ UNCHANGED <<storeVars, configured, entry, served>>

RegistryTick ==
    /\ entry' = IF entry = NoEntry THEN entry
                ELSE [entry EXCEPT !.read = Older(@), !.stamped = Older(@)]
    /\ loading' = [l \in Loads |->
         CASE loading[l].stage = "none" -> NotLoading
           [] loading[l].stage = "asked" -> [loading[l] EXCEPT !.begun = Older(@)]
           [] OTHER -> [loading[l] EXCEPT !.begun = Older(@), !.read = Older(@)]]
    /\ served' = NotServed
    /\ UNCHANGED <<storeVars, configured>>

RegistryStep ==
    \/ BecomesCanonical \/ TableGains \/ TableLoses
    \/ Hit
    \/ \E l \in Loads : BeginLoad(l) \/ ReadTable(l) \/ FinishLoad(l) \/ LoadFails(l)

RegistryNext ==
    \/ RegistryStep
    \/ RegistryTick
    \/ \E rollup \in 0 .. canonical : RegistryRestart(rollup)

RegistrySpec == RegistryInit /\ [][RegistryNext]_registryVars

----------------------------------------------------------------------------
(* A response from the cache shows the table as it was less than Ttl ago,  *)
(* however long the request that filled it took and whichever of several   *)
(* finished last.                                                          *)
FreshWhenServed == served.cached => served.read < Ttl

(* No response goes back behind the rollup that the process was deployed   *)
(* for, while the table lags behind it or loses rows again.                *)
NotBehindDeploy == served # NotServed => served.active \in configured .. canonical

=============================================================================
