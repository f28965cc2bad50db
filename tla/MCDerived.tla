-------------------------------- MODULE MCDerived --------------------------------
(* The run of the derived tables: RollupMembership and DerivedTables share *)
(* no state, and a behaviour is about a case of one of them.               *)
EXTENDS RollupMembership, DerivedTables

(* Cases of RollupMembership.                                              *)
Deposits(a, r) == [kind |-> "deposit", who |-> a, rollup |-> r, moves |-> FALSE]
DepositsAtGse(a, r, moves) == [kind |-> "gse", who |-> a, rollup |-> r, moves |-> moves]
Canonical(r) == [kind |-> "canonical", who |-> 1, rollup |-> r, moves |-> FALSE]
Withdraws(k, a, r) == [kind |-> k, who |-> a, rollup |-> r, moves |-> FALSE]

(* Two validators that may migrate, while calls fail.                      *)
TwoMigrate ==
    [chains |-> {<<Deposits(1, "V1"), DepositsAtGse(2, "V1", FALSE), Canonical("V2")>>},
     collector |-> FALSE, faults |-> 2, resets |-> 0]
(* One withdraws and comes back to where it is taken to have migrated to.  *)
ComesBack ==
    [chains |-> {<<Deposits(1, "V1"), Canonical("V2"), Withdraws("initiated", 1, "V1"),
                   Withdraws("finalized", 1, "V1"), Deposits(1, "V2")>>},
     collector |-> FALSE, faults |-> 0, resets |-> 0]
(* The chain of one is reorganised.                                        *)
TwoForks ==
    [chains |-> {<<Deposits(1, "V1"), Canonical("V3"), Canonical("V2")>>,
                 <<Deposits(1, "V1"), Canonical("V2"), Withdraws("initiated", 1, "V1")>>},
     collector |-> FALSE, faults |-> 1, resets |-> 2]
(* The collector looks for one on each rollup.                             *)
Collected ==
    [chains |-> {<<DepositsAtGse(1, "V1", TRUE), Canonical("V3")>>,
                 <<Canonical("V3"), Deposits(1, "V1")>>},
     collector |-> TRUE, faults |-> 1, resets |-> 0]
NoMember == [chains |-> {<<>>}, collector |-> FALSE, faults |-> 0, resets |-> 0]
MemberCases == {TwoMigrate, ComesBack, TwoForks, Collected, NoMember}

(* Cases of DerivedTables; the values of the events differ.                *)
Happens(handler, subject, value) ==
    [kind |-> handler.kind, subject |-> subject, value |-> value, more |-> FALSE]
Case(table, chains, f, o, w) ==
    [table |-> table, chains |-> chains, faults |-> f, reorgs |-> o, rewinds |-> w]

(* The tables of one event: three events, the last two replaced.           *)
EventCase(table) ==
    LET e(value) == Happens(table.sources[1], 1, value)
    IN  Case(table, {<<e(1), e(2), e(3)>>, <<e(1), e(4)>>}, 1, 1, 1)

(* Rounds with their committees and slashes: one replaced, two of which    *)
(* one is replaced, and two that a re-index may find more or less of.      *)
RoundCases ==
    LET round(value) == Happens(RoundExecuted, 1, value)
    IN  {Case(TallyRoundExecutedTable, {<<round(1)>>, <<round(2)>>}, 1, 1, 1),
         Case(TallyRoundExecutedTable, {<<round(1), round(2)>>, <<round(1), round(3)>>}, 1, 1, 0),
         Case(TallyRoundExecutedTable, {<<round(1), round(2)>>}, 1, 0, 1)}

SlashCase ==
    LET round(value) == Happens(RoundExecuted, 1, value)
        slash(value) == Happens(Slashed, 1, value)
    IN  Case(SlashSlashedTable, {<<round(1), slash(2), slash(3)>>, <<round(1), round(4), slash(5)>>},
             1, 1, 1)

StakeCase ==
    Case(StakeHistory, {<<Happens(Deposit, 1, 1), Happens(GseDeposit, 2, 2), Happens(Slashed, 1, 3),
                          Happens(WithdrawFinalized, 2, 4)>>}, 0, 1, 1)

(* A provider with updates while another one registers.                    *)
ProviderCase ==
    Case(ProviderTable, {<<Happens(ProviderRegistered, 1, 1), Happens(ProviderTakeRateUpdated, 1, 2),
                           Happens(ProviderRewardsRecipientUpdated, 1, 3),
                           Happens(ProviderRegistered, 2, 4), Happens(ProviderAdminUpdated, 1, 5)>>},
         1, 0, 1)

(* Of the last log of one chain, two attesters are added.                  *)
ListCase ==
    LET add(who, value) == Happens(AttestersAddedToProvider, who, value)
        drip(who, value) == Happens(ProviderQueueDripped, who, value)
        also(who, value) == [add(who, value) EXCEPT !.more = TRUE]
    IN  Case(ProviderValidatorList, {<<add(1, 1), drip(1, 2), add(1, 3), also(2, 4)>>,
                                     <<add(1, 1), drip(1, 2), add(2, 5)>>}, 1, 1, 1)

NoTable == Case(DepositLifecycle, {<<>>}, 0, 0, 0)
EventTables ==
    {t \in Catalogue : Len(t.sources) = 1} \ {SlashSlashedTable, TallyRoundExecutedTable}
AllTables ==
    {EventCase(t) : t \in EventTables} \cup RoundCases
        \cup {SlashCase, StakeCase, ProviderCase, ListCase, NoTable}

(* Both modules keep their types, and no row is there twice.               *)
DerivedTypeOK == MembershipTypeOK /\ TablesTypeOK

DerivedInit == MembershipInit /\ TablesInit /\ (limits = NoMember) # (case = NoTable)
DerivedNext ==
    \/ MembershipNext /\ UNCHANGED tableVars
    \/ TablesNext /\ UNCHANGED memberVars
DerivedSpec ==
    DerivedInit /\ [][DerivedNext]_<<memberVars, tableVars>> /\ MembershipFairness /\ TablesFairness
=============================================================================
