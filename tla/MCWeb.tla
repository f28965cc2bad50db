---------------------------------- MODULE MCWeb ----------------------------------
(* The run of the web application's four modules: they share the process,  *)
(* and a behaviour is about requests to one of them.                       *)
EXTENDS RateLimiter, RollupRegistry, SocialLinks, GovernanceViews

WebClients == {"queue", "other"}
WebLimit == [k \in WebClients |-> IF k = "queue" THEN 2 ELSE 1]
WebClientSets == {WebClients, {}}

(* Cases of SocialLinks.                                                   *)
WebValidators == {"v1", "v2"}
FlowOf(b, provider, v) == [browser |-> b, of |-> provider, validator |-> v]
NoSource == [v \in {} |-> NoProfile]

SocialCase(flows, registered, owners, older, slow, faults) ==
    [flows |-> flows, registered |-> registered, owners |-> owners, older |-> older,
     slow |-> slow, faults |-> faults]
NoFlows == [f \in {} |-> FlowOf(1, "x", "v1")]

(* One owner in two browsers, who unlinks and renames.                     *)
OneOwner ==
    SocialCase([f1 |-> FlowOf(1, "x", "v1"), f2 |-> FlowOf(2, "x", "v1")],
               {"v1"}, {"v1"}, NoSource, FALSE, 0)
(* Two validators and both providers in one browser.                       *)
OneBrowser ==
    SocialCase([f1 |-> FlowOf(1, "x", "v1"), f2 |-> FlowOf(1, "discord", "v2"),
                f3 |-> FlowOf(1, "discord", "v1")],
               WebValidators, {}, NoSource, FALSE, 0)
(* Both providers for one validator, each in a browser of its own.         *)
BothProviders ==
    SocialCase([f1 |-> FlowOf(1, "x", "v1"), f2 |-> FlowOf(2, "discord", "v1")],
               {"v1"}, {}, NoSource, FALSE, 0)
(* Two owners, who take their time.                                        *)
TwoOwners ==
    SocialCase([f1 |-> FlowOf(1, "x", "v1"), f2 |-> FlowOf(2, "x", "v2")],
               WebValidators, {}, NoSource, TRUE, 0)

(* Two of whom the older database knows one account each.                  *)
OlderX == [c \in Columns |-> IF c = "image" THEN Nothing ELSE Source]
TwoMigrated ==
    SocialCase(NoFlows, WebValidators, {},
               [v1 |-> OlderX, v2 |-> [NoProfile EXCEPT !.discord = Source]], FALSE, 2)
(* One links and unlinks an account while another is migrated for it.      *)
LinksMeanwhile ==
    SocialCase([f1 |-> FlowOf(1, "x", "v1")], {"v1"}, {"v1"}, [v1 |-> OlderX], FALSE, 1)

NoSocial == SocialCase(NoFlows, {}, {}, NoSource, FALSE, 0)
WebSocialCases ==
    {OneOwner, OneBrowser, BothProviders, TwoOwners, TwoMigrated, LinksMeanwhile, NoSocial}

(* Cases of GovernanceViews.                                               *)
(* The blocks 2 and 3 of a round are of one sequencer, 4 and 5 of two.     *)
WebSequencers == <<"q1", "q2", "q1">>
Electorate(payloads, blocks, switches, providers, follows, leave, missing) ==
    [payloads |-> payloads, blocks |-> blocks, switches |-> switches, lag |-> 1,
     providers |-> providers, follows |-> follows, leave |-> leave, missing |-> missing]
OneProvider == [q1 |-> {"a"}, q2 |-> {}]
TwoProviders == [q1 |-> {"a", "b"}, q2 |-> {"b"}]

NoVoters == Electorate({}, 0, 0, OneProvider, FALSE, {}, 0)
WebElectorates ==
    {NoVoters,
     Electorate({"p1"}, 4, 1, OneProvider, TRUE, {}, 0),
     Electorate({"p1", "p2"}, 3, 1, TwoProviders, FALSE, {}, 0),
     Electorate({"p1"}, 5, 0, TwoProviders, FALSE, {}, 0),
     Electorate({"p1"}, 3, 2, OneProvider, TRUE, {}, 0),
     Electorate({"p1"}, 3, 1, OneProvider, FALSE, {"q1"}, 2)}

webVars == <<rateVars, registryVars, socialVars, governanceVars>>

Tick == RateTick /\ RegistryTick /\ UNCHANGED <<socialVars, governanceVars>>
RestartWeb ==
    /\ RateRestart
    /\ \E rollup \in 0 .. canonical : RegistryRestart(rollup)
    /\ UNCHANGED <<socialVars, governanceVars>>
Asks(k) == Ask(k) /\ UNCHANGED <<registryVars, socialVars, governanceVars>>

WebInit ==
    /\ RateInit /\ RegistryInit /\ SocialInit /\ GovernanceInit
    /\ \/ asking # {} /\ goal = 0 /\ social = NoSocial /\ electorate = NoVoters
       \/ asking = {} /\ goal # 0 /\ social = NoSocial /\ electorate = NoVoters
       \/ asking = {} /\ goal = 0 /\ social # NoSocial /\ electorate = NoVoters
       \/ asking = {} /\ goal = 0 /\ social = NoSocial /\ electorate # NoVoters

WebNext ==
    \/ \E k \in Clients : Asks(k)
    \/ RegistryStep /\ UNCHANGED <<rateVars, socialVars, governanceVars>>
    \/ SocialNext /\ UNCHANGED <<rateVars, registryVars, governanceVars>>
    \/ GovernanceNext /\ UNCHANGED <<rateVars, registryVars, socialVars>>
    \/ Tick
    \/ RestartWeb

(* Time passes, clients keep asking, and the collector's timer goes on.    *)
WebFairness == WF_webVars(Tick) /\ (\A k \in Clients : WF_webVars(Asks(k))) /\ SocialFairness
WebSpec == WebInit /\ [][WebNext]_webVars /\ WebFairness
=============================================================================
