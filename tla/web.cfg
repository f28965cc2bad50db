SPECIFICATION WebSpec
CONSTANTS
    Clients <- WebClients
    ClientSets <- WebClientSets
    Limit <- WebLimit
    Window = 2
    Goals = {0, 2}
    Loads = {1, 2}
    Ttl = 2
    MaxLosses = 1
    SocialCases <- WebSocialCases
    Validators <- WebValidators
    Sequencers <- WebSequencers
    RoundSize = 2
    Quorum = 1
    Lifetime = 1
    Electorates <- WebElectorates
INVARIANTS RatesKept FreshWhenServed NotBehindDeploy LinksOwn FlowsIsolated
INVARIANTS ViewsAgree ProvidersAddUp
PROPERTIES EveryClientServed LinkKept EventuallyMigratedSocial StatusGoesOn
