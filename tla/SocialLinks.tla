------------------------------ MODULE SocialLinks ------------------------------
(***************************************************************************)
(* Social accounts of validators.  An owner signs a challenge, is sent to  *)
(* X or Discord, and comes back to a callback that writes the account to   *)
(* the Validator row (apps/web/src/app/api/auth, services/auth); all that  *)
(* a browser remembers of a flow is one cookie.  Both providers' flows ask *)
(* for a challenge, of the same route; only X's callback looks at it, and  *)
(* Discord's never sees the signature.  ValidatorMigrationCollector copies *)
(* accounts from an older database into the same rows.                     *)
(*                                                                         *)
(* An account is named by the flow that brings it, or "source".  A row     *)
(* stands for handle and user id by x, and for the three Discord columns   *)
(* by discord, which are always written together.                          *)
(***************************************************************************)
EXTENDS Integers, FiniteSets

CONSTANTS
    SocialCases,  \* the validators there are, flows, those whose owners unlink and
                  \* rename, what the older database has; and as bounds, may a
                  \* challenge grow old, and the failed calls of the migration
    Validators

Nothing == "nothing"
Source == "source"
Custom == "custom"
Columns == {"x", "image", "discord", "name"}
NoProfile == [c \in Columns |-> Nothing]

ASSUME SocialAssumption ==
    \A case \in SocialCases :
        /\ \A f \in DOMAIN case.flows :
            /\ f \notin Validators \cup {Nothing, Source, Custom}
            /\ case.flows[f] \in [browser : Nat, of : {"x", "discord"}, validator : Validators]
        /\ case.registered \subseteq Validators /\ case.owners \subseteq case.registered
        /\ DOMAIN case.older \subseteq Validators
        /\ case.slow \in BOOLEAN /\ case.faults \in Nat
        /\ \A v \in DOMAIN case.older :
            /\ case.older[v] \in [Columns -> {Nothing, Source}]
            \* updateValidatorProfile, which linked the account there too, names the row
            /\ case.older[v].x # Nothing => case.older[v].name # Nothing

VARIABLES
    social,      \* the case
    profiles,    \* the social columns of the Validator rows
    challenges,  \* AuthChallenge rows, one per validator
    session,     \* the session cookie of each browser: the flow it was saved by
    flow,        \* how far each flow is
    unlinking,   \* how far the unlinking of X is, by validator
    tracked,     \* validators with a ValidatorMigration row
    migrating,   \* how far the migration of each validator is
    before,      \* the X account that a callback or migration found on its arrival
    swallowed,   \* validators whose migration met an error that was only logged
    socialFaults

rowVars == <<profiles, challenges, session>>
migrationVars == <<tracked, migrating, swallowed>>
socialVars == <<social, rowVars, flow, unlinking, migrationVars, before, socialFaults>>

Flows == DOMAIN social.flows
IsX(f) == social.flows[f].of = "x"
Of(f) == social.flows[f].validator
Browser(f) == social.flows[f].browser
Browsers == {Browser(f) : f \in Flows}

NoChallenge == [id |-> Nothing, holder |-> Nothing, old |-> FALSE]
NewFlow(f) == [at |-> "new", target |-> Of(f), row |-> Nothing, named |-> FALSE,
               refused |-> FALSE, late |-> FALSE]

SocialInit ==
    /\ social \in SocialCases
    /\ profiles = [v \in Validators |-> NoProfile]
    /\ challenges = [v \in Validators |-> NoChallenge]
    /\ session = [b \in Browsers |-> Nothing]
    /\ flow = [f \in Flows |-> NewFlow(f)]
    /\ unlinking = [v \in Validators |-> IF v \in social.owners THEN "wanted" ELSE "over"]
    /\ tracked = {}
    /\ migrating = [v \in Validators |-> "no"]
    /\ before = [w \in Flows \cup Validators |-> Nothing]
    /\ swallowed = {} /\ socialFaults = 0

At(f, stage) == flow[f].at = stage
Goes(f, stage) == flow' = [flow EXCEPT ![f].at = stage]
Refused(f) == flow' = [flow EXCEPT ![f].at = "leaving", ![f].refused = TRUE]

----------------------------------------------------------------------------
(* A challenge, for either provider: delete those older than five minutes, *)
(* which may fail, and put a new one into the row of the address.  Mutant: *)
(* delete them all.                                                        *)
CleanedAll == [v \in Validators |-> NoChallenge]
Cleaned == [v \in Validators |-> IF challenges[v].old THEN NoChallenge ELSE challenges[v]]

GetChallenge(f) ==
    /\ At(f, "new")
    /\ \E rows \in {challenges, Cleaned} :
        challenges' = [rows EXCEPT ![Of(f)] =
            [id |-> IF @ = NoChallenge THEN f ELSE @.id, holder |-> f, old |-> FALSE]]
    /\ Goes(f, "challenged")
    /\ UNCHANGED <<social, profiles, session, unlinking, migrationVars, before, socialFaults>>

(* Five minutes have passed.                                               *)
ChallengeAges(v) ==
    /\ social.slow /\ challenges[v] # NoChallenge /\ ~challenges[v].old
    /\ challenges' = [challenges EXCEPT ![v].old = TRUE]
    /\ flow' = [flow EXCEPT ![challenges[v].holder].late = TRUE]
    /\ UNCHANGED <<social, profiles, session, unlinking, migrationVars, before, socialFaults>>

(* saveOAuthData replaces whatever flow the cookie held.                   *)
Initiate(f) ==
    /\ At(f, "challenged")
    /\ session' = [session EXCEPT ![Browser(f)] = f]
    /\ Goes(f, "away")
    /\ UNCHANGED <<social, profiles, challenges, unlinking, migrationVars, before, socialFaults>>

(* The callback compares the state with that of the cookie, and takes the  *)
(* address from the cookie.  Mutant: any state will do.                    *)
StateIgnored(f, cookie) == cookie # Nothing
StateValid(f, cookie) == cookie = f

Callback(f) ==
    LET cookie == session[Browser(f)]
    IN  /\ At(f, "away")
        /\ IF StateValid(f, cookie)
           THEN /\ flow' = [flow EXCEPT ![f].at = "called", ![f].target = Of(cookie)]
                /\ before' = [before EXCEPT ![f] = profiles[Of(cookie)].x]
           ELSE Refused(f) /\ UNCHANGED before
        /\ UNCHANGED <<social, rowVars, unlinking, migrationVars, socialFaults>>

(* verifyChallenge, after the code, the profile and the signature.         *)
VerifyChallenge(f) ==
    LET row == challenges[flow[f].target]
    IN  /\ IsX(f) /\ At(f, "called")
        /\ IF row.holder = f
           THEN flow' = [flow EXCEPT ![f].at = "verified", ![f].row = row.id]
           ELSE Refused(f)
        /\ UNCHANGED <<social, rowVars, unlinking, migrationVars, before, socialFaults>>

(* updateValidatorProfile: the check.  Mutant: there is none.              *)
AlwaysFree(v) == TRUE
Free(v) == profiles[v].x = Nothing

CheckProfile(f) ==
    LET v == flow[f].target
    IN  /\ At(f, "verified")
        /\ IF Free(v)
           THEN flow' = [flow EXCEPT ![f].at = "linking", ![f].named = profiles[v].name # Nothing]
           ELSE Goes(f, "leaving")
        /\ UNCHANGED <<social, rowVars, unlinking, migrationVars, before, socialFaults>>

LinkX(f) ==
    LET v == flow[f].target
    IN  /\ At(f, "linking")
        /\ profiles' = [profiles EXCEPT ![v].x = f, ![v].image = f,
                                        ![v].name = IF flow[f].named THEN @ ELSE f]
        /\ Goes(f, "cleaning")
        /\ UNCHANGED <<social, challenges, session, unlinking, migrationVars, before, socialFaults>>

(* cleanupChallenge deletes by row id; its errors are logged.              *)
CleanupChallenge(f) ==
    LET v == flow[f].target
    IN  /\ At(f, "cleaning")
        /\ challenges' \in {challenges,
               [challenges EXCEPT ![v] = IF @.id = flow[f].row THEN NoChallenge ELSE @]}
        /\ Goes(f, "leaving")
        /\ UNCHANGED <<social, profiles, session, unlinking, migrationVars, before, socialFaults>>

(* The Discord callback writes without a check.                            *)
LinkDiscord(f) ==
    /\ ~IsX(f) /\ At(f, "called")
    /\ profiles' = [profiles EXCEPT ![flow[f].target].discord = f]
    /\ Goes(f, "leaving")
    /\ UNCHANGED <<social, challenges, session, unlinking, migrationVars, before, socialFaults>>

(* The owner declines, or a call to the provider or the database throws.   *)
FlowFails(f) ==
    /\ flow[f].at \in {"away", "called", "verified", "linking"}
    /\ Goes(f, "leaving")
    /\ UNCHANGED <<social, rowVars, unlinking, migrationVars, before, socialFaults>>

(* The response destroys the session, whatever it has come to hold.        *)
Leave(f) ==
    /\ At(f, "leaving")
    /\ session' = [session EXCEPT ![Browser(f)] = Nothing]
    /\ Goes(f, "over")
    /\ UNCHANGED <<social, profiles, challenges, unlinking, migrationVars, before, socialFaults>>

(* The process dies: a callback ends without an answer.                    *)
FlowDies(f) ==
    /\ flow[f].at \in {"called", "verified", "linking", "cleaning", "leaving"}
    /\ Goes(f, "over")
    /\ UNCHANGED <<social, rowVars, unlinking, migrationVars, before, socialFaults>>

FlowStep(f) ==
    \/ GetChallenge(f) \/ Initiate(f) \/ Callback(f)
    \/ VerifyChallenge(f) \/ CheckProfile(f) \/ LinkX(f) \/ CleanupChallenge(f)
    \/ LinkDiscord(f) \/ FlowFails(f) \/ FlowDies(f) \/ Leave(f)

----------------------------------------------------------------------------
(* unverify: read the row, then take handle and user id away; the image    *)
(* and the name stay.                                                      *)
AskUnlink(v) ==
    /\ unlinking[v] = "wanted"
    /\ unlinking' = [unlinking EXCEPT ![v] = IF profiles[v].x = Nothing THEN "over" ELSE "linked"]
    /\ UNCHANGED <<social, rowVars, flow, migrationVars, before, socialFaults>>

UnlinkX(v) ==
    /\ unlinking[v] = "linked"
    /\ profiles' = [profiles EXCEPT ![v].x = Nothing]
    /\ unlinking' = [unlinking EXCEPT ![v] = "over"]
    /\ UNCHANGED <<social, challenges, session, flow, migrationVars, before, socialFaults>>

UnlinkDiscord(v) ==
    /\ v \in social.owners
    /\ profiles' = [profiles EXCEPT ![v].discord = Nothing]
    /\ UNCHANGED <<social, challenges, session, flow, unlinking, migrationVars, before, socialFaults>>

Rename(v) ==
    /\ v \in social.owners
    /\ profiles' = [profiles EXCEPT ![v].name = Custom]
    /\ UNCHANGED <<social, challenges, session, flow, unlinking, migrationVars, before, socialFaults>>

OwnerStep(v) == AskUnlink(v) \/ UnlinkX(v) \/ UnlinkDiscord(v) \/ Rename(v)

----------------------------------------------------------------------------
(* A run migrates the validators that have no ValidatorMigration row, and  *)
(* the next one starts when all of them are settled.                       *)
ListUnprocessed ==
    /\ DOMAIN social.older # {}
    /\ \A v \in Validators : migrating[v] = "no"
    /\ social.registered \ tracked # {}
    /\ migrating' = [v \in Validators |-> IF v \in social.registered \ tracked THEN "listed" ELSE "no"]
    /\ before' = [w \in DOMAIN before |-> IF w \in Validators THEN profiles[w].x ELSE before[w]]
    /\ UNCHANGED <<social, rowVars, flow, unlinking, tracked, swallowed, socialFaults>>

HasSocial(row) == \E c \in Columns : row[c] # Nothing
InSource(v) == v \in social.registered \cap DOMAIN social.older /\ HasSocial(social.older[v])

(* The order of processValidatorMigration.  Mutant: tracked, then copied.  *)
Advances(v, stage) == migrating' = [migrating EXCEPT ![v] = stage]
KeepsRest == UNCHANGED <<social, challenges, session, flow, unlinking, before>>

FindInSource(v) ==
    /\ migrating[v] = "listed"
    /\ Advances(v, IF InSource(v) THEN "found" ELSE "tracking")
    /\ UNCHANGED <<profiles, tracked, swallowed, socialFaults>> /\ KeepsRest

AlreadyLinked(v) ==
    /\ migrating[v] = "found"
    /\ HasSocial(profiles[v])
    /\ Advances(v, "tracking")
    /\ UNCHANGED <<profiles, tracked, swallowed, socialFaults>> /\ KeepsRest

FindEmpty(v) ==
    /\ migrating[v] = "found"
    /\ ~HasSocial(profiles[v])
    /\ Advances(v, "empty")
    /\ UNCHANGED <<profiles, tracked, swallowed, socialFaults>> /\ KeepsRest

(* Only the columns the source has are written.                            *)
CopySocial(v) ==
    /\ migrating[v] = "empty"
    /\ profiles' = [profiles EXCEPT ![v] =
           [c \in Columns |-> IF social.older[v][c] = Nothing THEN @[c] ELSE social.older[v][c]]]
    /\ Advances(v, "tracking")
    /\ UNCHANGED <<tracked, swallowed, socialFaults>> /\ KeepsRest

(* Mutant: a failed upsert counts as a row.                                *)
TrackedAnyway(v, stored) == tracked' = tracked \cup {v}
Tracked(v, stored) == tracked' = IF stored THEN tracked \cup {v} ELSE tracked

TrackValidator(v) ==
    /\ migrating[v] = "tracking"
    /\ Tracked(v, TRUE)
    /\ Advances(v, "no")
    /\ UNCHANGED <<profiles, swallowed, socialFaults>> /\ KeepsRest

Fault == socialFaults < social.faults /\ socialFaults' = socialFaults + 1

(* A lookup that throws is taken for a validator that is not there, and an *)
(* update that throws is logged: both are tracked as processed.            *)
ErrorSwallowed(v) ==
    /\ migrating[v] \in {"listed", "empty"}
    /\ Fault
    /\ Advances(v, "tracking")
    /\ swallowed' = swallowed \cup {v}
    /\ UNCHANGED <<profiles, tracked>> /\ KeepsRest

(* Any other error leaves the validator to the next run.                   *)
MigrationFails(v) ==
    /\ migrating[v] \in {"found", "tracking"}
    /\ Fault
    /\ Tracked(v, FALSE)
    /\ Advances(v, "no")
    /\ UNCHANGED <<profiles, swallowed>> /\ KeepsRest

RestartMigration ==
    /\ \E v \in Validators : migrating[v] # "no"
    /\ Fault
    /\ migrating' = [v \in Validators |-> "no"]
    /\ UNCHANGED <<profiles, tracked, swallowed>> /\ KeepsRest

MigrationStep(v) ==
    FindInSource(v) \/ AlreadyLinked(v) \/ FindEmpty(v) \/ CopySocial(v) \/ TrackValidator(v)

----------------------------------------------------------------------------
SocialNext ==
    \/ \E f \in Flows : FlowStep(f)
    \/ \E v \in Validators :
        \/ ChallengeAges(v) \/ OwnerStep(v)
        \/ MigrationStep(v) \/ ErrorSwallowed(v) \/ MigrationFails(v)
    \/ ListUnprocessed
    \/ RestartMigration

(* The collector's timer goes on; nothing is assumed of owners.            *)
SocialFairness ==
    /\ WF_socialVars(ListUnprocessed)
    /\ \A v \in Validators : WF_socialVars(MigrationStep(v))

SocialSpec == SocialInit /\ [][SocialNext]_socialVars /\ SocialFairness

----------------------------------------------------------------------------
(* An account is only ever shown for the validator its flow was started    *)
(* for, although two tabs of a browser share one cookie.                   *)
LinksOwn ==
    \A v \in Validators : \A f \in Flows :
        f \in {profiles[v].x, profiles[v].image, profiles[v].discord} => Of(f) = v

(* An X account that was there when a callback or a run of the migration   *)
(* arrived is never replaced by it: at most those that overlap replace     *)
(* each other's, after reads that found none.                              *)
Writer(v, account) == IF account = Source THEN v ELSE account
LinkKept ==
    [][\A v \in Validators :
        LET old == profiles[v].x
            new == profiles'[v].x
        IN  old # Nothing /\ new \notin {Nothing, old} => before[Writer(v, new)] # old]_socialVars

(* A flow is refused for its state or its challenge only because of        *)
(* another one in the same browser or for the same validator, be it of the *)
(* other provider, or because it took more than five minutes: those of     *)
(* other owners do not disturb it.                                         *)
Disturbs(g, f) == g # f /\ ~At(g, "new") /\ (Browser(g) = Browser(f) \/ Of(g) = Of(f))
FlowsIsolated ==
    \A f \in Flows : flow[f].refused => flow[f].late \/ \E g \in Flows : Disturbs(g, f)

(* Every validator known to the older database gets to show an account or  *)
(* a name, and is processed for good, unless an error was only logged.  A  *)
(* name its owner chose before that is taken for an account of its row.    *)
Shown(v) == InSource(v) => HasSocial(profiles[v]) \/ v \in swallowed
EventuallyMigratedSocial ==
    /\ \A v \in Validators : <>Shown(v)
    /\ <>[](DOMAIN social.older = {} \/ tracked = social.registered)

=============================================================================
