----------------------------- MODULE EntryFlows -----------------------------
(***************************************************************************)
(* One config entry: the setup of the integration from its stored profile  *)
(* (__init__.py), and the flows that validate a new profile and store it   *)
(* (config_flow.py), all of them running over the same awaits.  A profile  *)
(* is a token and the server it is for; the session of a self-hosted       *)
(* server is owned by whoever opened it (transport.py), the Cloud's is     *)
(* Home Assistant's.                                                       *)
(*                                                                         *)
(* Every action is what runs between two awaits.  The outcome of a request *)
(* is anything the service may answer, another account included.           *)
(***************************************************************************)
EXTENDS Integers

CONSTANTS Tokens,      \* personal access tokens
          SelfHosted,  \* self-hosted API origins
          Cloud,       \* API_BASE_URL
          Accounts,    \* account ids a server may answer with
          Own,         \* the entry's unique id
          NoProfile, NoAccount

Servers  == SelfHosted \cup {Cloud}
Profiles == [token : Tokens, server : Servers]

ASSUME EntryAssumption ==
    /\ Own \in Accounts
    /\ Cloud \notin SelfHosted
    /\ NoProfile \notin Profiles
    /\ NoAccount \notin Accounts

(* "user" stands for the flows that add an entry.                          *)
Flows  == {"reauth", "reconfigure", "user"}
Owners == Flows \cup {"entry"}

VARIABLES
    profile,     \* entry.data
    state,       \* state of the config entry
    step,        \* what a setup in progress waits for
    using,       \* the profile the setup read and its client uses
    account,     \* the account the setup was answered with, runtime_data.account
    closes,      \* entry.async_on_unload holds session.close
    reload,      \* a reload of the entry is scheduled
    at,          \* where each flow is
    input,       \* the profile each flow is validating
    open,        \* own sessions that are open, by who opened them
    entities     \* accounts entities have been created for

entry == <<state, step, using, account, closes, entities>>
flows == <<at, input>>
vars  == <<profile, state, step, using, account, closes, reload, at, input,
           open, entities>>

TypeOK ==
    /\ profile \in Profiles
    /\ state \in {"not_loaded", "setup", "loaded", "retry", "error"}
    /\ step \in {"none", "resolving", "account", "peers", "topology", "platforms"}
    /\ step # "none" <=> state = "setup"
    /\ using \in Profiles \cup {NoProfile}
    /\ account \in Accounts \cup {NoAccount}
    /\ closes \in BOOLEAN /\ reload \in BOOLEAN
    /\ at \in [Flows -> {"none", "form", "resolving", "validating", "validated", "other"}]
    /\ input \in [Flows -> Profiles \cup {NoProfile}]
    /\ open \in [Owners -> {0, 1}]
    /\ entities \subseteq Accounts

(* The entry as a flow created it: its profile was validated. *)
Init ==
    /\ profile \in Profiles
    /\ state = "not_loaded" /\ step = "none" /\ using = NoProfile
    /\ account = NoAccount /\ closes = FALSE /\ reload = FALSE
    /\ at = [f \in Flows |-> "none"] /\ input = [f \in Flows |-> NoProfile]
    /\ open = [o \in Owners |-> 0]
    /\ entities = {}

-----------------------------------------------------------------------------
(* Sessions.  async_get_netbird_session makes one for a self-hosted server.*)
OwnSessions(s) == IF s \in SelfHosted THEN 1 ELSE 0

Opened(o, s) == [open EXCEPT ![o] = @ + OwnSessions(s)]
Closed(o, s) == [open EXCEPT ![o] = @ - OwnSessions(s)]

(* Home Assistant runs what async_on_unload collected, after a failed      *)
(* setup and after an unload.                                              *)
ProcessOnUnload ==
    /\ open' = IF closes THEN [open EXCEPT !["entry"] = @ - 1] ELSE open
    /\ closes' = FALSE

(* A 401 starts reauthentication unless a flow of the entry is there.      *)
FlowsAfter401 ==
    IF at["reauth"] = "none" /\ at["reconfigure"] = "none"
    THEN [at EXCEPT !["reauth"] = "form"] ELSE at

-----------------------------------------------------------------------------
(* async_setup_entry.  Home Assistant sets up a new or reloaded entry, and *)
(* retries one that was not ready; it never runs two setups at once.       *)

SetupBegins ==
    /\ state \in {"not_loaded", "retry"}
    /\ state' = "setup" /\ step' = "resolving" /\ using' = profile
    /\ UNCHANGED <<profile, account, closes, reload, flows, open, entities>>

(* It raises: ConfigEntryNotReady is retried, the others wait for the user.*)
SetupRaises(outcome) ==
    /\ state' = outcome /\ step' = "none"
    /\ using' = NoProfile /\ account' = NoAccount
    /\ ProcessOnUnload
    /\ UNCHANGED <<profile, reload, input, entities>>

ResolveFails ==
    /\ step = "resolving" /\ using.server \in SelfHosted
    /\ \E outcome \in {"retry", "error"} : SetupRaises(outcome)
    /\ UNCHANGED at

MutantResolved ==
    /\ step = "resolving"
    /\ step' = "account"
    /\ open' = Opened("entry", using.server)
    /\ UNCHANGED <<profile, state, using, account, closes, reload, flows, entities>>

Resolved ==
    /\ step = "resolving"
    /\ step' = "account"
    /\ open' = Opened("entry", using.server)
    /\ closes' = (using.server \in SelfHosted)
    /\ UNCHANGED <<profile, state, using, account, reload, flows, entities>>

(* A 401 of the account or the first peer request; any other failure.      *)
RequestUnauthorized ==
    /\ step \in {"account", "peers"}
    /\ SetupRaises("error")
    /\ at' = FlowsAfter401

RequestFails ==
    /\ step \in {"account", "peers"}
    /\ SetupRaises("retry")
    /\ UNCHANGED at

MutantAccountIs(a) ==
    /\ step = "account"
    /\ step' = "peers" /\ account' = a
    /\ UNCHANGED <<profile, state, using, closes, reload, flows, open, entities>>

(* The account must be the entry's; nothing is created before it is known. *)
AccountIs(a) ==
    /\ step = "account"
    /\ IF a # Own THEN SetupRaises("error") /\ UNCHANGED at
       ELSE /\ step' = "peers" /\ account' = a
            /\ UNCHANGED <<profile, state, using, closes, reload, flows, open, entities>>

PeersAnswer ==
    /\ step = "peers"
    /\ step' = "topology"
    /\ UNCHANGED <<profile, state, using, account, closes, reload, flows, open, entities>>

(* The first topology refresh does not fail the setup, but its 401 counts. *)
TopologyAnswers(unauthorized) ==
    /\ step = "topology"
    /\ step' = "platforms"
    /\ at' = IF unauthorized THEN FlowsAfter401 ELSE at
    /\ UNCHANGED <<profile, state, using, account, closes, reload, input, open, entities>>

(* Platforms, then the two lifecycles: the entry is loaded.  Their unique  *)
(* ids and identifiers begin with the account that was answered.           *)
PlatformsAreSetUp ==
    /\ step = "platforms"
    /\ state' = "loaded" /\ step' = "none"
    /\ entities' = entities \cup {account}
    /\ UNCHANGED <<profile, using, account, closes, reload, flows, open>>

(* A poll of either coordinator is answered with a 401. *)
PollUnauthorized ==
    /\ state = "loaded"
    /\ at' = FlowsAfter401
    /\ UNCHANGED <<profile, entry, reload, input, open>>

(* Unloading removes the listeners and closes the session.  A scheduled    *)
(* reload is an unload, if there is something to unload, and a new setup;  *)
(* it waits for a setup that is in progress.                               *)
Unload ==
    /\ state = "loaded"
    /\ state' = "not_loaded" /\ using' = NoProfile /\ account' = NoAccount
    /\ ProcessOnUnload
    /\ UNCHANGED <<profile, step, flows, entities>>

UserUnloads == Unload /\ UNCHANGED reload

Reload ==
    /\ reload
    /\ reload' = FALSE
    /\ \/ Unload
       \/ /\ state \in {"not_loaded", "retry", "error"}
          /\ state' = "not_loaded"
          /\ UNCHANGED <<profile, step, using, account, closes, flows, open,
                         entities>>

-----------------------------------------------------------------------------
(* The flows. *)

FormShown(f) ==
    /\ f # "reauth" /\ at[f] = "none"
    /\ at' = [at EXCEPT ![f] = "form"]
    /\ UNCHANGED <<profile, entry, reload, input, open>>

FormDismissed(f) ==
    /\ at[f] = "form"
    /\ at' = [at EXCEPT ![f] = "none"]
    /\ UNCHANGED <<profile, entry, reload, input, open>>

(* What the user may submit: reauthentication asks for a token and takes   *)
(* the server from the entry, reconfiguration keeps a Cloud entry there    *)
(* and a self-hosted one off it.                                           *)
Submittable(f) ==
    CASE f = "reauth"      -> {p \in Profiles : p.server = profile.server}
      [] f = "reconfigure" -> {p \in Profiles : p.server = Cloud <=> profile.server = Cloud}
      [] f = "user"        -> Profiles

(* The server of a self-hosted profile is resolved first, which may fail.  *)
Submit(f, p) ==
    /\ at[f] = "form" /\ p \in Submittable(f)
    /\ at' = [at EXCEPT ![f] = "resolving"]
    /\ input' = [input EXCEPT ![f] = p]
    /\ UNCHANGED <<profile, entry, reload, open>>

ServerRejected(f) ==
    /\ at[f] = "resolving" /\ input[f].server \in SelfHosted
    /\ at' = [at EXCEPT ![f] = "form"] /\ input' = [input EXCEPT ![f] = NoProfile]
    /\ UNCHANGED <<profile, entry, reload, open>>

ValidationBegins(f) ==
    /\ at[f] = "resolving"
    /\ at' = [at EXCEPT ![f] = "validating"]
    /\ open' = Opened(f, input[f].server)
    /\ UNCHANGED <<profile, entry, reload, input>>

(* _async_validate_connection: every error closes the session and shows    *)
(* the form again.                                                         *)
ValidationFails(f) ==
    /\ at[f] = "validating"
    /\ at' = [at EXCEPT ![f] = "form"] /\ input' = [input EXCEPT ![f] = NoProfile]
    /\ open' = Closed(f, input[f].server)
    /\ UNCHANGED <<profile, entry, reload>>

(* The requests succeed; the session closes, which is an await of its own. *)
Validated(f, a) ==
    /\ at[f] = "validating"
    /\ at' = [at EXCEPT ![f] = IF a = Own THEN "validated" ELSE "other"]
    /\ open' = Closed(f, input[f].server)
    /\ UNCHANGED <<profile, entry, reload, input>>

(* async_set_unique_id aborts a flow while another one in progress has the *)
(* same unique id: a reauthentication has its entry's from the start, the  *)
(* other flows only when they end.                                         *)
InProgress(f) == f # "reauth" /\ at["reauth"] # "none"

MutantAccepts(f) == at[f] = "validated" /\ f # "user"

(* The unique id checks; a new flow finds the account configured.          *)
Accepts(f) == at[f] = "validated" /\ f # "user" /\ ~InProgress(f)

MutantReloads == FALSE

(* async_update_reload_and_abort always schedules a reload.                *)
Reloads == TRUE

(* The entry takes the token, and the server where the flow asked for it.  *)
Stores(f) ==
    /\ Accepts(f)
    /\ profile' = IF f = "reauth" THEN [profile EXCEPT !.token = input[f].token]
                  ELSE input[f]
    /\ reload' = (reload \/ Reloads)
    /\ at' = [at EXCEPT ![f] = "none"] /\ input' = [input EXCEPT ![f] = NoProfile]
    /\ UNCHANGED <<entry, open>>

Aborts(f) ==
    /\ at[f] \in {"validated", "other"} /\ ~Accepts(f)
    /\ at' = [at EXCEPT ![f] = "none"] /\ input' = [input EXCEPT ![f] = NoProfile]
    /\ UNCHANGED <<profile, entry, reload, open>>

-----------------------------------------------------------------------------
SetupStep ==
    \/ SetupBegins
    \/ ResolveFails
    \/ Resolved
    \/ RequestUnauthorized
    \/ RequestFails
    \/ \E a \in Accounts : AccountIs(a)
    \/ PeersAnswer
    \/ \E unauthorized \in BOOLEAN : TopologyAnswers(unauthorized)
    \/ PlatformsAreSetUp

FlowStep(f) ==
    \/ FormShown(f)
    \/ FormDismissed(f)
    \/ \E p \in Profiles : Submit(f, p)
    \/ ServerRejected(f)
    \/ ValidationBegins(f)
    \/ ValidationFails(f)
    \/ \E a \in Accounts : Validated(f, a)
    \/ Stores(f)
    \/ Aborts(f)

Next ==
    \/ SetupStep
    \/ PollUnauthorized
    \/ UserUnloads
    \/ Reload
    \/ \E f \in Flows : FlowStep(f)

Spec == Init /\ [][Next]_vars

-----------------------------------------------------------------------------
(* Every own session is held by someone who will close it: the entry while *)
(* its setup is past resolving or it is loaded, a flow while it validates. *)
(* No failed setup, reload or rejected form leaves one open, none is       *)
(* closed twice (__init__.py:121-123, transport.py:61-66).                 *)
SessionsAreOwned ==
    /\ open["entry"] =
         IF using # NoProfile /\ step # "resolving" THEN OwnSessions(using.server) ELSE 0
    /\ \A f \in Flows :
         open[f] = IF at[f] = "validating" THEN OwnSessions(input[f].server) ELSE 0

(* Whatever flows overlap, the token and the server that are stored were   *)
(* validated together by one of them, for the entry's own account: no flow *)
(* stores its half over the half another one stored meanwhile              *)
(* (config_flow.py:258, 276-285, 316-325, 350-357).                        *)
StoredProfileWasValidated ==
    [][ profile' # profile =>
          \E f \in Flows : at[f] = "validated" /\ profile' = input[f] ]_vars

(* A running entry uses the stored profile unless its reload is scheduled, *)
(* also when the profile was replaced while a setup was reading it         *)
(* (__init__.py:102-113, config_flow.py:278-285).                          *)
StoredProfileIsUsed == using # NoProfile /\ ~reload => using = profile

(* Entities and devices are only ever created for the entry's own account: *)
(* whatever account a server answers a setup with, after a retry, a reload *)
(* or a new profile, what the platforms create bears the account that was  *)
(* answered, and so does all that a loaded entry will still create; the    *)
(* setup does not get there with another (__init__.py:61-64, 153-171).     *)
OnlyOwnEntities ==
    /\ entities \subseteq {Own}
    /\ state = "loaded" => account = Own
=============================================================================
