-------------------------- MODULE EntryFlowsProofs --------------------------
(***************************************************************************)
(* What EntryFlows guarantees for any tokens, servers and accounts.        *)
(***************************************************************************)
EXTENDS EntryFlows, TLAPS

(* The setup holds a profile while it runs and while the entry is loaded.  *)
ProfileInUse == using # NoProfile <=> state \in {"setup", "loaded"}

(* on_unload holds session.close exactly while the entry owns a session.   *)
OwnedIsClosed ==
    closes <=> using # NoProfile /\ step # "resolving" /\ using.server \in SelfHosted

(* A flow past its form has a profile; a reauthentication's is for the     *)
(* stored server, which no other flow can replace meanwhile.               *)
InputsFit ==
    /\ \A f \in Flows : at[f] \notin {"none", "form"} => input[f] \in Profiles
    /\ at["reauth"] \in {"resolving", "validating", "validated"} =>
         input["reauth"].server = profile.server

(* From the answer of the account request on, a setup and the entry it     *)
(* loads hold the account that was answered, and it is the entry's.        *)
AccountChecked ==
    account = IF state = "loaded" \/ step \in {"peers", "topology", "platforms"}
              THEN Own ELSE NoAccount

IInv ==
    /\ TypeOK
    /\ SessionsAreOwned
    /\ StoredProfileIsUsed
    /\ OnlyOwnEntities
    /\ AccountChecked
    /\ ProfileInUse
    /\ OwnedIsClosed
    /\ InputsFit

-----------------------------------------------------------------------------
LEMMA InitInv == Init => IInv
  <1> SUFFICES ASSUME Init PROVE IInv
    OBVIOUS
  <1>1. TypeOK
    BY DEF Init, TypeOK, Owners
  <1> QED
    BY <1>1 DEF Init, IInv, SessionsAreOwned, StoredProfileIsUsed,
       OnlyOwnEntities, AccountChecked,
       ProfileInUse, OwnedIsClosed, InputsFit, Owners, Flows

(* A 401 moves only the reauthentication, to its form. *)
LEMMA After401 ==
    ASSUME IInv
    PROVE  /\ FlowsAfter401 \in [Flows -> {"none", "form", "resolving", "validating",
                                           "validated", "other"}]
           /\ \A f \in Flows : FlowsAfter401[f] # at[f] =>
                 f = "reauth" /\ at[f] = "none" /\ FlowsAfter401[f] = "form"
  BY DEF IInv, TypeOK, Flows, FlowsAfter401

(* A failed setup or an unload closes the entry's session, if it has one.  *)
LEMMA EntrySessionCloses ==
    ASSUME IInv, ProcessOnUnload
    PROVE  /\ open' = [open EXCEPT !["entry"] = 0]
           /\ closes' = FALSE
           /\ open' \in [Owners -> {0, 1}]
  <1>1. open["entry"] = IF closes THEN 1 ELSE 0
    BY DEF IInv, SessionsAreOwned, OwnedIsClosed, OwnSessions
  <1>2. open \in [Owners -> {0, 1}] /\ "entry" \in Owners
    BY DEF IInv, TypeOK, Owners
  <1>3. CASE closes
    BY <1>1, <1>2, <1>3 DEF ProcessOnUnload
  <1>4. CASE ~closes
    <2>1. open = [open EXCEPT !["entry"] = 0]
      BY <1>1, <1>2, <1>4
    <2> QED
      BY <1>2, <1>4, <2>1 DEF ProcessOnUnload
  <1> QED
    BY <1>2, <1>3, <1>4 DEF IInv, TypeOK

(* The entry lets go of its profile; a flow may appear at its form.        *)
LEMMA EntryStops ==
    ASSUME IInv, ProcessOnUnload, step' = "none", using' = NoProfile,
           account' = NoAccount, state' \in {"not_loaded", "retry", "error"},
           reload' \in BOOLEAN,
           at' = at \/ at' = FlowsAfter401,
           UNCHANGED <<profile, input, entities>>
    PROVE  IInv'
  <1>1. /\ open' = [open EXCEPT !["entry"] = 0] /\ closes' = FALSE
        /\ open' \in [Owners -> {0, 1}]
    BY EntrySessionCloses
  <1>2. /\ at' \in [Flows -> {"none", "form", "resolving", "validating",
                              "validated", "other"}]
        /\ \A f \in Flows : at'[f] # at[f] =>
              f = "reauth" /\ at[f] = "none" /\ at'[f] = "form"
    BY After401 DEF IInv, TypeOK
  <1>3. TypeOK'
    BY <1>1, <1>2 DEF IInv, TypeOK
  <1>4. SessionsAreOwned'
    BY <1>1, <1>2 DEF IInv, TypeOK, SessionsAreOwned, Owners, Flows
  <1>5. InputsFit'
    BY <1>2 DEF IInv, InputsFit, Flows
  <1> QED
    BY <1>1, <1>3, <1>4, <1>5
    DEF IInv, StoredProfileIsUsed, OnlyOwnEntities,
        AccountChecked, ProfileInUse, OwnedIsClosed

-----------------------------------------------------------------------------
(* The steps of the setup preserve the invariant. *)
LEMMA SetupInv == IInv /\ SetupStep => IInv'
  <1> SUFFICES ASSUME IInv, SetupStep PROVE IInv'
    OBVIOUS
  <1> USE DEF flows
  <1>1. CASE SetupBegins
    <2>1. TypeOK'
      BY <1>1 DEF SetupBegins, IInv, TypeOK
    <2> QED
      BY <1>1, <2>1, EntryAssumption
      DEF SetupBegins, IInv, TypeOK, SessionsAreOwned, StoredProfileIsUsed,
          OnlyOwnEntities, AccountChecked, ProfileInUse, OwnedIsClosed, InputsFit
  <1>2. CASE ResolveFails
    BY <1>2, EntryStops DEF ResolveFails, SetupRaises, IInv, TypeOK
  <1>3. CASE Resolved
    <2>1. using \in Profiles /\ using # NoProfile /\ open["entry"] = 0
      BY <1>3, EntryAssumption DEF Resolved, IInv, TypeOK, ProfileInUse, SessionsAreOwned
    <2>2. /\ open' = [open EXCEPT !["entry"] = OwnSessions(using.server)]
          /\ OwnSessions(using.server) \in {0, 1}
      BY <1>3, <2>1 DEF Resolved, Opened, OwnSessions, IInv, TypeOK
    <2>3. TypeOK'
      BY <1>3, <2>2 DEF Resolved, IInv, TypeOK
    <2>4. SessionsAreOwned'
      BY <1>3, <2>1, <2>2 DEF Resolved, IInv, TypeOK, SessionsAreOwned, Owners, Flows
    <2> QED
      BY <1>3, <2>1, <2>3, <2>4
      DEF Resolved, IInv, StoredProfileIsUsed, OnlyOwnEntities, AccountChecked,
          ProfileInUse, OwnedIsClosed, InputsFit
  <1>4. CASE RequestUnauthorized
    BY <1>4, EntryStops DEF RequestUnauthorized, SetupRaises, IInv, TypeOK
  <1>5. CASE RequestFails
    BY <1>5, EntryStops DEF RequestFails, SetupRaises, IInv, TypeOK
  <1>6. CASE \E a \in Accounts : AccountIs(a)
    <2> PICK a \in Accounts : AccountIs(a)
      BY <1>6
    <2>1. CASE a # Own
      BY <2>1, EntryStops DEF AccountIs, SetupRaises, IInv, TypeOK
    <2>2. CASE a = Own
      BY <2>2 DEF AccountIs, IInv, TypeOK, SessionsAreOwned, StoredProfileIsUsed,
             OnlyOwnEntities, AccountChecked, ProfileInUse, OwnedIsClosed, InputsFit
    <2> QED
      BY <2>1, <2>2
  <1>7. CASE PeersAnswer
    BY <1>7 DEF PeersAnswer, IInv, TypeOK, SessionsAreOwned, StoredProfileIsUsed,
           OnlyOwnEntities, AccountChecked, ProfileInUse, OwnedIsClosed, InputsFit
  <1>8. CASE \E unauthorized \in BOOLEAN : TopologyAnswers(unauthorized)
    <2>1. /\ at' \in [Flows -> {"none", "form", "resolving", "validating",
                                "validated", "other"}]
          /\ \A f \in Flows : at'[f] # at[f] =>
                f = "reauth" /\ at[f] = "none" /\ at'[f] = "form"
      BY <1>8, After401 DEF TopologyAnswers, IInv, TypeOK
    <2> QED
      BY <1>8, <2>1
      DEF TopologyAnswers, IInv, TypeOK, SessionsAreOwned, StoredProfileIsUsed,
          OnlyOwnEntities, AccountChecked, ProfileInUse, OwnedIsClosed, InputsFit, Flows
  <1>9. CASE PlatformsAreSetUp
    BY <1>9, EntryAssumption
    DEF PlatformsAreSetUp, IInv, TypeOK, SessionsAreOwned, StoredProfileIsUsed,
        OnlyOwnEntities, AccountChecked, ProfileInUse, OwnedIsClosed, InputsFit
  <1> QED
    BY <1>1, <1>2, <1>3, <1>4, <1>5, <1>6, <1>7, <1>8, <1>9 DEF SetupStep

(* So do a poll, an unload and a reload. *)
LEMMA RunningInv == IInv /\ (PollUnauthorized \/ UserUnloads \/ Reload) => IInv'
  <1> SUFFICES ASSUME IInv, PollUnauthorized \/ UserUnloads \/ Reload PROVE IInv'
    OBVIOUS
  <1> USE DEF flows, entry
  <1>1. CASE PollUnauthorized
    <2>1. /\ at' \in [Flows -> {"none", "form", "resolving", "validating",
                                "validated", "other"}]
          /\ \A f \in Flows : at'[f] # at[f] =>
                f = "reauth" /\ at[f] = "none" /\ at'[f] = "form"
      BY <1>1, After401 DEF PollUnauthorized
    <2> QED
      BY <1>1, <2>1
      DEF PollUnauthorized, IInv, TypeOK, SessionsAreOwned, StoredProfileIsUsed,
          OnlyOwnEntities, AccountChecked, ProfileInUse, OwnedIsClosed, InputsFit, Flows
  <1>2. ASSUME Unload, reload' \in BOOLEAN PROVE IInv'
    <2>1. step' = "none"
      BY <1>2 DEF Unload, IInv, TypeOK
    <2> QED
      BY <1>2, <2>1, EntryStops DEF Unload
  <1>3. CASE UserUnloads
    BY <1>2, <1>3 DEF UserUnloads, IInv, TypeOK
  <1>4. CASE Reload /\ ~Unload
    <2>1. /\ state \in {"not_loaded", "retry", "error"} /\ state' = "not_loaded"
          /\ reload' = FALSE
          /\ UNCHANGED <<profile, step, using, account, closes, at, input, open, entities>>
      BY <1>4 DEF Reload
    <2> QED
      BY <2>1 DEF IInv, TypeOK, SessionsAreOwned, StoredProfileIsUsed,
             OnlyOwnEntities, AccountChecked, ProfileInUse, OwnedIsClosed, InputsFit
  <1>5. CASE Reload /\ Unload
    BY <1>2, <1>5 DEF Reload
  <1> QED
    BY <1>1, <1>3, <1>4, <1>5

-----------------------------------------------------------------------------
(* Opening and closing a flow's session, one flow at a time. *)
LEMMA FlowSessions ==
    ASSUME IInv, NEW f \in Flows
    PROVE  /\ at[f] = "resolving" =>
                Opened(f, input[f].server) = [open EXCEPT ![f] = OwnSessions(input[f].server)]
           /\ at[f] = "validating" => Closed(f, input[f].server) = [open EXCEPT ![f] = 0]
           /\ OwnSessions(input[f].server) \in {0, 1}
           /\ f \in Owners /\ f # "entry"
  <1>1. open \in [Owners -> {0, 1}] /\ f \in Owners /\ f # "entry"
    BY DEF IInv, TypeOK, Owners, Flows
  <1>2. open[f] = IF at[f] = "validating" THEN OwnSessions(input[f].server) ELSE 0
    BY DEF IInv, SessionsAreOwned
  <1>3. OwnSessions(input[f].server) \in {0, 1}
    BY DEF OwnSessions
  <1>4. /\ at[f] = "resolving" => open[f] + OwnSessions(input[f].server)
                                    = OwnSessions(input[f].server)
        /\ at[f] = "validating" => open[f] - OwnSessions(input[f].server) = 0
    BY <1>2, <1>3
  <1> QED
    BY <1>1, <1>3, <1>4 DEF Opened, Closed

(* A step of a flow that leaves the entry alone: the flow's own session    *)
(* and input are all there is to check.                                    *)
LEMMA FlowMoves ==
    ASSUME IInv, NEW f \in Flows, NEW place, NEW value, NEW n \in {0, 1},
           place \in {"none", "form", "resolving", "validating", "validated", "other"},
           value \in Profiles \cup {NoProfile},
           place \notin {"none", "form"} => value \in Profiles,
           f = "reauth" /\ place \in {"resolving", "validating", "validated"} =>
             value.server = profile.server,
           n = (IF place = "validating" THEN OwnSessions(value.server) ELSE 0),
           at' = [at EXCEPT ![f] = place],
           input' = [input EXCEPT ![f] = value],
           open' = [open EXCEPT ![f] = n],
           UNCHANGED <<profile, entry, reload>>
    PROVE  IInv'
  <1> USE DEF entry
  <1>1. f \in Owners /\ f # "entry" /\ "entry" \in Owners
    BY DEF Owners, Flows
  <1>2. TypeOK'
    BY <1>1 DEF IInv, TypeOK
  <1>3. SessionsAreOwned'
    <2>1. open'["entry"] = open["entry"]
      BY <1>1 DEF IInv, TypeOK
    <2>2. ASSUME NEW g \in Flows
          PROVE  open'[g] = IF at'[g] = "validating" THEN OwnSessions(input'[g].server) ELSE 0
      <3>1. g \in Owners
        BY DEF Owners
      <3>2. CASE g = f
        BY <3>1, <3>2 DEF IInv, TypeOK
      <3>3. CASE g # f
        BY <3>1, <3>3 DEF IInv, TypeOK, SessionsAreOwned
      <3> QED
        BY <3>2, <3>3
    <2>3. OwnSessions(using.server)' = OwnSessions(using.server)
      BY DEF OwnSessions
    <2> QED
      BY <2>1, <2>2, <2>3 DEF IInv, SessionsAreOwned, OwnSessions
  <1>4. InputsFit'
    BY DEF IInv, TypeOK, InputsFit, Flows
  <1> QED
    BY <1>2, <1>3, <1>4
    DEF IInv, StoredProfileIsUsed, OnlyOwnEntities,
        AccountChecked, ProfileInUse, OwnedIsClosed

(* A stored profile was validated as a whole: a reauthentication's server  *)
(* is the entry's, and a reconfiguration waits for no reauthentication.    *)
LEMMA StoredIsInput ==
    ASSUME IInv, NEW f \in Flows, Stores(f)
    PROVE  profile' = input[f] /\ at[f] = "validated"
  <1>1. at[f] = "validated" /\ input[f] \in Profiles /\ profile \in Profiles
    BY DEF Stores, Accepts, IInv, TypeOK, InputsFit
  <1>2. CASE f = "reauth"
    <2>1. input[f].server = profile.server
      BY <1>1, <1>2 DEF IInv, InputsFit
    <2>2. profile' = [profile EXCEPT !.token = input[f].token]
      BY <1>2 DEF Stores
    <2> QED
      BY <1>1, <2>1, <2>2 DEF Profiles
  <1>3. CASE f # "reauth"
    BY <1>1, <1>3 DEF Stores
  <1> QED
    BY <1>2, <1>3

(* Storing schedules the reload that makes the entry use the new profile.  *)
LEMMA StoresInv == ASSUME IInv, NEW f \in Flows, Stores(f) PROVE IInv'
  <1> USE DEF entry
  <1>1. profile' = input[f] /\ at[f] = "validated" /\ input[f] \in Profiles
    BY StoredIsInput DEF IInv, InputsFit
  <1>2. /\ reload' = TRUE /\ UNCHANGED <<entry, open>>
        /\ at' = [at EXCEPT ![f] = "none"] /\ input' = [input EXCEPT ![f] = NoProfile]
    BY DEF Stores, Reloads
  <1>3. TypeOK'
    BY <1>1, <1>2 DEF IInv, TypeOK
  <1>4. SessionsAreOwned'
    BY <1>1, <1>2 DEF IInv, TypeOK, SessionsAreOwned, OwnSessions
  <1>5. at'["reauth"] = "none"
    BY <1>2 DEF Stores, Accepts, InProgress, IInv, TypeOK, Flows
  <1>6. InputsFit'
    BY <1>2, <1>5 DEF IInv, TypeOK, InputsFit, Flows
  <1> QED
    BY <1>2, <1>3, <1>4, <1>6
    DEF IInv, StoredProfileIsUsed, OnlyOwnEntities,
        AccountChecked, ProfileInUse, OwnedIsClosed

-----------------------------------------------------------------------------
(* The steps of a flow preserve the invariant. *)
LEMMA FlowInv == ASSUME IInv, NEW f \in Flows, FlowStep(f) PROVE IInv'
  <1>1. /\ input[f] \in Profiles \cup {NoProfile} /\ at \in [Flows -> {"none", "form",
             "resolving", "validating", "validated", "other"}]
        /\ input = [input EXCEPT ![f] = input[f]]
        /\ at[f] # "validating" => open = [open EXCEPT ![f] = 0]
        /\ at[f] \notin {"none", "form"} => input[f] \in Profiles
        /\ f = "reauth" /\ at[f] \in {"resolving", "validating", "validated"} =>
             input[f].server = profile.server
    BY DEF IInv, TypeOK, InputsFit, SessionsAreOwned, Owners
  <1>2. CASE FormShown(f)
    BY <1>1, <1>2, FlowMoves DEF FormShown
  <1>3. CASE FormDismissed(f)
    BY <1>1, <1>3, FlowMoves DEF FormDismissed
  <1>4. CASE \E p \in Profiles : Submit(f, p)
    <2> PICK p \in Profiles : Submit(f, p)
      BY <1>4
    <2>1. f = "reauth" => p.server = profile.server
      BY DEF Submit, Submittable
    <2> QED
      BY <1>1, <2>1, FlowMoves DEF Submit
  <1>5. CASE ServerRejected(f)
    BY <1>1, <1>5, FlowMoves DEF ServerRejected
  <1>6. CASE ValidationBegins(f)
    <2>1. /\ at[f] = "resolving" /\ at' = [at EXCEPT ![f] = "validating"]
          /\ UNCHANGED <<profile, entry, reload, input>>
      BY <1>6 DEF ValidationBegins
    <2>2. /\ open' = [open EXCEPT ![f] = OwnSessions(input[f].server)]
          /\ OwnSessions(input[f].server) \in {0, 1}
      BY <1>6, <2>1, FlowSessions DEF ValidationBegins
    <2> QED
      BY <1>1, <2>1, <2>2, FlowMoves
  <1>7. CASE ValidationFails(f)
    BY <1>1, <1>7, FlowMoves, FlowSessions DEF ValidationFails
  <1>8. CASE \E a \in Accounts : Validated(f, a)
    <2> PICK a \in Accounts : Validated(f, a)
      BY <1>8
    <2> DEFINE place == IF a = Own THEN "validated" ELSE "other"
    <2>1. /\ place \in {"validated", "other"} /\ at' = [at EXCEPT ![f] = place]
          /\ at[f] = "validating" /\ UNCHANGED <<profile, entry, reload, input>>
          /\ open' = [open EXCEPT ![f] = 0]
      BY FlowSessions DEF Validated
    <2> HIDE DEF place
    <2> QED
      BY <1>1, <2>1, FlowMoves
  <1>9. CASE Stores(f)
    BY <1>9, StoresInv
  <1>10. CASE Aborts(f)
    BY <1>1, <1>10, FlowMoves DEF Aborts
  <1> QED
    BY <1>2, <1>3, <1>4, <1>5, <1>6, <1>7, <1>8, <1>9, <1>10 DEF FlowStep

LEMMA NextInv == IInv /\ [Next]_vars => IInv'
  <1> SUFFICES ASSUME IInv, [Next]_vars PROVE IInv'
    OBVIOUS
  <1>1. CASE SetupStep
    BY <1>1, SetupInv
  <1>2. CASE PollUnauthorized \/ UserUnloads \/ Reload
    BY <1>2, RunningInv
  <1>3. CASE \E f \in Flows : FlowStep(f)
    BY <1>3, FlowInv
  <1>4. CASE UNCHANGED vars
    BY <1>4 DEF vars, IInv, TypeOK, SessionsAreOwned, StoredProfileIsUsed,
           OnlyOwnEntities, AccountChecked, ProfileInUse, OwnedIsClosed, InputsFit,
           OwnSessions
  <1> QED
    BY <1>1, <1>2, <1>3, <1>4 DEF Next

(* The inductive invariant holds in every reachable state.                 *)
THEOREM InvariantHolds == Spec => []IInv
  BY InitInv, NextInv, PTL DEF Spec

(* Every variable keeps its type (__init__.py, config_flow.py).            *)
THEOREM TypeCorrect == Spec => []TypeOK
  <1>1. IInv => TypeOK
    BY DEF IInv
  <1> QED
    BY <1>1, InvariantHolds, PTL

(* No session of a self-hosted server is left open or closed twice         *)
(* (__init__.py:121-123, transport.py:61-66).                              *)
THEOREM SessionsOwned == Spec => []SessionsAreOwned
  <1>1. IInv => SessionsAreOwned
    BY DEF IInv
  <1> QED
    BY <1>1, InvariantHolds, PTL

(* A running entry uses the stored profile or is about to be reloaded      *)
(* (__init__.py:102-113, config_flow.py:278-285).                          *)
THEOREM ProfileUsed == Spec => []StoredProfileIsUsed
  <1>1. IInv => StoredProfileIsUsed
    BY DEF IInv
  <1> QED
    BY <1>1, InvariantHolds, PTL

(* Nothing is created for another account than the entry's, although what  *)
(* is created takes the account that was answered: a setup that goes on    *)
(* was answered with the entry's (__init__.py:61-64, 153-154, 160-171).    *)
THEOREM EntitiesOwn == Spec => []OnlyOwnEntities
  <1>1. IInv => OnlyOwnEntities
    BY DEF IInv
  <1> QED
    BY <1>1, InvariantHolds, PTL

(* What is stored was validated as a whole, however the flows overlap      *)
(* (config_flow.py:258, 276-285, 350-357).                                 *)
THEOREM ProfileValidated == Spec => StoredProfileWasValidated
  <1> DEFINE Whole == profile' # profile =>
                        \E f \in Flows : at[f] = "validated" /\ profile' = input[f]
  <1>1. IInv /\ [Next]_vars => [Whole]_vars
    <2> SUFFICES ASSUME IInv, Next PROVE Whole
      BY DEF vars
    <2>1. CASE \E f \in Flows : Stores(f)
      BY <2>1, StoredIsInput
    <2>2. CASE ~\E f \in Flows : Stores(f)
      <3>1. profile' = profile
        BY <2>2 DEF Next, SetupStep, SetupBegins, ResolveFails, Resolved, SetupRaises,
           RequestUnauthorized, RequestFails, AccountIs, PeersAnswer, TopologyAnswers,
           PlatformsAreSetUp, PollUnauthorized, UserUnloads, Unload, Reload, FlowStep,
           FormShown, FormDismissed, Submit, ServerRejected, ValidationBegins,
           ValidationFails, Validated, Aborts
      <3> QED
        BY <3>1
    <2> QED
      BY <2>1, <2>2
  <1>2. Spec => [][Next]_vars
    BY PTL DEF Spec
  <1> QED
    BY <1>1, <1>2, InvariantHolds, PTL DEF StoredProfileWasValidated
=============================================================================
