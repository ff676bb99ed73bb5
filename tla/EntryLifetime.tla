---------------------------- MODULE EntryLifetime ----------------------------
(***************************************************************************)
(* The entries of the integration: flows create them, a release migrates   *)
(* what an older one left (__init__.py), the user decides which of their   *)
(* entities are enabled and removes them.  Home Assistant keeps entries    *)
(* and entities in two stores that are saved each in its own time, and may *)
(* stop between any two steps.                                             *)
(*                                                                         *)
(* An entity is an account and the key its unique id ends with.            *)
(***************************************************************************)
EXTENDS Integers

CONSTANTS Accounts,
          Flows,      \* user flows that may be open at once
          Promoted,   \* last_seen, approval_required: disabled before version 2
          Optional,   \* keys that are still disabled by default
          Old,        \* no flow of this release: an earlier one made the entry
          NoEntry

Keys     == Promoted \cup Optional
Version  == 3
Versions == 1..(Version + 1)   \* a newer release may have been here
Entries  == [version : Versions, by : Flows \cup {Old}]

ASSUME LifetimeAssumption ==
    /\ Promoted \cap Optional = {}
    /\ Old \notin Flows
    /\ NoEntry \notin Entries
    /\ Accounts \cap {"none", "validating"} = {}

Disablers == {"absent", "no", "integration", "user"}
Choices   == {"none", "enabled", "disabled"}

VARIABLES
    entries,    \* the entry of each account
    disabler,   \* what disables each entity, "absent" if it is not registered
    setup,      \* accounts whose entry has been set up since the start
    at,         \* each flow: "none", "validating", or the account it is for
    choice,     \* history: what the user last decided about each entity
    saved       \* what the stores hold

vars == <<entries, disabler, setup, at, choice, saved>>

Rows(values) == [Accounts -> [Keys -> values]]

TypeOK ==
    /\ entries \in [Accounts -> Entries \cup {NoEntry}]
    /\ disabler \in Rows(Disablers) /\ choice \in Rows(Choices)
    /\ setup \subseteq Accounts
    /\ at \in [Flows -> {"none", "validating"} \cup Accounts]
    /\ saved \in [entries : [Accounts -> Entries \cup {NoEntry}],
                  disabler : Rows(Disablers), choice : Rows(Choices)]

(* The stores of a home where any release may have run.  Before version 2  *)
(* an enabled entity is one that the user has enabled, whatever its key.   *)
ChoiceIn(version, k, d) ==
    CASE d = "user" -> "disabled"
      [] d = "no" /\ (version = 1 \/ k \in Optional) -> "enabled"
      [] OTHER -> "none"

Init ==
    /\ entries \in [Accounts -> [version : Versions, by : {Old}] \cup {NoEntry}]
    /\ disabler \in Rows(Disablers)
    /\ \A a \in Accounts : \A k \in Keys : disabler[a][k] = "absent" <=> entries[a] = NoEntry
    /\ choice = [a \in Accounts |-> [k \in Keys |->
                   IF entries[a] = NoEntry THEN "none"
                   ELSE ChoiceIn(entries[a].version, k, disabler[a][k])]]
    /\ setup = {}
    /\ at = [f \in Flows |-> "none"]
    /\ saved = [entries |-> entries, disabler |-> disabler, choice |-> choice]

-----------------------------------------------------------------------------
(* async_migrate_entry, and the entities that the platforms register.      *)

MutantPromoted(k, version, d) == version = 1 /\ k \in Promoted

(* Only what the integration itself has disabled is enabled.               *)
Promotes(k, version, d) == version = 1 /\ k \in Promoted /\ d = "integration"

Default(k) == IF k \in Optional THEN "integration" ELSE "no"

Migrated(entry) == [entry EXCEPT !.version = Version]

(* An entry of a newer release is refused.                                 *)
Migratable(entry) == entry # NoEntry /\ entry.version <= Version

(* Nothing is awaited: both stores change at once, in memory.              *)
SetUp(a) ==
    /\ a \notin setup /\ Migratable(entries[a])
    /\ entries' = [entries EXCEPT ![a] = Migrated(@)]
    /\ disabler' = [disabler EXCEPT ![a] = [k \in Keys |->
                      CASE @[k] = "absent" -> Default(k)
                        [] Promotes(k, entries[a].version, @[k]) -> "no"
                        [] OTHER -> @[k]]]
    /\ setup' = setup \cup {a}
    /\ UNCHANGED <<at, choice, saved>>

-----------------------------------------------------------------------------
(* The user flows.  Several may validate the same account.                 *)

Begins(f) ==
    /\ at[f] = "none"
    /\ at' = [at EXCEPT ![f] = "validating"]
    /\ UNCHANGED <<entries, disabler, setup, choice, saved>>

Rejected(f) ==
    /\ at[f] = "validating"
    /\ at' = [at EXCEPT ![f] = "none"]
    /\ UNCHANGED <<entries, disabler, setup, choice, saved>>

Validated(f, a) ==
    /\ at[f] = "validating"
    /\ at' = [at EXCEPT ![f] = a]
    /\ UNCHANGED <<entries, disabler, setup, choice, saved>>

MutantConfigured(a) == FALSE

(* _abort_if_unique_id_configured *)
Configured(a) == entries[a] # NoEntry

(* Nothing is awaited between the check and the new entry.  An entry with  *)
(* the same unique id would be replaced.                                   *)
Creates(f) ==
    /\ at[f] \in Accounts /\ ~Configured(at[f])
    /\ entries' = [entries EXCEPT ![at[f]] = [version |-> Version, by |-> f]]
    /\ setup' = setup \ {at[f]}
    /\ at' = [at EXCEPT ![f] = "none"]
    /\ UNCHANGED <<disabler, choice, saved>>

Aborts(f) ==
    /\ at[f] \in Accounts /\ Configured(at[f])
    /\ at' = [at EXCEPT ![f] = "none"]
    /\ UNCHANGED <<entries, disabler, setup, choice, saved>>

-----------------------------------------------------------------------------
(* The user and Home Assistant.                                            *)

Decide(a, k, c, d) ==
    /\ disabler[a][k] # "absent"
    /\ choice' = [choice EXCEPT ![a][k] = c]
    /\ disabler' = [disabler EXCEPT ![a][k] = d]
    /\ UNCHANGED <<entries, setup, at, saved>>

Enables(a, k)  == Decide(a, k, "enabled", "no")
Disables(a, k) == Decide(a, k, "disabled", "user")

(* Removing an entry removes its entities, and what was decided of them.   *)
Removes(a) ==
    /\ entries[a] # NoEntry
    /\ entries' = [entries EXCEPT ![a] = NoEntry]
    /\ disabler' = [disabler EXCEPT ![a] = [k \in Keys |-> "absent"]]
    /\ choice' = [choice EXCEPT ![a] = [k \in Keys |-> "none"]]
    /\ setup' = setup \ {a}
    /\ UNCHANGED <<at, saved>>

SaveEntries ==
    /\ saved' = [saved EXCEPT !.entries = entries]
    /\ UNCHANGED <<entries, disabler, setup, at, choice>>

SaveEntities ==
    /\ saved' = [saved EXCEPT !.disabler = disabler, !.choice = choice]
    /\ UNCHANGED <<entries, disabler, setup, at, choice>>

(* A stop, orderly or not, and a start from what the stores hold.          *)
Restart ==
    /\ entries' = saved.entries
    /\ disabler' = saved.disabler
    /\ choice' = saved.choice
    /\ setup' = {}
    /\ at' = [f \in Flows |-> "none"]
    /\ UNCHANGED saved

-----------------------------------------------------------------------------
FlowStep(f) ==
    \/ Begins(f)
    \/ Rejected(f)
    \/ \E a \in Accounts : Validated(f, a)
    \/ Creates(f)
    \/ Aborts(f)

UserStep(a) ==
    \/ \E k \in Keys : Enables(a, k) \/ Disables(a, k)
    \/ Removes(a)

Next ==
    \/ \E a \in Accounts : SetUp(a) \/ UserStep(a)
    \/ \E f \in Flows : FlowStep(f)
    \/ SaveEntries
    \/ SaveEntities
    \/ Restart

Spec == Init /\ [][Next]_vars

-----------------------------------------------------------------------------
(* "user-disabled entities stay disabled" (CHANGELOG.md:103): whatever the *)
(* user has decided about an entity stands, and one that was not promoted  *)
(* keeps its default, however often an interrupted migration is repeated.  *)
UserChoiceKept ==
    \A a \in Accounts : \A k \in Keys :
      /\ choice[a][k] = "disabled" => disabler[a][k] = "user"
      /\ choice[a][k] = "enabled"  => disabler[a][k] = "no"
      /\ choice[a][k] = "none" /\ k \in Optional => disabler[a][k] \in {"absent", "integration"}

(* While an account has an entry no flow puts another in its place, even   *)
(* one that was validating when the entry appeared; its version never goes *)
(* back; one of a newer release is neither changed nor set up              *)
(* (config_flow.py:160-161, 192-193, __init__.py:74).                      *)
EntriesAreKept ==
    [][ ~Restart =>
          \A a \in Accounts :
            entries[a] # NoEntry /\ entries'[a] # NoEntry =>
              /\ entries'[a].by = entries[a].by
              /\ entries'[a].version >= entries[a].version
              /\ entries[a].version > Version => entries'[a] = entries[a] /\ a \notin setup' ]_vars
=============================================================================
