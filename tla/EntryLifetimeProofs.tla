------------------------ MODULE EntryLifetimeProofs ------------------------
(***************************************************************************)
(* What EntryLifetime guarantees for any accounts, flows and keys.         *)
(***************************************************************************)
EXTENDS EntryLifetime, TLAPS

(* UserChoiceKept of any pair of entity rows: it also holds of what the    *)
(* store has, which a restart brings back.                                 *)
Kept(chosen, by) ==
    \A a \in Accounts : \A k \in Keys :
      /\ chosen[a][k] = "disabled" => by[a][k] = "user"
      /\ chosen[a][k] = "enabled"  => by[a][k] = "no"
      /\ chosen[a][k] = "none" /\ k \in Optional => by[a][k] \in {"absent", "integration"}

(* What has been set up is of this release. *)
SetUpIsCurrent ==
    \A a \in setup : entries[a] # NoEntry /\ entries[a].version = Version

Stored == Kept(saved.choice, saved.disabler)

IInv == TypeOK /\ UserChoiceKept /\ Stored /\ SetUpIsCurrent

-----------------------------------------------------------------------------
LEMMA KeptIsChoice == UserChoiceKept <=> Kept(choice, disabler)
  BY DEF UserChoiceKept, Kept

LEMMA InitInv == Init => IInv
  <1> SUFFICES ASSUME Init PROVE IInv
    OBVIOUS
  <1> USE DEF Init
  <1>1. ASSUME NEW a \in Accounts, NEW k \in Keys
        PROVE  /\ choice[a][k] \in Choices
               /\ choice[a][k] = "disabled" => disabler[a][k] = "user"
               /\ choice[a][k] = "enabled"  => disabler[a][k] = "no"
               /\ choice[a][k] = "none" /\ k \in Optional
                    => disabler[a][k] \in {"absent", "integration"}
    <2>1. CASE entries[a] = NoEntry
      BY <2>1 DEF Choices
    <2>2. CASE entries[a] # NoEntry
      <3>1. choice[a][k] = ChoiceIn(entries[a].version, k, disabler[a][k])
        BY <2>2
      <3>2. disabler[a][k] \in Disablers
        BY DEF Rows
      <3> QED
        BY <3>1, <3>2 DEF ChoiceIn, Choices, Disablers
    <2> QED
      BY <2>1, <2>2
  <1>2. entries \in [Accounts -> Entries \cup {NoEntry}]
    BY DEF Entries
  <1>3. choice \in Rows(Choices)
    BY <1>1 DEF Rows
  <1>4. TypeOK
    BY <1>2, <1>3 DEF TypeOK
  <1>5. Kept(choice, disabler)
    BY <1>1 DEF Kept
  <1> QED
    BY <1>4, <1>5, KeptIsChoice DEF IInv, Stored, SetUpIsCurrent

(* Migration, and the entities the platforms register. *)
LEMMA SetUpInv ==
    ASSUME IInv, NEW a \in Accounts, SetUp(a)
    PROVE  IInv'
  <1> USE DEF SetUp
  <1>1. entries[a] \in Entries
    BY DEF IInv, TypeOK, Migratable
  <1>2. Migrated(entries[a]) \in Entries /\ Migrated(entries[a]).version = Version
    BY <1>1 DEF Migrated, Entries, Versions, Version
  <1>3. ASSUME NEW b \in Accounts, NEW k \in Keys
        PROVE  /\ disabler'[b][k] \in Disablers
               /\ choice[b][k] = "disabled" => disabler'[b][k] = "user"
               /\ choice[b][k] = "enabled"  => disabler'[b][k] = "no"
               /\ choice[b][k] = "none" /\ k \in Optional
                    => disabler'[b][k] \in {"absent", "integration"}
    <2>1. /\ disabler[b][k] \in Disablers
          /\ choice[b][k] = "disabled" => disabler[b][k] = "user"
          /\ choice[b][k] = "enabled"  => disabler[b][k] = "no"
          /\ choice[b][k] = "none" /\ k \in Optional
               => disabler[b][k] \in {"absent", "integration"}
      BY DEF IInv, TypeOK, UserChoiceKept, Rows
    <2>2. CASE b # a
      BY <2>1, <2>2 DEF IInv, TypeOK, Rows
    <2>3. CASE b = a
      <3>1. disabler'[a][k] =
              CASE disabler[a][k] = "absent" -> Default(k)
                [] Promotes(k, entries[a].version, disabler[a][k]) -> "no"
                [] OTHER -> disabler[a][k]
        BY DEF IInv, TypeOK, Rows
      <3> HIDE DEF SetUp
      <3>2. CASE disabler[a][k] = "absent"
        <4>1. disabler'[a][k] = Default(k)
          BY <3>1, <3>2 DEF Promotes
        <4>2. Default(k) \in Disablers /\ (k \in Optional => Default(k) = "integration")
          BY DEF Default, Disablers
        <4> QED
          BY <2>1, <2>3, <3>2, <4>1, <4>2
      <3>3. CASE Promotes(k, entries[a].version, disabler[a][k])
        BY <2>1, <2>3, <3>1, <3>3, LifetimeAssumption DEF Promotes, Disablers
      <3>4. CASE disabler[a][k] # "absent" /\ ~Promotes(k, entries[a].version, disabler[a][k])
        BY <2>1, <2>3, <3>1, <3>4
      <3> QED
        BY <3>2, <3>3, <3>4
    <2> QED
      BY <2>2, <2>3
  <1>4. disabler' \in Rows(Disablers)
    <2>1. disabler' \in [Accounts -> [Keys -> Disablers]]
      BY <1>3 DEF IInv, TypeOK, Rows
    <2> QED
      BY <2>1 DEF Rows
  <1>5. TypeOK'
    BY <1>2, <1>4 DEF IInv, TypeOK
  <1>6. UserChoiceKept'
    BY <1>3 DEF UserChoiceKept
  <1>7. Stored'
    BY DEF IInv, Stored
  <1>8. SetUpIsCurrent'
    BY <1>1, <1>2, LifetimeAssumption DEF IInv, TypeOK, SetUpIsCurrent
  <1> QED
    BY <1>5, <1>6, <1>7, <1>8 DEF IInv

(* A flow touches no entity, and only an account that has no entry.        *)
LEMMA FlowInv ==
    ASSUME IInv, NEW f \in Flows, FlowStep(f)
    PROVE  IInv'
  <1>1. UNCHANGED <<disabler, choice, saved>>
    BY DEF FlowStep, Begins, Rejected, Validated, Creates, Aborts
  <1>2. UserChoiceKept' /\ Stored'
    BY <1>1 DEF IInv, UserChoiceKept, Stored
  <1>3. CASE Creates(f)
    <2>1. [version |-> Version, by |-> f] \in Entries
      BY DEF Entries, Versions, Version
    <2>2. TypeOK' /\ SetUpIsCurrent'
      BY <1>3, <2>1 DEF Creates, IInv, TypeOK, SetUpIsCurrent
    <2> QED
      BY <1>2, <2>2 DEF IInv
  <1>4. CASE ~Creates(f)
    <2>1. /\ UNCHANGED <<entries, setup>>
          /\ at' \in [Flows -> {"none", "validating"} \cup Accounts]
      BY <1>4 DEF FlowStep, Begins, Rejected, Validated, Aborts, IInv, TypeOK
    <2>2. TypeOK' /\ SetUpIsCurrent'
      BY <1>1, <2>1 DEF IInv, TypeOK, SetUpIsCurrent
    <2> QED
      BY <1>2, <2>2 DEF IInv
  <1> QED
    BY <1>3, <1>4

LEMMA DecideInv ==
    ASSUME IInv, NEW a \in Accounts, NEW k \in Keys,
           NEW c, NEW d, <<c, d>> \in {<<"enabled", "no">>, <<"disabled", "user">>},
           Decide(a, k, c, d)
    PROVE  IInv'
  <1> USE DEF Decide
  <1>1. c \in Choices /\ d \in Disablers
    BY DEF Choices, Disablers
  <1>2. TypeOK'
    BY <1>1 DEF IInv, TypeOK, Rows
  <1>3. ASSUME NEW b \in Accounts, NEW j \in Keys
        PROVE  /\ choice'[b][j] = IF b = a /\ j = k THEN c ELSE choice[b][j]
               /\ disabler'[b][j] = IF b = a /\ j = k THEN d ELSE disabler[b][j]
    BY DEF IInv, TypeOK, Rows
  <1>4. UserChoiceKept'
    BY <1>3 DEF IInv, UserChoiceKept
  <1> QED
    BY <1>2, <1>4 DEF IInv, Stored, SetUpIsCurrent

LEMMA RemovesInv ==
    ASSUME IInv, NEW a \in Accounts, Removes(a)
    PROVE  IInv'
  <1> USE DEF Removes
  <1>1. TypeOK'
    BY DEF IInv, TypeOK, Rows, Disablers, Choices
  <1>2. UserChoiceKept'
    BY DEF IInv, TypeOK, Rows, UserChoiceKept
  <1>3. Stored' /\ SetUpIsCurrent'
    BY DEF IInv, TypeOK, Stored, SetUpIsCurrent
  <1> QED
    BY <1>1, <1>2, <1>3 DEF IInv

(* Saving and starting again. *)
LEMMA StoreInv ==
    ASSUME IInv, SaveEntries \/ SaveEntities \/ Restart
    PROVE  IInv'
  <1>1. CASE SaveEntries
    BY <1>1 DEF SaveEntries, IInv, TypeOK, UserChoiceKept, Stored, SetUpIsCurrent
  <1>2. CASE SaveEntities
    BY <1>2, KeptIsChoice DEF SaveEntities, IInv, TypeOK, UserChoiceKept, Stored, SetUpIsCurrent
  <1>3. CASE Restart
    <2>1. TypeOK'
      BY <1>3 DEF Restart, IInv, TypeOK
    <2>2. UserChoiceKept' /\ Stored'
      BY <1>3 DEF Restart, IInv, UserChoiceKept, Stored, Kept
    <2> QED
      BY <1>3, <2>1, <2>2 DEF Restart, IInv, SetUpIsCurrent
  <1> QED
    BY <1>1, <1>2, <1>3

LEMMA NextInv == IInv /\ [Next]_vars => IInv'
  <1> SUFFICES ASSUME IInv, [Next]_vars PROVE IInv'
    OBVIOUS
  <1>1. ASSUME NEW a \in Accounts, SetUp(a) PROVE IInv'
    BY <1>1, SetUpInv
  <1>2. ASSUME NEW a \in Accounts, UserStep(a) PROVE IInv'
    BY <1>2, DecideInv, RemovesInv DEF UserStep, Enables, Disables
  <1>3. ASSUME NEW f \in Flows, FlowStep(f) PROVE IInv'
    BY <1>3, FlowInv
  <1>4. CASE SaveEntries \/ SaveEntities \/ Restart
    BY <1>4, StoreInv
  <1>5. CASE UNCHANGED vars
    BY <1>5 DEF vars, IInv, TypeOK, UserChoiceKept, Stored, SetUpIsCurrent
  <1> QED
    BY <1>1, <1>2, <1>3, <1>4, <1>5 DEF Next

LEMMA InvariantHolds == Spec => []IInv
  BY InitInv, NextInv, PTL DEF Spec

-----------------------------------------------------------------------------
(* Every variable keeps its type. *)
THEOREM TypeCorrect == Spec => []TypeOK
  <1>1. IInv => TypeOK
    BY DEF IInv
  <1> QED
    BY <1>1, InvariantHolds, PTL

(* However often a migration is interrupted, reverted and repeated, every  *)
(* entity is as the user last decided (__init__.py:76-89).                 *)
THEOREM UserChoiceHolds == Spec => []UserChoiceKept
  <1>1. IInv => UserChoiceKept
    BY DEF IInv
  <1> QED
    BY <1>1, InvariantHolds, PTL

(* EntriesAreKept, as what a step that is no restart does.                 *)
KeepsEntries ==
    ~Restart =>
      \A a \in Accounts :
        entries[a] # NoEntry /\ entries'[a] # NoEntry =>
          /\ entries'[a].by = entries[a].by
          /\ entries'[a].version >= entries[a].version
          /\ entries[a].version > Version => entries'[a] = entries[a] /\ a \notin setup'

LEMMA StepKeepsEntries == IInv /\ [Next]_vars => KeepsEntries
  <1> SUFFICES ASSUME IInv, [Next]_vars, ~Restart,
                      NEW a \in Accounts, entries[a] # NoEntry, entries'[a] # NoEntry
               PROVE  /\ entries'[a].by = entries[a].by
                      /\ entries'[a].version >= entries[a].version
                      /\ entries[a].version > Version
                           => entries'[a] = entries[a] /\ a \notin setup'
    BY DEF KeepsEntries
  <1>1. entries[a] \in Entries /\ (a \in setup => entries[a].version = Version)
    BY DEF IInv, TypeOK, SetUpIsCurrent
  <1>2. entries[a].version \in Int
    BY <1>1 DEF Entries, Versions, Version
  <1>3. CASE entries'[a] = entries[a] /\ setup' \subseteq setup
    BY <1>1, <1>2, <1>3 DEF Version
  <1>4. CASE SetUp(a)
    <2>1. entries[a].version <= Version /\ entries'[a] = Migrated(entries[a])
      BY <1>4 DEF SetUp, Migratable, IInv, TypeOK
    <2>2. entries'[a].version = Version /\ entries'[a].by = entries[a].by
      BY <1>1, <2>1 DEF Migrated, Entries
    <2> QED
      BY <1>2, <2>1, <2>2 DEF Version
  <1>5. CASE ~SetUp(a)
    <2>1. ASSUME NEW b \in Accounts, SetUp(b)
          PROVE  entries'[a] = entries[a] /\ (a \in setup' => a \in setup)
      <3>1. b # a
        BY <1>5, <2>1
      <3> QED
        BY <2>1, <3>1 DEF SetUp, IInv, TypeOK
    <2>2. ASSUME NEW b \in Accounts, UserStep(b)
          PROVE  entries'[a] = entries[a] /\ setup' \subseteq setup
      BY <2>2 DEF UserStep, Enables, Disables, Decide, Removes, IInv, TypeOK
    <2>3. ASSUME NEW f \in Flows, FlowStep(f)
          PROVE  entries'[a] = entries[a] /\ setup' \subseteq setup
      BY <2>3 DEF FlowStep, Begins, Rejected, Validated, Creates, Aborts, Configured,
                  IInv, TypeOK
    <2>4. CASE SaveEntries \/ SaveEntities \/ UNCHANGED vars
      BY <1>3, <2>4 DEF SaveEntries, SaveEntities, vars
    <2>5. ASSUME entries'[a] = entries[a], a \in setup' => a \in setup
          PROVE  entries[a].version > Version => a \notin setup'
      BY <1>1, <1>2, <2>5 DEF Version
    <2> QED
      BY <1>2, <2>1, <2>2, <2>3, <2>4, <2>5, <1>3 DEF Next
  <1> QED
    BY <1>4, <1>5

(* No flow replaces an entry, no version goes back and an entry of a newer *)
(* release is left alone.                                                  *)
THEOREM EntriesStay == Spec => EntriesAreKept
  <1>1. IInv /\ [Next]_vars => [KeepsEntries]_vars
    BY StepKeepsEntries
  <1> QED
    BY <1>1, InvariantHolds, PTL DEF Spec, EntriesAreKept, KeepsEntries
=============================================================================
