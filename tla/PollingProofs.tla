---------------------------- MODULE PollingProofs ----------------------------
(***************************************************************************)
(* What Polling guarantees for any coordinators, intervals and headers.    *)
(***************************************************************************)
EXTENDS Polling, TLAPS

Ended == Errors \cup {"none"}

IInv == TypeOK /\ WaitIsAsked

-----------------------------------------------------------------------------
(* Except clauses: the first one that catches an error handles it.         *)
LEMMA FirstClauseHandles ==
    ASSUME NEW clauses, NEW e, e # "none",
           DOMAIN clauses \subseteq Nat,
           NEW i \in DOMAIN clauses, e \in clauses[i].catches,
           \A j \in 1..(i - 1) : e \notin clauses[j].catches,
           \A j \in DOMAIN clauses : j >= 1
    PROVE  Handle(clauses, e) = clauses[i].does
  <1> DEFINE First(k) == /\ e \in clauses[k].catches
                         /\ \A j \in 1..(k - 1) : e \notin clauses[j].catches
  <1>1. ASSUME NEW k \in DOMAIN clauses, First(k) PROVE k = i
    <2>1. k \in Nat /\ i \in Nat /\ k >= 1 /\ i >= 1
      OBVIOUS
    <2>2. ~(k < i) /\ ~(i < k)
      BY <1>1, <2>1
    <2> QED
      BY <2>1, <2>2
  <1>2. (CHOOSE k \in DOMAIN clauses : First(k)) = i
    BY <1>1
  <1> QED
    BY <1>2 DEF Handle

(* The coordinators take a 401, and nothing else, for an expired token,    *)
(* and a 429, and nothing else, for a request to wait.                     *)
THEOREM PollsAreClassified ==
    \A e \in Ended :
      /\ Handle(PollClauses, e) = "reauth" <=> e = "Authentication"
      /\ Handle(PollClauses, e) = "deferred" <=> e = "RateLimit"
  <1> SUFFICES ASSUME NEW e \in Ended
               PROVE  /\ Handle(PollClauses, e) = "reauth" <=> e = "Authentication"
                      /\ Handle(PollClauses, e) = "deferred" <=> e = "RateLimit"
    OBVIOUS
  <1> DEFINE Catches(i) == PollClauses[i].catches
  <1>1. DOMAIN PollClauses = 1..6
    BY DEF PollClauses
  <1>2. /\ Catches(1) = {"Authentication"} /\ Catches(2) = {"Permission"}
        /\ Catches(3) = Datas /\ Catches(4) = {"RateLimit"}
        /\ Catches(5) = Updates /\ Catches(6) = Errors
    BY DEF PollClauses, Clause
  <1>3. /\ PollClauses[1].does = "reauth" /\ PollClauses[2].does = "insufficient_permissions"
        /\ PollClauses[3].does = "invalid_response" /\ PollClauses[4].does = "deferred"
        /\ PollClauses[5].does = "cannot_connect" /\ PollClauses[6].does = "unknown"
    BY DEF PollClauses, Clause
  <1>4. ASSUME NEW i \in 1..6, e # "none", e \in Catches(i),
               \A j \in 1..(i - 1) : e \notin Catches(j)
        PROVE  Handle(PollClauses, e) = PollClauses[i].does
    BY <1>1, <1>4, FirstClauseHandles
  <1>5. CASE e = "none"
    BY <1>5 DEF Handle
  <1>6. CASE e = "Authentication"
    <2>1. Handle(PollClauses, e) = PollClauses[1].does
      BY <1>2, <1>4, <1>6
    <2> QED
      BY <1>3, <1>6, <2>1
  <1>7. CASE e = "RateLimit"
    <2>1. /\ e \notin Catches(1) /\ e \notin Catches(2) /\ e \notin Catches(3)
          /\ e \in Catches(4)
      BY <1>2, <1>7 DEF Datas
    <2>2. Handle(PollClauses, e) = PollClauses[4].does
      BY <1>4, <1>7, <2>1
    <2> QED
      BY <1>3, <1>7, <2>2
  <1>8. CASE e \notin {"none", "Authentication", "RateLimit"}
    <2>1. e \notin Catches(1) /\ e \notin Catches(4) /\ e \in Catches(6)
      BY <1>2, <1>8 DEF Ended
    <2>2. CASE e \in Catches(2)
      BY <1>3, <1>4, <1>8, <2>1, <2>2
    <2>3. CASE e \notin Catches(2) /\ e \in Catches(3)
      BY <1>3, <1>4, <1>8, <2>1, <2>3
    <2>4. CASE e \notin Catches(2) /\ e \notin Catches(3) /\ e \in Catches(5)
      BY <1>3, <1>4, <1>8, <2>1, <2>4
    <2>5. CASE e \notin Catches(2) /\ e \notin Catches(3) /\ e \notin Catches(5)
      BY <1>3, <1>4, <1>8, <2>1, <2>5
    <2> QED
      BY <2>2, <2>3, <2>4, <2>5
  <1> QED
    BY <1>5, <1>6, <1>7, <1>8

(* The scheduled refresh waits for what the service asked for, which is    *)
(* never less than the interval.                                           *)
LEMMA WaitsAsAsked ==
    ASSUME NEW c \in Coordinators, NEW e \in Ended, NEW h \in Headers \cup {Unheaded}
    PROVE  /\ Wait(c, e, h) = Asked(c, e, h)
           /\ Wait(c, e, h) \in Nat
           /\ Wait(c, e, h) >= Interval[c]
  <1>1. Interval[c] \in Nat
    BY IntervalAssumption
  <1>2. CASE e # "RateLimit"
    BY <1>1, <1>2, PollsAreClassified DEF Wait, Asked
  <1>3. CASE e = "RateLimit"
    <2>1. Wait(c, e, h) = RetryDelay(h, Interval[c])
      BY <1>3, PollsAreClassified DEF Wait
    <2>2. CASE h.form = "unusable"
      BY <1>1, <1>3, <2>1, <2>2 DEF RetryDelay, Asked
    <2>3. CASE h \in SecondsHeaders
      BY <1>1, <1>3, <2>1, <2>3 DEF SecondsHeaders, RetryDelay, Asked, Larger
    <2>4. CASE h \in DateHeaders
      <3>1. h.form = "date" /\ h.reads \in Int /\ h.zone \in Int \cup {None}
        BY <2>4 DEF DateHeaders
      <3> QED
        BY <1>1, <1>3, <2>1, <3>1 DEF RetryDelay, Asked, Larger
    <2> QED
      BY <2>2, <2>3, <2>4, HeaderAssumption DEF OtherHeaders, Unheaded
  <1> QED
    BY <1>2, <1>3

-----------------------------------------------------------------------------
LEMMA InitInv == Init => IInv
  BY IntervalAssumption DEF Init, IInv, TypeOK, WaitIsAsked

LEMMA TickInv == IInv /\ Tick => IInv'
  <1> SUFFICES ASSUME IInv, Tick PROVE IInv'
    OBVIOUS
  <1>1. ASSUME NEW c \in Coordinators
        PROVE  /\ timer'[c] = IF timer[c] \in {0, Off} THEN timer[c] ELSE timer[c] - 1
               /\ owed'[c] = IF owed[c] = 0 THEN 0 ELSE owed[c] - 1
               /\ timer[c] \in Nat \cup {Off} /\ owed[c] \in Nat
               /\ timer[c] \in {Off, owed[c]}
    BY DEF Tick, IInv, TypeOK, WaitIsAsked
  <1>2. ASSUME NEW c \in Coordinators
        PROVE  /\ timer'[c] \in Nat \cup {Off} /\ owed'[c] \in Nat
               /\ timer'[c] \in {Off, owed'[c]}
    <2>1. CASE timer[c] = Off
      BY <1>1, <2>1
    <2>2. CASE timer[c] # Off
      BY <1>1, <2>2
    <2> QED
      BY <2>1, <2>2
  <1>3. TypeOK'
    BY <1>2 DEF Tick, IInv, TypeOK
  <1> QED
    BY <1>2, <1>3 DEF IInv, WaitIsAsked

LEMMA BeginsInv ==
    ASSUME IInv, NEW c \in Coordinators, NEW kind \in Kinds, Begins(c, kind)
    PROVE  IInv'
  <1>1. TypeOK'
    BY DEF Begins, IInv, TypeOK
  <1>2. WaitIsAsked'
    BY DEF Begins, IInv, TypeOK, WaitIsAsked
  <1> QED
    BY <1>1, <1>2 DEF IInv

LEMMA EndsInv ==
    ASSUME IInv, NEW c \in Coordinators, NEW kind \in Kinds, NEW e \in Ended,
           NEW h \in Headers \cup {Unheaded}, Ends(c, kind, e, h)
    PROVE  IInv'
  <1>1. Handle(PollClauses, e) = "reauth" <=> e = "Authentication"
    BY PollsAreClassified
  <1>2. /\ timer' = IF e = "Authentication" THEN timer ELSE [timer EXCEPT ![c] = Wait(c, e, h)]
        /\ owed' = IF e = "Authentication" THEN owed ELSE [owed EXCEPT ![c] = Asked(c, e, h)]
        /\ polls' = [polls EXCEPT ![c] = @ \ {kind}]
        /\ reauth' = (reauth \/ e = "Authentication")
        /\ refused' = [refused EXCEPT ![c] = (e = "Authentication")]
    BY <1>1 DEF Ends
  <1>3. Wait(c, e, h) = Asked(c, e, h) /\ Wait(c, e, h) \in Nat
    BY WaitsAsAsked
  <1>4. TypeOK'
    BY <1>2, <1>3 DEF IInv, TypeOK
  <1>5. WaitIsAsked'
    BY <1>2, <1>3 DEF IInv, TypeOK, WaitIsAsked
  <1> QED
    BY <1>4, <1>5 DEF IInv

LEMMA AuthorizedInv ==
    ASSUME IInv, NEW e \in Ended, NEW h \in Headers \cup {Unheaded}, Authorized(e, h)
    PROVE  IInv'
  <1> DEFINE end(c) == IF c = "topology" THEN e ELSE "none"
  <1>1. \A c \in Coordinators : end(c) \in Ended
    BY DEF Ended
  <1>2. \A c \in Coordinators : /\ Wait(c, end(c), h) = Asked(c, end(c), h)
                                /\ Wait(c, end(c), h) \in Nat
    BY <1>1, WaitsAsAsked
  <1>3. /\ timer' = [c \in Coordinators |-> Wait(c, end(c), h)]
        /\ owed' = [c \in Coordinators |-> Asked(c, end(c), h)]
        /\ polls' = [c \in Coordinators |-> {}]
        /\ refused' = [c \in Coordinators |-> FALSE]
        /\ reauth' \in BOOLEAN
    BY DEF Authorized, SetUp
  <1> HIDE DEF end
  <1>4. TypeOK'
    BY <1>2, <1>3 DEF TypeOK
  <1>5. WaitIsAsked'
    BY <1>2, <1>3 DEF WaitIsAsked
  <1> QED
    BY <1>4, <1>5 DEF IInv

LEMMA NextInv == IInv /\ [Next]_vars => IInv'
  <1> SUFFICES ASSUME IInv, [Next]_vars PROVE IInv'
    OBVIOUS
  <1>1. CASE Tick
    BY <1>1, TickInv
  <1>2. ASSUME NEW c \in Coordinators, Due(c) \/ UserRefreshes(c) PROVE IInv'
    BY <1>2, BeginsInv DEF Due, UserRefreshes, Kinds
  <1>3. ASSUME NEW c \in Coordinators, EndsSomehow(c) PROVE IInv'
    BY <1>3, EndsInv DEF EndsSomehow, Ended
  <1>4. CASE ReloadsSomehow
    BY <1>4, AuthorizedInv DEF ReloadsSomehow, Ended
  <1>5. CASE Unauthorized
    BY <1>5 DEF Unauthorized, IInv, TypeOK, WaitIsAsked
  <1>6. CASE UNCHANGED vars
    BY <1>6 DEF vars, IInv, TypeOK, WaitIsAsked
  <1> QED
    BY <1>1, <1>2, <1>3, <1>4, <1>5, <1>6 DEF Next

LEMMA InvariantHolds == Spec => []IInv
  BY InitInv, NextInv, PTL DEF Spec

(* Every variable keeps its type. *)
THEOREM TypeCorrect == Spec => []TypeOK
  <1>1. IInv => TypeOK
    BY DEF IInv
  <1> QED
    BY <1>1, InvariantHolds, PTL

(* Whatever refreshes and reloads overlap, a scheduled refresh waits for   *)
(* exactly what the last answer asked for.                                 *)
THEOREM WaitsAreAsked == Spec => []WaitIsAsked
  <1>1. IInv => WaitIsAsked
    BY DEF IInv
  <1> QED
    BY <1>1, InvariantHolds, PTL

-----------------------------------------------------------------------------
(* The state half of PollingGoesOn: a coordinator whose last answer was no *)
(* 401 has a timer set or a refresh in flight, also while its other        *)
(* refresh ends or a reload begins.                                        *)
NeverSilent == \A c \in Coordinators : ~refused[c] => timer[c] # Off \/ polls[c] # {}

LEMMA NeverSilentKept == ASSUME IInv, NeverSilent, [Next]_vars PROVE NeverSilent'
  <1> USE HeaderAssumption
  <1>1. /\ timer \in [Coordinators -> Nat \cup {Off}]
        /\ polls \in [Coordinators -> SUBSET Kinds]
        /\ refused \in [Coordinators -> BOOLEAN]
    BY DEF IInv, TypeOK
  <1>2. CASE Tick
    <2> SUFFICES ASSUME NEW c \in Coordinators, ~refused'[c]
                 PROVE  timer'[c] # Off \/ polls'[c] # {}
      BY DEF NeverSilent
    <2>1. timer'[c] = IF timer[c] \in {0, Off} THEN timer[c] ELSE timer[c] - 1
      BY <1>2 DEF Tick
    <2>2. timer[c] # Off => timer'[c] \in Nat
      BY <1>1, <2>1
    <2> QED
      BY <1>2, <2>2 DEF Tick, NeverSilent
  <1>3. ASSUME NEW c \in Coordinators, Due(c) \/ UserRefreshes(c) PROVE NeverSilent'
    <2> PICK kind \in Kinds : Begins(c, kind)
      BY <1>3 DEF Due, UserRefreshes, Kinds
    <2>1. /\ polls'[c] # {} /\ UNCHANGED refused
          /\ \A d \in Coordinators \ {c} : timer'[d] = timer[d] /\ polls'[d] = polls[d]
      BY <1>1 DEF Begins
    <2> QED
      BY <2>1 DEF NeverSilent
  <1>4. ASSUME NEW c \in Coordinators, EndsSomehow(c) PROVE NeverSilent'
    <2> PICK kind \in Kinds, e \in Ended, h \in Headers \cup {Unheaded} : Ends(c, kind, e, h)
      BY <1>4 DEF EndsSomehow, Ended
    <2>1. Handle(PollClauses, e) = "reauth" <=> e = "Authentication"
      BY PollsAreClassified
    <2>2. Wait(c, e, h) \in Nat
      BY WaitsAsAsked
    <2>3. \A d \in Coordinators \ {c} : /\ timer'[d] = timer[d] /\ polls'[d] = polls[d]
                                        /\ refused'[d] = refused[d]
      BY <1>1 DEF Ends
    <2>4. ~refused'[c] => timer'[c] \in Nat
      BY <1>1, <2>1, <2>2 DEF Ends
    <2> QED
      BY <2>3, <2>4 DEF NeverSilent
  <1>5. CASE ReloadsSomehow
    <2> PICK e \in Ended, h \in Headers \cup {Unheaded} : Authorized(e, h)
      BY <1>5 DEF ReloadsSomehow, Ended
    <2> DEFINE end(c) == IF c = "topology" THEN e ELSE "none"
    <2>1. \A c \in Coordinators : end(c) \in Ended
      BY DEF Ended
    <2>2. \A c \in Coordinators : Wait(c, end(c), h) \in Nat
      BY <2>1, WaitsAsAsked
    <2>3. timer' = [c \in Coordinators |-> Wait(c, end(c), h)]
      BY DEF Authorized, SetUp
    <2> HIDE DEF end
    <2> QED
      BY <2>2, <2>3 DEF NeverSilent
  <1>6. CASE Unauthorized \/ UNCHANGED vars
    BY <1>6 DEF Unauthorized, vars, NeverSilent
  <1> QED
    BY <1>2, <1>3, <1>4, <1>5, <1>6 DEF Next

(* Only a 401 stops a coordinator: after any other failure it will refresh *)
(* again by itself (coordinator.py:86-106, topology.py:88-107, 143-155).   *)
THEOREM OnlyRefusalSilences == Spec => []NeverSilent
  <1>1. Init => NeverSilent
    BY IntervalAssumption, HeaderAssumption DEF Init, NeverSilent
  <1>2. IInv /\ NeverSilent /\ [Next]_vars => NeverSilent'
    BY NeverSilentKept
  <1> QED
    BY <1>1, <1>2, InvariantHolds, PTL DEF Spec
=============================================================================
