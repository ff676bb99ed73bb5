------------------------------- MODULE Polling -------------------------------
(***************************************************************************)
(* When the coordinators of a loaded entry poll, and when they stop.  Each *)
(* refreshes at its own interval, later if the service asked for it with a *)
(* 429, and never again by itself after a 401 until the user authorizes    *)
(* again; the user may refresh either at any time (coordinator.py,         *)
(* topology.py).  Timers, overlapping refreshes and reauthentication flows *)
(* are Home Assistant's.                                                   *)
(*                                                                         *)
(* Time is relative: a timer is what is left of a wait, in units that      *)
(* divide both intervals.                                                  *)
(***************************************************************************)
EXTENDS ApiErrors

CONSTANTS Coordinators,  \* "peers" and "topology"
          Interval,      \* [Coordinators -> Nat], UPDATE_INTERVAL_SECONDS
          Headers,       \* values a Retry-After header may have
          Off,           \* no refresh is scheduled, no wait is owed
          None           \* a date without a zone

(* A Retry-After header: a number of seconds; a date, as what its clock    *)
(* reads relative to the one of UTC, and how far its zone is ahead of UTC; *)
(* or none of these - missing, empty, a sign or a fraction, a text that is *)
(* no date, a number that is infinite as a float.                          *)
SecondsHeaders == [form : {"seconds"}, value : Nat]
DateHeaders    == [form : {"date"}, reads : Int, zone : Int \cup {None}]
OtherHeaders   == [form : {"unusable"}]

ASSUME IntervalAssumption == Interval \in [Coordinators -> Nat \ {0}]
ASSUME HeaderAssumption ==
    /\ Headers \subseteq SecondsHeaders \cup DateHeaders \cup OtherHeaders
    /\ Off \notin Nat /\ None \notin Int

Kinds == {"scheduled", "manual"}

VARIABLES
    timer,    \* what is left until the scheduled refresh, Off
    polls,    \* refreshes in flight
    reauth,   \* a reauthentication flow of the entry is in progress
    owed,     \* history: how long the service must be left alone
    refused   \* history: the last refresh to end was answered with a 401

vars == <<timer, polls, reauth, owed, refused>>

TypeOK ==
    /\ timer \in [Coordinators -> Nat \cup {Off}]
    /\ polls \in [Coordinators -> SUBSET Kinds]
    /\ reauth \in BOOLEAN
    /\ owed \in [Coordinators -> Nat]
    /\ refused \in [Coordinators -> BOOLEAN]

Larger(a, b) == IF a > b THEN a ELSE b

-----------------------------------------------------------------------------
MutantRetryDelay(h, minimum) ==
    CASE h.form = "seconds"  -> h.value
      [] h.form = "date"     -> Larger(0, h.reads - (IF h.zone = None THEN 0 ELSE h.zone))
      [] h.form = "unusable" -> minimum

(* retry_delay: a date without a zone is read as UTC. *)
RetryDelay(h, minimum) ==
    CASE h.form = "seconds"  -> Larger(minimum, h.value)
      [] h.form = "date"     ->
            Larger(minimum, h.reads - (IF h.zone = None THEN 0 ELSE h.zone))
      [] h.form = "unusable" -> minimum

(* _schedule_refresh, with the deferral of the refresh that just ended.    *)
Wait(c, e, h) ==
    IF Handle(PollClauses, e) = "deferred" THEN RetryDelay(h, Interval[c]) ELSE Interval[c]

(* What the service asked for: a 429 with a valid header, for the longer   *)
(* of the delay it names and the interval; anything else, for nothing.     *)
Asked(c, e, h) ==
    IF e # "RateLimit" \/ h.form = "unusable" THEN Interval[c]
    ELSE LET until == IF h.form = "seconds" THEN h.value
                      ELSE IF h.zone = None THEN h.reads ELSE h.reads - h.zone
         IN  IF until < Interval[c] THEN Interval[c] ELSE until

(* Setup: the first refresh of peers succeeded, that of the topology ended *)
(* with e; the entities then listen, which schedules a refresh of both.    *)
SetUp(e, h) ==
    LET ends == [c \in Coordinators |-> IF c = "topology" THEN e ELSE "none"]
    IN  /\ timer' = [c \in Coordinators |-> Wait(c, ends[c], h)]
        /\ owed' = [c \in Coordinators |-> Asked(c, ends[c], h)]
        /\ polls' = [c \in Coordinators |-> {}]
        /\ refused' = [c \in Coordinators |-> FALSE]
        /\ reauth' = (Handle(PollClauses, e) = "reauth")

Init ==
    /\ timer = Interval /\ owed = Interval
    /\ polls = [c \in Coordinators |-> {}]
    /\ refused = [c \in Coordinators |-> FALSE]
    /\ reauth = FALSE

-----------------------------------------------------------------------------
Tick ==
    /\ \E c \in Coordinators : timer[c] \notin {0, Off} \/ owed[c] > 0
    /\ timer' = [c \in Coordinators |->
                   IF timer[c] \in {0, Off} THEN timer[c] ELSE timer[c] - 1]
    /\ owed' = [c \in Coordinators |-> IF owed[c] = 0 THEN 0 ELSE owed[c] - 1]
    /\ UNCHANGED <<polls, reauth, refused>>

(* A refresh begins with cancelling the timer.  There is at most one of    *)
(* each kind: requests time out before the next one is due, and manual     *)
(* refreshes are debounced.                                                *)
Begins(c, kind) ==
    /\ kind \notin polls[c]
    /\ timer' = [timer EXCEPT ![c] = Off]
    /\ polls' = [polls EXCEPT ![c] = @ \cup {kind}]
    /\ UNCHANGED <<reauth, owed, refused>>

Due(c)           == timer[c] = 0 /\ Begins(c, "scheduled")
UserRefreshes(c) == Begins(c, "manual")

(* _async_update_data ends with e.  Home Assistant schedules the next      *)
(* refresh, after a failure too, unless the update asked for               *)
(* reauthentication; a timer that another refresh has set stays then.      *)
Ends(c, kind, e, h) ==
    LET unauthorized == Handle(PollClauses, e) = "reauth"
    IN  /\ kind \in polls[c]
        /\ polls' = [polls EXCEPT ![c] = @ \ {kind}]
        /\ timer' = IF unauthorized THEN timer ELSE [timer EXCEPT ![c] = Wait(c, e, h)]
        /\ reauth' = (reauth \/ unauthorized)
        /\ owed' = IF e = "Authentication" THEN owed
                   ELSE [owed EXCEPT ![c] = Asked(c, e, h)]
        /\ refused' = [refused EXCEPT ![c] = (e = "Authentication")]

(* The flow ends: the new token was stored and the entry is reloaded, or   *)
(* it was refused (for another account) and nothing else changes.          *)
Authorized(e, h) == reauth /\ SetUp(e, h)

Unauthorized == reauth /\ reauth' = FALSE /\ UNCHANGED <<timer, polls, owed, refused>>

-----------------------------------------------------------------------------
(* What a refresh may end with: only a 429 comes with a header.            *)
Unheaded == [form |-> "unusable"]
EndsSomehow(c) ==
    \E kind \in Kinds, e \in Errors \cup {"none"} :
      \E h \in (IF e = "RateLimit" THEN Headers ELSE {Unheaded}) : Ends(c, kind, e, h)

ReloadsSomehow ==
    \E e \in Errors \cup {"none"} :
      \E h \in (IF e = "RateLimit" THEN Headers ELSE {Unheaded}) : Authorized(e, h)

Next ==
    \/ Tick
    \/ \E c \in Coordinators : Due(c) \/ UserRefreshes(c) \/ EndsSomehow(c)
    \/ ReloadsSomehow
    \/ Unauthorized

Spec == Init /\ [][Next]_vars

(* Time passes, a timer that is due fires, a request has a timeout.        *)
Fairness ==
    /\ WF_vars(Tick)
    /\ \A c \in Coordinators : WF_vars(Due(c)) /\ WF_vars(EndsSomehow(c))

FairSpec == Spec /\ Fairness

-----------------------------------------------------------------------------
(* "HTTP 429 defers the affected coordinator using a valid Retry-After     *)
(* delay or HTTP date, never earlier than its normal polling interval"     *)
(* (README.md:110): whatever refreshes overlap, the next scheduled one     *)
(* waits for exactly what the last answer asked for, no less and no more.  *)
WaitIsAsked ==
    \A c \in Coordinators : timer[c] \in {Off, owed[c]}

(* Whatever a refresh fails with, the coordinator polls again by itself.   *)
(* Only a 401 silences it: neither a 403 nor any other answer is taken for *)
(* an expired token (README.md:81, coordinator.py:86-106).  A reload polls *)
(* too, but sets the timers anew: it must not happen over and over.        *)
PollingGoesOn ==
    <>[][~ReloadsSomehow]_vars =>
      \A c \in Coordinators : ~refused[c] ~> polls[c] # {}
=============================================================================
