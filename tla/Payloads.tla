------------------------------ MODULE Payloads ------------------------------
(***************************************************************************)
(* The JSON bodies of the NetBird API and what the client reads from them  *)
(* (api.py), beside what the live contract script asks of the same bodies  *)
(* (scripts/live_api_contract.py).                                         *)
(*                                                                         *)
(* A field is Absent, Null, Malformed (a JSON value of another type), or   *)
(* holds a value; a list item may be Malformed too (not an object), and so *)
(* may a body (not a list).  One field stands for all those that are read  *)
(* in the same way: a peer has an optional string, an optional boolean and *)
(* an optional timestamp, besides its id and groups.                       *)
(***************************************************************************)
EXTENDS ApiErrors

CONSTANTS Absent, Null, Malformed,
          Texts,            \* strings with a visible character
          Blank,            \* one of the others; the empty string is another
          Slashed,          \* ids with a slash; the others name one path segment,
                            \* so none has a "?" or "#" or consists of dots
          Times,            \* ISO 8601 timestamps with an offset
          Unrepresentable,  \* those of them whose instant is no UTC datetime
          None              \* Python's None

AnyText == Texts \cup {"", Blank}

ASSUME TextAssumption ==
    /\ Blank \notin Texts /\ "" \notin Texts
    /\ Slashed \cup Times \subseteq Texts
    /\ Unrepresentable \subseteq Times
    /\ \A v \in {Absent, Null, Malformed, None} : v \notin AnyText /\ v \notin BOOLEAN
    /\ Malformed \notin {Absent, Null}

-----------------------------------------------------------------------------
(* The bodies that may arrive, given the ids in use.                       *)

Field(values) == {Absent, Null, Malformed} \cup values
Bodies(objects) == {Malformed} \cup Seq({Malformed} \cup objects)

IdField(ids) == Field(ids \cup {"", Blank})

PeerObject(ids) ==
    [id : IdField(ids), name : Field(AnyText), connected : Field(BOOLEAN),
     lastSeen : Field(AnyText), groups : Field(SUBSET Field(AnyText))]

NetworkObject(ids) == [id : IdField(ids), name : Field(AnyText)]

ResourceObject(ids) ==
    [id : IdField(ids), name : Field(AnyText), address : Field(AnyText),
     enabled : Field(BOOLEAN)]

RouterObject ==
    [id : Field(AnyText), enabled : Field(BOOLEAN), peer : Field(AnyText),
     peerGroups : Field(SUBSET ({Malformed} \cup AnyText))]

-----------------------------------------------------------------------------
(* Fields.  Each is described by the error reading it raises, and by its   *)
(* value if none.                                                          *)

Missing(v) == v \in {Absent, Null}

SchemaErrorIf(bad) == IF bad THEN "Schema" ELSE "none"

RequiredError(v) == SchemaErrorIf(Missing(v) \/ v \in {Malformed, Blank, ""})
RequiredBoolError(v) == SchemaErrorIf(Missing(v) \/ v = Malformed)
OptionalError(v) == SchemaErrorIf(v = Malformed)
Optional(v)      == IF Missing(v) THEN None ELSE v

(* A timestamp that is no string, no timestamp or has no offset is None;   *)
(* converting the others to UTC is not guarded.                            *)
OptionalTimestampError(v) == IF v \in Unrepresentable THEN "Unexpected" ELSE "none"

OptionalTimestamp(v) == IF v \in Times THEN v ELSE None

(* A list of strings, as the set of them. *)
StringsError(v) == SchemaErrorIf(~Missing(v) /\ (v = Malformed \/ Malformed \in v))
Strings(v)      == IF Missing(v) THEN {} ELSE v

(* The groups of a peer, as the set of their ids. *)
GroupsError(v) ==
    SchemaErrorIf(~Missing(v) /\ (v = Malformed \/ \E g \in v : RequiredError(g) # "none"))
Groups(v) == Optional(v)

-----------------------------------------------------------------------------
(* Objects and lists.  The first error found is the one raised.            *)

First(positions) == CHOOSE i \in positions : \A j \in positions : i <= j

FirstError(errors) ==
    LET raised == {i \in DOMAIN errors : errors[i] # "none"}
    IN  IF raised = {} THEN "none" ELSE errors[First(raised)]

(* _require_mapping and _require_list, before the errors of what they hold *)
ObjectError(d, errors)   == IF d = Malformed THEN "Schema" ELSE FirstError(errors)
ListError(items, errors) == IF items = Malformed THEN "Schema" ELSE FirstError(errors)

PeerError(d) ==
    ObjectError(d, <<GroupsError(d.groups), RequiredError(d.id), OptionalError(d.name),
                     OptionalError(d.connected), OptionalTimestampError(d.lastSeen)>>)

ParsePeer(d) ==
    [id |-> d.id, name |-> Optional(d.name), connected |-> Optional(d.connected),
     lastSeen |-> OptionalTimestamp(d.lastSeen), groups |-> Groups(d.groups)]

(* Peer ids are unique; network, resource and router ids are not checked.  *)
Same(items, i, j) ==
    items[i] # Malformed /\ items[j] # Malformed /\ items[i].id = items[j].id

Repeated(items, i) == \E j \in 1..(i - 1) : Same(items, i, j)

MutantPeersError(items) == ListError(items, [i \in DOMAIN items |-> PeerError(items[i])])

PeersError(items) ==
    ListError(items, [i \in DOMAIN items |->
        FirstError(<<PeerError(items[i]), SchemaErrorIf(Repeated(items, i))>>)])

NetworkError(d) == ObjectError(d, <<RequiredError(d.id), RequiredError(d.name)>>)
ParseNetwork(d) == [id |-> d.id, name |-> d.name]

NetworksError(items) == ListError(items, [i \in DOMAIN items |-> NetworkError(items[i])])

ResourceError(d) ==
    ObjectError(d, <<RequiredError(d.id), RequiredError(d.name), RequiredError(d.address),
                     RequiredBoolError(d.enabled)>>)
ParseResource(d) ==
    [id |-> d.id, name |-> d.name, address |-> d.address, enabled |-> d.enabled]

ResourcesError(items) == ListError(items, [i \in DOMAIN items |-> ResourceError(items[i])])

RouterError(d) ==
    ObjectError(d, <<StringsError(d.peerGroups), RequiredError(d.id),
                     RequiredBoolError(d.enabled), OptionalError(d.peer)>>)
ParseRouter(d) ==
    [id |-> d.id, enabled |-> d.enabled, peer |-> Optional(d.peer),
     groups |-> Strings(d.peerGroups)]

RoutersError(items) == ListError(items, [i \in DOMAIN items |-> RouterError(items[i])])

(* A nested request is not even sent for an id that cannot be in a path.   *)
PathError(id) == SchemaErrorIf(id \in Slashed \cup {Blank, ""})

-----------------------------------------------------------------------------
(* The live contract: what the script requires of each body.               *)

Text(v)         == ~Missing(v) /\ v \notin {Malformed, Blank, ""}
OptionalText(v) == v # Malformed
GroupList(v)    == ~Missing(v) /\ v # Malformed /\ \A g \in v : Text(g)
TextList(v)     == v # Malformed /\ \A s \in v : Text(s)

(* A list of nothing but objects. *)
Objects(items) == items # Malformed /\ \A i \in DOMAIN items : items[i] # Malformed

ContractPeer(d) ==
    /\ Text(d.id)
    /\ OptionalText(d.name) /\ OptionalText(d.lastSeen) /\ OptionalText(d.connected)

MutantContractPeers(items) ==
    Objects(items) /\ \A i \in DOMAIN items :
        LET d == items[i]
        IN  ContractPeer(d) /\ (~Missing(d.groups) => GroupList(d.groups))

ContractPeers(items) ==
    Objects(items) /\ \A i \in DOMAIN items :
        ContractPeer(items[i]) /\ GroupList(items[i].groups)

ContractNetworks(items) ==
    Objects(items) /\ \A i \in DOMAIN items : Text(items[i].id) /\ Text(items[i].name)

ContractEnabled(d) == ~Missing(d.enabled) /\ d.enabled # Malformed

ContractResources(items) ==
    Objects(items) /\ \A i \in DOMAIN items :
        LET d == items[i]
        IN  Text(d.id) /\ Text(d.name) /\ Text(d.address) /\ ContractEnabled(d)

ContractRouters(items) ==
    Objects(items) /\ \A i \in DOMAIN items :
        LET d == items[i]
        IN  /\ Text(d.id) /\ OptionalText(d.peer) /\ ContractEnabled(d)
            /\ ~Missing(d.peerGroups) => TextList(d.peerGroups)
=============================================================================
