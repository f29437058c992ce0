----------------------------- MODULE Addresses -----------------------------
(* The addresses a customer saved, one of which the booking form starts    *)
(* from (address.service).  A request looks at the list or at the row, and *)
(* a transaction writes; requests of one customer cross, from two devices  *)
(* or from staff.  The field alone and the variable unsettled record that  *)
(* they did; no action looks at them.                                      *)
EXTENDS Naturals, FiniteSets

CONSTANTS
    Devices,        \* requests under way at one time
    MaxAddresses,   \* MAX_ADDRESSES
    MaxSaved        \* bound: addresses ever saved

ASSUME AddressAssumption ==
    MaxAddresses \in Nat \ {0} /\ MaxSaved \in Nat /\ IsFiniteSet(Devices)

VARIABLES
    addresses,      \* the rows: id, in the order of creation, and isDefault
    saved,          \* ids given out
    visits,         \* visits[k]: a request between its read and its transaction, at most one
    unsettled       \* requests have crossed, or the default was unset, and none was chosen since
addressVars == <<addresses, saved, visits, unsettled>>

Ids == {a.id : a \in addresses}
Defaults == {a \in addresses : a.default}

AddressInit ==
    addresses = {} /\ saved = 0 /\ visits = [k \in Devices |-> {}] /\ unsettled = FALSE

(* findForCustomer and count: what a request goes by from here on. *)
Visit(k, call) ==
    /\ visits[k] = {}
    /\ visits' = [visits EXCEPT ![k] = {[alone |-> TRUE, call |-> call, found |-> {}]}]
    /\ UNCHANGED <<addresses, saved, unsettled>>

(* The first address is the default of itself. *)
AskCreate(k, wanted) ==
    /\ Cardinality(addresses) < MaxAddresses
    /\ Visit(k, [op |-> "create", default |-> wanted \/ addresses = {}])

AskUpdate(k, a, wanted) == Visit(k, [op |-> "update", id |-> a.id, wanted |-> wanted])
AskSetDefault(k, a) == Visit(k, [op |-> "choose", id |-> a.id])
AskRemove(k, a) == Visit(k, [op |-> "remove", id |-> a.id, default |-> a.default])

-----------------------------------------------------------------------------
(* The transactions.  One that makes a default first demotes those it      *)
(* finds, which is not the one another transaction has still to commit.    *)

Chooses(call) ==
    \/ call.op = "create" /\ call.default
    \/ call.op = "update" /\ call.wanted = "yes"
    \/ call.op = "choose"

Find(k) ==
    /\ \E visit \in visits[k] :
          /\ Chooses(visit.call) /\ visit.found = {}
          /\ visits' = [visits EXCEPT ![k] = {[visit EXCEPT !.found = {{a.id : a \in Defaults}}]}]
    /\ UNCHANGED <<addresses, saved, unsettled>>

Demoted(rows, found) ==
    {[a EXCEPT !.default = @ /\ a.id \notin UNION found] : a \in rows}

(* A request whose last statement is due. *)
Due(k) == {visit \in visits[k] : Chooses(visit.call) => visit.found # {}}
Commits(k, rows) ==
    /\ addresses' = rows
    /\ visits' = [j \in Devices |-> IF j = k THEN {}
                                    ELSE {[v EXCEPT !.alone = FALSE] : v \in visits[j]}]
Fails(k) == visits' = [visits EXCEPT ![k] = {}] /\ UNCHANGED <<addresses, saved, unsettled>>

Settles(visit) == unsettled' = IF visit.alone THEN FALSE ELSE TRUE
Disturbs(visit) == unsettled' = (unsettled \/ ~visit.alone)

CreateAddress(k) ==
    \E visit \in Due(k) :
        /\ visit.call.op = "create" /\ saved < MaxSaved
        /\ Commits(k, Demoted(addresses, visit.found)
                      \cup {[id |-> saved + 1, default |-> visit.call.default]})
        /\ saved' = saved + 1
        /\ IF visit.call.default THEN Settles(visit) ELSE Disturbs(visit)

AddressRow(id) == CHOOSE a \in addresses : a.id = id
Chosen(id, found) ==
    Demoted(addresses \ {AddressRow(id)}, found) \cup {[id |-> id, default |-> TRUE]}
Unchosen(id) == (addresses \ {AddressRow(id)}) \cup {[id |-> id, default |-> FALSE]}

UpdateAddress(k) ==
    \E visit \in Due(k) :
        LET call == visit.call
        IN  /\ call.op = "update"
            /\ IF call.id \notin Ids THEN Fails(k)
               ELSE /\ CASE call.wanted = "yes" -> Commits(k, Chosen(call.id, visit.found)) /\ Settles(visit)
                         [] call.wanted = "no" -> Commits(k, Unchosen(call.id)) /\ unsettled' = TRUE
                         [] OTHER -> Commits(k, addresses) /\ Disturbs(visit)
                    /\ UNCHANGED saved

SetDefault(k) ==
    \E visit \in Due(k) :
        /\ visit.call.op = "choose"
        /\ IF visit.call.id \notin Ids THEN Fails(k)
           ELSE Commits(k, Chosen(visit.call.id, visit.found)) /\ Settles(visit) /\ UNCHANGED saved

(* The newest of those that are left takes the place of a default.  The    *)
(* mutant leaves it empty.                                                 *)
NoPromotion(rest) == rest
Promoted(rest) ==
    {[a EXCEPT !.default = @ \/ \A b \in rest : b.id <= a.id] : a \in rest}

RemoveAddress(k) ==
    \E visit \in Due(k) :
        LET call == visit.call
            rest == {a \in addresses : a.id # call.id}
        IN  /\ call.op = "remove"
            /\ IF call.id \notin Ids THEN Fails(k)
               ELSE /\ Commits(k, IF call.default THEN Promoted(rest) ELSE rest)
                    /\ Disturbs(visit) /\ UNCHANGED saved

(* A transaction is rolled back, or the process stops. *)
GiveUp(k) == visits[k] # {} /\ Fails(k)

AddressNext ==
    \E k \in Devices :
        \/ \E wanted \in BOOLEAN : AskCreate(k, wanted)
        \/ \E a \in addresses : \/ \E wanted \in {"yes", "no", "as is"} : AskUpdate(k, a, wanted)
                                \/ AskSetDefault(k, a) \/ AskRemove(k, a)
        \/ Find(k) \/ CreateAddress(k) \/ UpdateAddress(k) \/ SetDefault(k) \/ RemoveAddress(k) \/ GiveUp(k)

-----------------------------------------------------------------------------
(* A customer who has addresses has one default, through creations,        *)
(* edits and deletions, until two requests cross or the default is unset;  *)
(* and one choice made alone puts it right again (address.service,         *)
(* "Exactly one default per customer").  However requests cross, there     *)
(* are no more addresses over the limit than requests at a time.           *)
OneDefault ==
    /\ unsettled \/ addresses = {} \/ Cardinality(Defaults) = 1
    /\ Cardinality(addresses) < MaxAddresses + Cardinality(Devices)
=============================================================================
