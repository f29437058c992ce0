----------------------------- MODULE MCBilling -----------------------------
(* Instances of Billing for TLC: a rental package booked by somebody who   *)
(* may be, become or stop being an employee of a company of another state. *)
(* The register of the client's own numbers shares no variable with it:    *)
(* each is explored while the other stands at its start.                   *)
EXTENDS Billing, GstRegister, TLC

CONSTANTS b1, anu, c1, k1, k2, d1, g1, g2, q1

GstinTable == "33A" :> "TN"
Acme == [gstin |-> "33A", active |-> TRUE, limit |-> 0, used |-> 0]
Person(type, company) == anu :> [type |-> type, company |-> company, gstin |-> None]
OpeningTable ==
    {[companies |-> c1 :> None, people |-> Person("RETAIL", None)],
     [companies |-> c1 :> Acme, people |-> Person("RETAIL", None)],
     [companies |-> c1 :> [Acme EXCEPT !.limit = 20000], people |-> Person("CORPORATE", c1)]}

(* A company given with its type or without, a link undone, and a number.  *)
EditTable ==
    {[type |-> Kept, company |-> c1, gstin |-> Kept], [type |-> Kept, company |-> Kept, gstin |-> "33A"],
     [type |-> "RETAIL", company |-> None, gstin |-> None],
     [type |-> "CORPORATE", company |-> c1, gstin |-> Kept]}

GstTable == {[state |-> "KA", rate |-> 5, inclusive |-> FALSE, types |-> {"ONE_WAY", "HOURLY"},
              corporate |-> TRUE, retail |-> FALSE, byRecipient |-> TRUE, byRoute |-> TRUE]}

Tariff == [perKm |-> 127, perMinute |-> 0, minimumKm |-> 0, minKmPerDay |-> 25,
           allowance |-> 3000, night |-> 2500, nightPct |-> 0, nightFrom |-> 1315, nightTo |-> 360,
           airport |-> 0, hourly |-> 2500, kmPerHour |-> 10, minSurge |-> 100, maxSurge |-> 200,
           cancelFee |-> 2000]
Trip(type, km, package) ==
    [type |-> type, km |-> km, minutes |-> 0, at |-> 1320, back |-> 1500, surge |-> 100,
     package |-> package, hours |-> 0]
TariffThen == {Tariff}
Package == [hours |-> 4, km |-> 40, fare |-> 9000, perKm |-> 140, perHour |-> 1500]

OfferTable == {[trip |-> [Trip("HOURLY", 0, Package) EXCEPT !.back = NoTime], card |-> Tariff,
           pickupState |-> "KA", dropState |-> "KA"]}

CallersAlike == Permutations(Callers)

(* Two ways of writing one state, and two numbers of it. *)
Written == "Karnataka" :> "KA" @@ "karnataka" :> "KA" @@ "Telangana" :> "TS"
Codes == "29A" :> "KA" @@ "29B" :> "KA" @@ "36A" :> "TS"
FirstRows == {GstRow(1, "Karnataka", "29A", TRUE)}
Changes ==
    {[gstin |-> "29B"], [state |-> "Telangana"], [state |-> "Telangana", gstin |-> "36A"],
     [active |-> TRUE], [state |-> "karnataka"]}

Opened == Init /\ GstInit
NoCompany == Init /\ \A c \in CompanyIds : companies[c] = None
Books ==
    /\ Opened
    /\ [][\/ GstInit /\ Next /\ UNCHANGED gstVars
          \/ NoCompany /\ GstNext /\ UNCHANGED vars]_<<vars, gstVars>>
=============================================================================
