--------------------------- MODULE MCCollections ---------------------------
(* An instance of Collections and Realtime for TLC.                        *)
EXTENDS Realtime, TLC

CONSTANTS c1, c2, phone, rider, driver, ops, b1

Slots == Permutations({c1, c2})

AskTable == { <<"booking", "BALANCE", "LINK">>, <<"booking", "BALANCE", "QR">>, <<phone, "FULL", "LINK">> }

RoleTable == (rider :> "CUSTOMER") @@ (driver :> "DRIVER") @@ (ops :> "OPS")

CustomerTable == b1 :> rider

(* Connections and collections meet only in the events of a capture, which *)
(* change the state of neither: each is explored while the other stands at *)
(* its start.                                                              *)
Counter ==
    /\ Init
    /\ [][\/ SocketInit /\ CollectionNext /\ UNCHANGED socketVars
          \/ CollectionInit /\ SocketNext /\ UNCHANGED collectionVars]_vars
=============================================================================
