----------------------------- MODULE MCAccounts -----------------------------
(* Instances of Accounts for TLC: two administrators, one with a session,  *)
(* and a customer who came by WhatsApp and was sent a code.  The addresses *)
(* a customer saved share no variable with them: each is explored while    *)
(* the other stands at its start.                                          *)
EXTENDS Accounts, Addresses

CONSTANTS ann, bea, k1, k2, d1, d2

Tables(first, second, history, tokens, code) ==
    [users |-> ann :> first @@ bea :> second,
     booked |-> ann :> history @@ bea :> "none", sessions |-> tokens,
     codes |-> ann :> code @@ bea :> None, made |-> IF code = None THEN 0 ELSE 1]
OpeningTable ==
    {Tables(Row("ADMIN", "p"), Row("ADMIN", "q"), "none", <<Token(ann, None)>>, None),
     Tables(Row("USER", Unusable), None, "past", <<>>, [code |-> 1, attempts |-> 0])}

Alike == Permutations(Callers) \cup Permutations(Devices)

Opened == Init /\ AddressInit
Past == Init /\ booked[ann] = "past"
Profiles ==
    /\ Opened
    /\ [][\/ AddressInit /\ Next /\ UNCHANGED addressVars
          \/ Past /\ AddressNext /\ UNCHANGED vars]_<<vars, addressVars>>
=============================================================================
