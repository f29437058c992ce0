----------------------------- MODULE Corporate -----------------------------
(* Companies whose employees' trips are billed to them, and how a customer *)
(* comes to be one of them: corporate.service (staff) and                  *)
(* corporateSelfService (the customer), each of whose operations reads,    *)
(* decides, and writes in a later transaction.                             *)
EXTENDS Integers, FiniteSets

CONSTANTS
    None,
    People, CompanyIds,
    GstinState,     \* the state that issued each GST number, or "none"
    Limits,         \* credit limits staff may set; 0 is no limit
    Approval,       \* a company its customer registers waits for staff
    Edits,          \* what staff may set of a customer's row
    Opening,        \* companies and customers the system may open with
    Clerks,         \* operations on companies under way at one time
    MaxForms        \* bound: operations on companies

Gstins == DOMAIN GstinState

CompanyRow == [gstin : Gstins, active : BOOLEAN, limit : Limits \cup {0}, used : Nat]
CustomerRow == [type : {"RETAIL", "CORPORATE"}, company : CompanyIds \cup {None},
                gstin : Gstins \cup {None}]

(* An edit sets some of three columns and keeps the rest. *)
Kept == "kept"
EditRow == [type : {"RETAIL", "CORPORATE", Kept}, company : CompanyIds \cup {None, Kept},
            gstin : Gstins \cup {None, Kept}]

(* Rows of the two tables, in which a customer's company exists. *)
Sound(o) ==
    /\ o.companies \in [CompanyIds -> CompanyRow \cup {None}]
    /\ o.people \in [People -> CustomerRow]
    /\ \A p \in People : o.people[p].company # None => o.companies[o.people[p].company] # None

ASSUME CorporateAssumption ==
    /\ Limits \subseteq Nat /\ MaxForms \in Nat /\ Approval \in BOOLEAN /\ Edits \subseteq EditRow
    /\ None \notin CompanyIds \cup CompanyRow
    /\ \A o \in Opening : Sound(o)

VARIABLES
    companies,      \* companies[c]: None, or gstin, active, limit and used credit
    people,         \* people[p]: type RETAIL or CORPORATE, company, gstin of their own
    forms,          \* forms[k]: an operation that has read and not yet written
    filed
corporateVars == <<companies, people, forms, filed>>

Idle == [at |-> "idle"]

Held(gstin) == \E c \in CompanyIds : companies[c] # None /\ companies[c].gstin = gstin
Known(c) == companies[c] # None
Company(gstin, active, limit) == [gstin |-> gstin, active |-> active, limit |-> limit, used |-> 0]

CorporateInit ==
    /\ \E o \in Opening : companies = o.companies /\ people = o.people
    /\ forms = [k \in Clerks |-> Idle]
    /\ filed = 0

-----------------------------------------------------------------------------
(* What each operation requires of what it reads. *)

MayLimit(f) == f.do = "limit" /\ Known(f.company)
               /\ (f.limit > 0 => f.limit >= companies[f.company].used)

MaySetActive(f) == f.do = "active" /\ Known(f.company)

MayAttach(f) ==
    f.do = "attach" /\ Known(f.company) /\ companies[f.company].active
    /\ people[f.person].company = None

MayDetach(f) == f.do = "detach" /\ people[f.person].company = f.company

(* Staff set type, company and number, together or alone; the type must    *)
(* suit the link there was, or come with another.                          *)
MayEdit(f) ==
    /\ f.do = "edit"
    /\ f.data.type = "RETAIL" => people[f.person].company = None \/ f.data.company # Kept
    /\ f.data.type = "CORPORATE" =>
          people[f.person].company # None \/ f.data.company \notin {None, Kept}

(* A customer already billed to a company only notes the number. *)
MayNoteGstin(f) ==
    f.do = "note" /\ GstinState[f.gstin] # "none"
    /\ people[f.person].type = "CORPORATE" /\ people[f.person].company # None

MayAddGstin(f) ==
    /\ f.do = "gstin" /\ GstinState[f.gstin] # "none" /\ ~Held(f.gstin)
    /\ ~(people[f.person].type = "CORPORATE" /\ people[f.person].company # None)

MayRegister(f) ==
    f.do = "register" /\ ~Held(f.gstin)
    /\ people[f.person].type # "CORPORATE" /\ people[f.person].company = None

MayWithdraw(f) ==
    f.do = "withdraw" /\ f.company # None /\ people[f.person].company = f.company
    /\ companies[f.company].used = 0

Applications ==
    [do : {"limit"}, company : CompanyIds, limit : Limits]
    \cup [do : {"active"}, company : CompanyIds, to : BOOLEAN]
    \cup [do : {"attach", "detach", "withdraw"}, company : CompanyIds, person : People]
    \cup [do : {"note", "gstin", "register"}, gstin : Gstins, person : People]
    \cup [do : {"open"}, gstin : Gstins, limit : Limits]
    \cup [do : {"ungstin"}, person : People]
    \cup [do : {"edit"}, person : People, data : Edits]

File(k) ==
    /\ forms[k] = Idle /\ filed < MaxForms
    /\ \E f \in Applications :
          /\ \/ f.do \in {"open", "ungstin"} \/ MayLimit(f) \/ MaySetActive(f)
             \/ MayAttach(f) \/ MayDetach(f) \/ MayNoteGstin(f) \/ MayAddGstin(f)
             \/ MayRegister(f) \/ MayWithdraw(f) \/ MayEdit(f)
          /\ forms' = [forms EXCEPT ![k] = [at |-> "write", form |-> f]]
    /\ filed' = filed + 1
    /\ UNCHANGED <<companies, people>>

-----------------------------------------------------------------------------
(* The writes. *)

Joined(person, c, type) == [people EXCEPT ![person].company = c, ![person].type = type]
Left(person) == Joined(person, None, "RETAIL")

SaveLimit(f) ==
    /\ f.do = "limit"
    /\ companies' = [companies EXCEPT ![f.company].limit = f.limit]
    /\ UNCHANGED people

SaveActive(f) ==
    /\ f.do = "active"
    /\ companies' = [companies EXCEPT ![f.company].active = f.to]
    /\ UNCHANGED people

SaveAttach(f) ==
    /\ f.do = "attach"
    /\ people' = Joined(f.person, f.company, "CORPORATE")
    /\ UNCHANGED companies

SaveDetach(f) ==
    /\ f.do = "detach"
    /\ people' = Left(f.person)
    /\ UNCHANGED companies

Set(value, to) == IF to = Kept THEN value ELSE to
Edited(row, data) ==
    [type |-> Set(row.type, data.type), company |-> Set(row.company, data.company),
     gstin |-> Set(row.gstin, data.gstin)]

(* A company that is not in the table is refused by it. *)
SaveEdit(f) ==
    /\ f.do = "edit" /\ (f.data.company \notin {None, Kept} => Known(f.data.company))
    /\ people' = [people EXCEPT ![f.person] = Edited(people[f.person], f.data)]
    /\ UNCHANGED companies

SaveOpen(f) ==
    /\ f.do = "open" /\ ~Held(f.gstin)
    /\ \E c \in CompanyIds :
          /\ ~Known(c)
          /\ companies' = [companies EXCEPT ![c] = Company(f.gstin, TRUE, f.limit)]
    /\ UNCHANGED people

SaveNote(f) ==
    /\ f.do = "note"
    /\ people' = [people EXCEPT ![f.person].gstin = f.gstin]
    /\ UNCHANGED companies

(* A company of one's own, with no limit on its credit. *)
Founded(f, row) ==
    /\ ~Held(f.gstin)
    /\ \E c \in CompanyIds :
          /\ ~Known(c)
          /\ companies' = [companies EXCEPT ![c] = Company(f.gstin, ~Approval, 0)]
          /\ people' = [people EXCEPT ![f.person] =
                           [row EXCEPT !.company = c,
                                       !.type = IF Approval THEN "RETAIL" ELSE "CORPORATE"]]

SaveGstin(f) ==
    f.do = "gstin" /\ Founded(f, [people[f.person] EXCEPT !.gstin = f.gstin])

SaveRegister(f) == f.do = "register" /\ Founded(f, people[f.person])

SaveUngstin(f) ==
    /\ f.do = "ungstin"
    /\ people' = [Left(f.person) EXCEPT ![f.person].gstin = None]
    /\ UNCHANGED companies

(* The company is closed for everyone in it. *)
SaveWithdraw(f) ==
    /\ f.do = "withdraw"
    /\ people' = Left(f.person)
    /\ companies' = [companies EXCEPT ![f.company].active = FALSE]

Save(k) ==
    /\ forms[k].at = "write"
    /\ LET f == forms[k].form
       IN  \/ SaveLimit(f) \/ SaveActive(f) \/ SaveAttach(f) \/ SaveDetach(f) \/ SaveOpen(f) \/ SaveEdit(f)
           \/ SaveNote(f) \/ SaveGstin(f) \/ SaveRegister(f) \/ SaveUngstin(f) \/ SaveWithdraw(f)
    /\ forms' = [forms EXCEPT ![k] = Idle]
    /\ UNCHANGED filed

(* A number taken since the check, or the process stopped: nothing is kept. *)
Abandon(k) ==
    /\ forms[k].at = "write"
    /\ forms' = [forms EXCEPT ![k] = Idle]
    /\ UNCHANGED <<companies, people, filed>>

CorporateNext == \E k \in Clerks : File(k) \/ Save(k) \/ Abandon(k)

-----------------------------------------------------------------------------
(* What bookings ask of it. *)

(* The company a new booking is billed to, or None for the rider. *)
ResolveBillingEntity(person) ==
    LET c == people[person].company
    IN  IF people[person].type = "CORPORATE" /\ c # None /\ companies[c].active THEN c ELSE None

CreditAvailable(c, amount) ==
    /\ companies[c].active
    /\ companies[c].limit > 0 => amount <= companies[c].limit - companies[c].used

(* Never below nothing. *)
AdjustCreditUsed(c, delta) ==
    [companies EXCEPT ![c].used = IF companies[c].used + delta > 0
                                  THEN companies[c].used + delta ELSE 0]

(* The number on the invoice of a trip: what was typed for the trip, or    *)
(* that of the company it is billed to, or the rider's own.                *)
RecipientGstin(typed, person, c) ==
    IF typed # None THEN typed ELSE IF c # None THEN companies[c].gstin ELSE people[person].gstin

CorporateTypeOK ==
    /\ \A c \in CompanyIds : companies[c] # None => companies[c] \in CompanyRow
    /\ people \in [People -> CustomerRow]
    /\ \A k \in Clerks : forms[k] # Idle => forms[k].form \in Applications
    /\ filed \in 0..MaxForms
=============================================================================
