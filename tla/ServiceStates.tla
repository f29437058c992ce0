---------------------------- MODULE ServiceStates ----------------------------
(***************************************************************************)
(* Where the company picks up: the table of states that staff edit         *)
(* (src/src/services/serviceState.service.js) with the copy each process   *)
(* keeps for a minute (src/src/lib/serviceArea.js), and the table of       *)
(* cities (src/src/services/city.service.js).  Names and aliases are       *)
(* matched elsewhere: a state is its name here.  The processes share the   *)
(* maps of the module extended, where the one that serves a pickup asks.   *)
(***************************************************************************)
EXTENDS Maps, FiniteSets

CONSTANTS
    States,         \* names of states
    BuiltIn,        \* those in service before the table has any row
    Hosts,          \* processes, each with a copy of its own
    Towns,          \* a name and a state: the key of a city
    Staff,          \* edits under way at one time
    MaxCalls        \* bound: edits, and what riders begin

ASSUME StatesAssumption ==
    /\ BuiltIn \subseteq States /\ BuiltIn # {} /\ MaxCalls \in Nat /\ None \notin BuiltIn
    /\ None \notin BOOLEAN \cup [active : BOOLEAN, cards : BOOLEAN]

VARIABLES
    rows,           \* rows[s]: None, or whether the state is active
    copy,           \* copy[h]: None, or what the process last read
    fresh,          \* the processes whose copy is younger than a minute
    towns,          \* towns[c]: None, or the row of a city
    edits,          \* edits[e]: an edit between its reads and its writes
    made,           \* edits and requests begun
    opened, closed, \* history: names that were opened, and that were closed by name
    unseeded        \* history: what the seeding that wrote the first row had still to write
stateVars == <<rows, copy, fresh, towns, edits, made, opened, closed, unseeded>>

Quiet == [do |-> "none"]
StateEdit == [do : {"create"}, host : Hosts, state : States, active : BOOLEAN, backfill : SUBSET BuiltIn]
    \cup [do : {"deactivate"}, host : Hosts, state : States]
    \cup [do : {"seed"}, host : Hosts, left : SUBSET BuiltIn, missing : BuiltIn \cup {None}]
CityEdit == [do : {"city", "copy"}, town : Towns, active : BOOLEAN, from : Towns \cup {None}]
    \cup [do : {"shut"}, town : Towns]
CityRow == [active : BOOLEAN, cards : BOOLEAN]
City(active, cards) == [active |-> active, cards |-> cards]
Recorded == {s \in States : rows[s] # None}
ActiveStates == {s \in Recorded : rows[s]}

(* An empty table, or one that has nothing active, means the built-in ones. *)
Allowed(active) == IF active # {} THEN active ELSE BuiltIn
Served == Allowed(ActiveStates)

StatesInit ==
    /\ rows = [s \in States |-> None] /\ copy = [h \in Hosts |-> None] /\ fresh = {}
    /\ towns = [c \in Towns |-> None]
    /\ edits = [e \in Staff |-> Quiet] /\ made = 0
    /\ opened = BuiltIn /\ closed = {} /\ unseeded = {}

Start(e, edit) ==
    edits[e] = Quiet /\ made < MaxCalls /\ made' = made + 1 /\ edits' = [edits EXCEPT ![e] = edit]
Finish(e) == edits' = [edits EXCEPT ![e] = Quiet] /\ UNCHANGED made
Invalidate(h) == copy' = [copy EXCEPT ![h] = None] /\ fresh' = fresh \ {h}
Open(s) == opened' = opened \cup {s} /\ closed' = closed \ {s}
Close(s) == closed' = closed \cup {s} /\ UNCHANGED opened

-----------------------------------------------------------------------------
(* The copy of a process.  An empty answer is not kept. *)
Loaded(h, active) ==
    IF active # {} THEN copy' = [copy EXCEPT ![h] = active] /\ fresh' = fresh \cup {h}
    ELSE UNCHANGED <<copy, fresh>>
Stale(h) == IF copy[h] # None THEN copy[h] ELSE BuiltIn     \* the query failed

Ages(h) ==
    /\ h \in fresh /\ fresh' = fresh \ {h}
    /\ UNCHANGED <<rows, copy, towns, edits, made, opened, closed, unseeded>>

-----------------------------------------------------------------------------
(* Edits of the table of states. *)

(* The built-in ones are written down with the first row.  The mutant      *)
(* leaves them implicit.                                                   *)
NothingImplied(s) == {}
MaterialiseBuiltIns(s) == IF Recorded = {} THEN BuiltIn \ {s} ELSE {}

BeginCreate(e, h, s, active) ==
    /\ rows[s] = None
    /\ Start(e, [do |-> "create", host |-> h, state |-> s, active |-> active,
                 backfill |-> MaterialiseBuiltIns(s)])
    /\ UNCHANGED <<rows, copy, fresh, towns, opened, closed, unseeded>>

(* One transaction, refused when the name has been taken meanwhile. *)
Create(e) ==
    LET c == edits[e]
    IN  /\ c.do = "create"
        /\ IF rows[c.state] # None
           THEN UNCHANGED <<rows, copy, fresh, opened, closed>>
           ELSE /\ rows' = [s \in States |->
                               IF s = c.state THEN c.active
                               ELSE IF s \in c.backfill /\ rows[s] = None THEN TRUE ELSE rows[s]]
                /\ IF c.active THEN Open(c.state) ELSE Close(c.state)
                /\ Invalidate(c.host)
        /\ Finish(e) /\ UNCHANGED <<towns, unseeded>>

(* The form writes what it is given; an edit under way follows its row. *)
Update(h, s, active) ==
    /\ s \in Recorded /\ rows' = [rows EXCEPT ![s] = active]
    /\ IF active THEN Open(s) ELSE Close(s)
    /\ Invalidate(h) /\ made < MaxCalls /\ made' = made + 1 /\ UNCHANGED <<towns, edits, unseeded>>

Rename(h, s, t) ==
    /\ s \in Recorded /\ rows[t] = None
    /\ rows' = [rows EXCEPT ![t] = rows[s], ![s] = None]
    /\ edits' = [e \in Staff |-> IF edits[e].do = "deactivate" /\ edits[e].state = s
                                 THEN [edits[e] EXCEPT !.state = t] ELSE edits[e]]
    /\ opened' = IF rows[s] THEN opened \cup {t} ELSE opened
    /\ closed' = IF rows[s] THEN (closed \cup {s}) \ {t} ELSE closed \cup {s, t}
    /\ Invalidate(h) /\ made < MaxCalls /\ made' = made + 1 /\ UNCHANGED <<towns, unseeded>>

BeginDeactivate(e, h, s) ==
    /\ s \in Recorded /\ (rows[s] => Cardinality(ActiveStates) > 1)
    /\ Start(e, [do |-> "deactivate", host |-> h, state |-> s])
    /\ UNCHANGED <<rows, copy, fresh, towns, opened, closed, unseeded>>

Deactivate(e) ==
    LET s == edits[e].state
    IN  /\ edits[e].do = "deactivate"
        /\ rows' = [rows EXCEPT ![s] = FALSE] /\ Close(s)
        /\ Invalidate(edits[e].host) /\ Finish(e) /\ UNCHANGED <<towns, unseeded>>

(* The built-in ones that are missing, each looked for and then inserted.  *)
(* An insert of a name taken meanwhile throws, and the rest is not tried.  *)
BeginSeed(e, h) ==
    /\ Start(e, [do |-> "seed", host |-> h, left |-> BuiltIn, missing |-> None])
    /\ UNCHANGED <<rows, copy, fresh, towns, opened, closed, unseeded>>

FindDefault(e) ==
    /\ edits[e].do = "seed" /\ edits[e].missing = None
    /\ \E s \in edits[e].left :
          IF rows[s] = None THEN edits' = [edits EXCEPT ![e].missing = s]
          ELSE edits' = [edits EXCEPT ![e].left = @ \ {s}]
    /\ UNCHANGED <<rows, copy, fresh, towns, made, opened, closed, unseeded>>

CreateDefault(e) ==
    LET s == edits[e].missing
    IN  /\ edits[e].do = "seed" /\ s # None
        /\ IF rows[s] # None THEN Finish(e) /\ UNCHANGED <<rows, opened, closed, unseeded>>
           ELSE /\ rows' = [rows EXCEPT ![s] = TRUE] /\ Open(s) /\ UNCHANGED made
                /\ edits' = [edits EXCEPT ![e].left = @ \ {s}, ![e].missing = None]
                /\ unseeded' = IF Recorded = {} THEN BuiltIn \ {s} ELSE unseeded
        /\ UNCHANGED <<copy, fresh, towns>>

EndSeed(e) ==
    /\ edits[e].do = "seed" /\ edits[e].left = {}
    /\ Invalidate(edits[e].host) /\ Finish(e)
    /\ UNCHANGED <<rows, towns, opened, closed, unseeded>>

(* A statement of an edit under way fails, or its process stops. *)
Abandon(e) ==
    /\ edits[e] # Quiet /\ Finish(e)
    /\ UNCHANGED <<rows, copy, fresh, towns, opened, closed, unseeded>>

-----------------------------------------------------------------------------
(* Cities.  Those whose prices are copied get the active cards of another  *)
(* in one transaction, after their own row is there; the other need not    *)
(* exist.                                                                  *)
ActiveTowns == {c \in Towns : towns[c] # None /\ towns[c].active}
SetTown(c, row) == towns' = [towns EXCEPT ![c] = row]
untouched == <<rows, copy, fresh, opened, closed, unseeded>>

BeginCity(e, c, active, from) ==
    /\ towns[c] = None
    /\ Start(e, [do |-> "city", town |-> c, active |-> active, from |-> from])
    /\ UNCHANGED <<untouched, towns>>

CreateCity(e) ==
    LET f == edits[e]
    IN  /\ f.do = "city"
        /\ IF towns[f.town] # None THEN Finish(e) /\ UNCHANGED towns
           ELSE /\ SetTown(f.town, City(f.active, FALSE))
                /\ IF f.from = None THEN Finish(e)
                   ELSE /\ edits' = [edits EXCEPT ![e].do = "copy"] /\ UNCHANGED made
        /\ UNCHANGED untouched

CopyPricing(e) ==
    LET f == edits[e]
    IN  /\ f.do = "copy"
        /\ IF towns[f.from] # None /\ towns[f.from].cards
           THEN SetTown(f.town, [towns[f.town] EXCEPT !.cards = TRUE]) ELSE UNCHANGED towns
        /\ Finish(e) /\ UNCHANGED untouched

(* Cards written for a city by the form of rate cards. *)
PriceCity(c) ==
    /\ towns[c] # None /\ ~towns[c].cards /\ SetTown(c, [towns[c] EXCEPT !.cards = TRUE])
    /\ made < MaxCalls /\ made' = made + 1 /\ UNCHANGED <<untouched, edits>>

UpdateCity(c, active) ==
    /\ towns[c] # None /\ towns[c].active # active
    /\ SetTown(c, [towns[c] EXCEPT !.active = active])
    /\ made < MaxCalls /\ made' = made + 1 /\ UNCHANGED <<untouched, edits>>

(* The switch that turns a city on is an edit of that field alone.         *)
ActivateCity(c) == UpdateCity(c, TRUE)

BeginDeactivateCity(e, c) ==
    /\ towns[c] # None /\ (towns[c].active => Cardinality(ActiveTowns) > 1)
    /\ Start(e, [do |-> "shut", town |-> c]) /\ UNCHANGED <<untouched, towns>>

DeactivateCity(e) ==
    /\ edits[e].do = "shut" /\ SetTown(edits[e].town, [towns[edits[e].town] EXCEPT !.active = FALSE])
    /\ Finish(e) /\ UNCHANGED untouched

-----------------------------------------------------------------------------
EditStates ==
    \/ \E e \in Staff, h \in Hosts, s \in States :
          \/ \E active \in BOOLEAN : BeginCreate(e, h, s, active)
          \/ BeginDeactivate(e, h, s)
    \/ \E h \in Hosts, s \in States :
          \/ \E active \in BOOLEAN : Update(h, s, active)
          \/ \E t \in States : Rename(h, s, t)
    \/ \E e \in Staff : \/ Create(e) \/ Deactivate(e) \/ Abandon(e)
                        \/ FindDefault(e) \/ CreateDefault(e) \/ EndSeed(e)
                        \/ \E h \in Hosts : BeginSeed(e, h)
EditCities ==
    \/ \E e \in Staff, c \in Towns :
          \/ \E active \in BOOLEAN, from \in (Towns \ {c}) \cup {None} : BeginCity(e, c, active, from)
          \/ BeginDeactivateCity(e, c)
    \/ \E e \in Staff : CreateCity(e) \/ CopyPricing(e) \/ DeactivateCity(e)
    \/ \E c \in Towns : PriceCity(c) \/ ActivateCity(c) \/ \E active \in BOOLEAN : UpdateCity(c, active)

-----------------------------------------------------------------------------
(* Properties. *)

StatesTypeOK ==
    /\ rows \in [States -> BOOLEAN \cup {None}] /\ made \in 0..MaxCalls
    /\ fresh \subseteq Hosts /\ copy \in [Hosts -> (SUBSET States) \cup {None}]
    /\ towns \in [Towns -> CityRow \cup {None}]
    /\ edits \in [Staff -> StateEdit \cup CityEdit \cup {Quiet}]
    /\ opened \subseteq States /\ closed \subseteq States /\ unseeded \subseteq BuiltIn

(* Opening one state, by whoever else is editing the list at the time and  *)
(* whichever edits fail half-way, takes no other out of service: what was  *)
(* in service from the beginning or was opened since, and was not closed   *)
(* by name, is served (materialiseBuiltIns; create's transaction).  Not so *)
(* a built-in one that the seeding which wrote the first row has yet to    *)
(* write, or never will (seedDefaults).                                    *)
OpenStaysOpen == (opened \ closed) \ (unseeded \ Recorded) \subseteq Served

(* "Idempotent, so it is safe to run on every deploy." (seedDefaults)      *)
(* Refuted by this model: a seeding that stops half-way, or that meets a   *)
(* create of another built-in state, leaves the rest out of service.       *)
SeedingIsSafe == (\E e \in Staff : edits[e].do = "seed") \/ opened \ closed \subseteq Served

=============================================================================
