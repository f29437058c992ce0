---------------------------- MODULE GstRegister ----------------------------
(* The client's own GST registrations, as staff edit them and as quotes    *)
(* and invoices look them up (gst.service).  An edit reads the row, writes *)
(* it and then drops what was kept of it; a lookup reads the table and     *)
(* then keeps what it found, so edits and lookups cross.  The fields late  *)
(* and crossed record that they did; no action looks at them.              *)
EXTENDS Naturals, FiniteSets

CONSTANTS
    StateNames,     \* states, as staff may write them
    Norm,           \* Norm[name]: the state a name is compared as
    OurGstins,      \* the numbers staff may enter
    CodeOf,         \* CodeOf[g]: the state the first two digits of g stand for
    Patches,        \* what an edit may change: state, gstin and active, or some of them
    Editors,        \* edits under way at one time
    Lookups,        \* lookups under way at one time
    Registered,     \* the rows to begin with
    MaxRows,        \* bound: rows of the table
    MaxEdits        \* bound: edits

VARIABLES
    register,       \* the rows of gst_config
    kept,           \* kept[s]: what the cache holds of state s, at most one entry
    lookups,        \* lookups[q]: a lookup between its read and its write
    edits,          \* edits[k]: an edit between its steps
    edited          \* edits begun
gstVars == <<register, kept, lookups, edits, edited>>

States == {Norm[name] : name \in StateNames}
GstRow(id, state, gstin, active) ==
    [id |-> id, state |-> state, gstin |-> gstin, active |-> active, crossed |-> FALSE]

AssertGstinMatchesState(gstin, state) == CodeOf[gstin] = Norm[state]

(* The table opens with rows the create form would have let through.       *)
ASSUME GstAssumption ==
    /\ MaxRows \in Nat /\ MaxEdits \in Nat
    /\ \A r \in Registered : /\ r = GstRow(r.id, r.state, r.gstin, r.active)
                             /\ AssertGstinMatchesState(r.gstin, r.state)

GstInit ==
    /\ register = Registered /\ kept = [s \in States |-> {}]
    /\ lookups = [q \in Lookups |-> {}] /\ edits = [k \in Editors |-> {}] /\ edited = 0

-----------------------------------------------------------------------------
(* The registration of a state is any active row of that name; without one *)
(* the answer is that there is none, and that is kept as well.             *)
Governing(s) == {r \in register : r.active /\ Norm[r.state] = s}
Answers(s) == IF Governing(s) = {} THEN {{}} ELSE {{r} : r \in Governing(s)}

LookUp(q, s) ==
    /\ lookups[q] = {} /\ kept[s] = {}
    /\ \E answer \in Answers(s) :
          lookups' = [lookups EXCEPT ![q] = {[state |-> s, answer |-> answer, late |-> FALSE]}]
    /\ UNCHANGED <<register, kept, edits, edited>>

Keep(q) ==
    \E found \in lookups[q] :
        /\ kept' = [kept EXCEPT ![found.state] = {[answer |-> found.answer, late |-> found.late]}]
        /\ lookups' = [lookups EXCEPT ![q] = {}]
        /\ UNCHANGED <<register, edits, edited>>

(* Fifteen minutes, less for an answer that there is none. *)
Expire(s) ==
    /\ kept[s] # {} /\ kept' = [kept EXCEPT ![s] = {}]
    /\ UNCHANGED <<register, lookups, edits, edited>>

-----------------------------------------------------------------------------
(* Edits. *)

Enters(k, step) == edits' = [edits EXCEPT ![k] = {step}]
Ends(k) == edits' = [edits EXCEPT ![k] = {}]
Begins(k, step) ==
    edits[k] = {} /\ edited < MaxEdits /\ edited' = edited + 1 /\ Enters(k, step)

(* The indexes: a number once, and one active row for a state as written.  *)
Indexed(rows) ==
    \A r, t \in rows : r.id # t.id =>
        r.gstin # t.gstin /\ ~(r.active /\ t.active /\ r.state = t.state)

(* A commit: the lookups that have read the table have read it too early.  *)
CommitRows(rows) ==
    /\ register' = rows
    /\ lookups' = [q \in Lookups |-> {[found EXCEPT !.late = TRUE] : found \in lookups[q]}]

BeginCreate(k, state, gstin, active) ==
    /\ Cardinality(register) < MaxRows
    /\ AssertGstinMatchesState(gstin, state)
    /\ ~(active /\ \E r \in register : r.active /\ r.state = state)
    /\ Begins(k, [op |-> "create", row |-> GstRow(0, state, gstin, active)])
    /\ UNCHANGED <<register, kept, lookups>>

CreateConfig(k) ==
    \E step \in edits[k] :
        LET rows == register \cup {[step.row EXCEPT !.id = Cardinality(register) + 1]}
        IN  /\ step.op = "create" /\ Cardinality(register) < MaxRows
            /\ IF Indexed(rows) THEN CommitRows(rows) /\ Enters(k, [op |-> "forget"])
               ELSE Ends(k) /\ UNCHANGED <<register, lookups>>
            /\ UNCHANGED <<kept, edited>>

Patched(r, patch) ==
    [field \in DOMAIN r |-> IF field \in DOMAIN patch THEN patch[field] ELSE r[field]]

(* Either side moves and the two are compared, the other as it was read.   *)
(* The mutant compares them when the number moves.                         *)
MayPatchNumberOnly(r, patch) ==
    "gstin" \in DOMAIN patch =>
        AssertGstinMatchesState(Patched(r, patch).gstin, Patched(r, patch).state)
MayPatch(r, patch) ==
    {"gstin", "state"} \cap DOMAIN patch # {} =>
        AssertGstinMatchesState(Patched(r, patch).gstin, Patched(r, patch).state)

BeginUpdate(k, r, patch) ==
    /\ MayPatch(r, patch)
    /\ Begins(k, [op |-> "update", id |-> r.id, patch |-> patch, read |-> r])
    /\ UNCHANGED <<register, kept, lookups>>

(* Retiring is a write with nothing looked at but that the row is there.   *)
BeginDeactivate(k, r) ==
    /\ Begins(k, [op |-> "update", id |-> r.id, patch |-> [active |-> FALSE], read |-> r])
    /\ UNCHANGED <<register, kept, lookups>>

UpdateConfig(k) ==
    \E step \in edits[k] : step.op = "update" /\ \E r \in register :
        LET row == [Patched(r, step.patch) EXCEPT !.crossed = r.crossed \/ r # step.read]
            rows == (register \ {r}) \cup {row}
        IN  /\ r.id = step.id
            /\ IF Indexed(rows) THEN CommitRows(rows) /\ Enters(k, [op |-> "forget"])
               ELSE Ends(k) /\ UNCHANGED <<register, lookups>>
            /\ UNCHANGED <<kept, edited>>

(* Everything kept goes, not only the state written: a row may have moved. *)
Invalidate(k) ==
    \E step \in edits[k] :
        /\ step.op = "forget"
        /\ kept' = [s \in States |-> {}] /\ Ends(k)
        /\ UNCHANGED <<register, lookups, edited>>

(* The process stops, or the cache does not answer the deletion.           *)
AbandonEdit(k) ==
    \E step \in edits[k] :
        /\ Ends(k)
        /\ IF step.op = "forget"
           THEN kept' = [s \in States |-> {[entry EXCEPT !.late = TRUE] : entry \in kept[s]}]
           ELSE UNCHANGED kept
        /\ UNCHANGED <<register, lookups, edited>>

GstNext ==
    \/ \E q \in Lookups : Keep(q) \/ \E s \in States : LookUp(q, s)
    \/ \E s \in States : Expire(s)
    \/ \E k \in Editors :
          \/ \E state \in StateNames, gstin \in OurGstins, active \in BOOLEAN :
                BeginCreate(k, state, gstin, active)
          \/ \E r \in register : BeginDeactivate(k, r) \/ \E patch \in Patches : BeginUpdate(k, r, patch)
          \/ CreateConfig(k) \/ UpdateConfig(k) \/ Invalidate(k) \/ AbandonEdit(k)

-----------------------------------------------------------------------------
(* What the settings screen lists as out of order. *)
Health == {r \in register : CodeOf[r.gstin] # Norm[r.state]}

(* A registration's number is one of its state, unless two edits of the    *)
(* row crossed, each right by itself (gstConfig.schemas, "so the two       *)
(* cannot drift apart"); and once an edit is over, what is kept of a state *)
(* is the registration it has now, unless it was read before the edit or   *)
(* the deletion was lost (gst.service.invalidate).                         *)
RegisterTrue ==
    /\ \A r \in Health : r.crossed
    /\ (\A k \in Editors : \A step \in edits[k] : step.op # "forget")
       => \A s \in States : \A entry \in kept[s] : entry.late \/ entry.answer \in Answers(s)
=============================================================================
