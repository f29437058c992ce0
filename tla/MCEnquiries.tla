---------------------------- MODULE MCEnquiries ----------------------------
(* Two riders, two processes, one or two edits at a time: see the cfgs. *)
EXTENDS Enquiries, TLC

CONSTANTS k1, k2, KA, TN, e1, e2, c1, c2, f1, f2, w1, w2, h1, h2, s1, s2

Q(kind, spot) == [kind |-> kind, spot |-> spot]

MCPlaces == {[spot |-> s1, state |-> KA, named |-> None, india |-> TRUE, pinned |-> TRUE],
             [spot |-> s2, state |-> TN, named |-> TN, india |-> FALSE, pinned |-> FALSE]}
MCPaths == {<<Q("distance", s1), Q("distance", s1)>>, <<Q("airports", s1)>>}
MCQuestions == {Q("distance", s1), Q("reverse", s1), Q("geocode", s2), Q("airports", s1)}

=============================================================================
