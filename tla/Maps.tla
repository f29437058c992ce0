-------------------------------- MODULE Maps --------------------------------
(***************************************************************************)
(* src/src/services/maps.service.js in one process: every question for the *)
(* maps provider goes through a cache in Redis, a circuit breaker and a    *)
(* time limit, and most of them have an answer of their own for when the   *)
(* provider fails.  The provider and Redis are external.  What an answer   *)
(* says is abstracted to where it came from.                               *)
(***************************************************************************)
EXTENDS Integers, Sequences

CONSTANTS
    None,
    Seekers,        \* requests that ask for something on the map
    Questions,      \* records with a kind: the keys of the cache
    Threshold,      \* failures that open the breaker
    MaxTerminals    \* airports that are looked at for their terminals

ASSUME MapsAssumption == Threshold \in Nat \ {0} /\ MaxTerminals \in Nat \ {0}

VARIABLES
    breaker,        \* state and failures, in the memory of the process
    cooled,         \* the cooldown since the breaker opened is over
    found,          \* found[q]: None, or what was last written to Redis for q
    locks,          \* locks[q]: None, or the holder of the single-flight lock
    seek            \* seek[k]: how far the request k is
mapVars == <<breaker, cooled, found, locks, seek>>

Plain == {"distance", "route"}                  \* no single flight
Measured == {"road", "place", "list", "terminals", "nothing"}

Nowhere == [at |-> "rest"]
Given == Measured \cup {"coordinates", "estimate", "error"}
Lookups ==
    [at : {"look", "wait", "lock", "call", "sent", "terminals", "keep", "leave", "answered"},
     q : Questions, rest : Seq(Questions), locked : BOOLEAN, left : 0..MaxTerminals,
     answer : Given \cup {None}, fresh : BOOLEAN]
Looking(path, fresh) ==
    [at |-> IF fresh THEN "call" ELSE "look", q |-> Head(path), rest |-> Tail(path),
     locked |-> FALSE, left |-> 0, answer |-> None, fresh |-> fresh]
Move(k, call) == seek' = [seek EXCEPT ![k] = call]
To(k, at) == Move(k, [seek[k] EXCEPT !.at = at])
With(k, at, answer) == Move(k, [seek[k] EXCEPT !.at = at, !.answer = answer])

Closed == [state |-> "closed", failures |-> 0]
BreakerAllows == breaker.state # "open" \/ cooled

MapsInit ==
    /\ breaker = Closed /\ cooled = FALSE
    /\ found = [q \in Questions |-> None] /\ locks = [q \in Questions |-> None]
    /\ seek = [k \in Seekers |-> Nowhere]

-----------------------------------------------------------------------------
(* Looking in the cache.  Several legs of a path are asked for one after   *)
(* the other; only distances and routes may insist on a fresh answer.      *)
Ask(k, path, fresh) ==
    /\ seek[k] = Nowhere
    /\ fresh \/ Len(path) > 1 => \A i \in DOMAIN path : path[i].kind \in Plain
    /\ Move(k, Looking(path, fresh))
    /\ UNCHANGED <<breaker, cooled, found, locks>>

Hit(k) ==
    /\ seek[k].at \in {"look", "wait"} /\ found[seek[k].q] # None
    /\ With(k, "leave", found[seek[k].q])
    /\ UNCHANGED <<breaker, cooled, found, locks>>

(* At any time: what was written may have expired, or Redis be down. *)
Miss(k) ==
    /\ seek[k].at = "look" /\ To(k, IF seek[k].q.kind \in Plain THEN "call" ELSE "lock")
    /\ UNCHANGED <<breaker, cooled, found, locks>>

(* A lock one finds may be of a process that has died; it may also have    *)
(* expired, after eight seconds.  Without Redis nobody is made to wait.    *)
AcquireLock(k) ==
    /\ seek[k].at = "lock"
    /\ \/ locks[seek[k].q] # None /\ To(k, "wait") /\ UNCHANGED locks
       \/ /\ Move(k, [seek[k] EXCEPT !.at = "call", !.locked = TRUE])
          /\ locks' = [locks EXCEPT ![seek[k].q] = k]
       \/ To(k, "call") /\ UNCHANGED locks
    /\ UNCHANGED <<breaker, cooled, found>>

(* Whoever waits for another's answer waits three seconds.  The mutant     *)
(* waits for as long as the lock is held.                                  *)
WaitForHolder(k) == seek[k].at = "wait" /\ locks[seek[k].q] = None
WaitIsOver(k) == seek[k].at = "wait"

StopWaiting(k) ==
    /\ WaitIsOver(k) /\ To(k, "call")
    /\ UNCHANGED <<breaker, cooled, found, locks>>

-----------------------------------------------------------------------------
(* The call. *)

OnSuccess == breaker' = Closed /\ UNCHANGED cooled

(* The mutant counts a failure after the cooldown like any other. *)
TripsLate(failures) == breaker.state = "closed" /\ failures >= Threshold
Trips(failures) == breaker.state = "half-open" \/ failures >= Threshold

OnFailure ==
    LET failures == IF breaker.failures < Threshold THEN breaker.failures + 1 ELSE Threshold
    IN  IF Trips(failures)
        THEN breaker' = [state |-> "open", failures |-> failures] /\ cooled' = FALSE
        ELSE breaker' = [breaker EXCEPT !.failures = failures] /\ UNCHANGED cooled

(* What is answered without the provider, and whether it is kept: the      *)
(* loader of a lookup answers as if it had asked.                          *)
Fallback(kind) ==
    CASE kind \in Plain -> "estimate"
      [] kind = "geocode" -> "error"
      [] kind = "reverse" -> "coordinates"
      [] OTHER -> "nothing"
Kept(answer) == answer \in Measured \cup {"coordinates"}
FallBack(k) ==
    LET answer == Fallback(seek[k].q.kind)
    IN  With(k, IF Kept(answer) THEN "keep" ELSE "leave", answer)

CallProvider(k) ==
    /\ seek[k].at = "call"
    /\ IF BreakerAllows
       THEN /\ breaker' = IF breaker.state = "open" THEN [breaker EXCEPT !.state = "half-open"]
                          ELSE breaker
            /\ To(k, "sent")
       ELSE FallBack(k) /\ UNCHANGED breaker
    /\ UNCHANGED <<cooled, found, locks>>

(* What the provider can answer; what it says amiss, or has no answer for, *)
(* is an error of the call.                                                *)
Found(kind) ==
    CASE kind \in Plain -> {"road"} [] kind = "autocomplete" -> {"list"} [] OTHER -> {"place"}

(* The airports found are looked at for terminals, all at once.            *)
AirportsFound(k) ==
    \/ With(k, "keep", "nothing")
    \/ \E n \in 1..MaxTerminals : Move(k, [seek[k] EXCEPT !.at = "terminals", !.left = n])

(* A distance well below the straight line is not believed. *)
Implausible(k) == seek[k].q.kind = "distance" /\ With(k, "leave", "estimate")

Answers(k) ==
    /\ seek[k].at = "sent" /\ OnSuccess
    /\ \/ seek[k].q.kind = "airports" /\ AirportsFound(k)
       \/ seek[k].q.kind # "airports" /\ \E answer \in Found(seek[k].q.kind) : With(k, "keep", answer)
       \/ Implausible(k)
    /\ UNCHANGED <<found, locks>>

Fails(k) ==
    /\ seek[k].at = "sent" /\ OnFailure /\ FallBack(k)
    /\ UNCHANGED <<found, locks>>

OneTerminal(k) ==
    IF seek[k].left = 1 THEN With(k, "keep", "terminals")
    ELSE Move(k, [seek[k] EXCEPT !.left = @ - 1])
TerminalAnswers(k) ==
    /\ seek[k].at = "terminals" /\ OnSuccess /\ OneTerminal(k)
    /\ UNCHANGED <<found, locks>>
TerminalFails(k) ==
    /\ seek[k].at = "terminals" /\ OnFailure /\ OneTerminal(k)
    /\ UNCHANGED <<found, locks>>

(* Five seconds are over: every call is raced against a timer. *)
TimesOut(k) == Fails(k) \/ TerminalFails(k)

Keep(k) ==
    /\ seek[k].at = "keep" /\ To(k, "leave")
    /\ \/ found' = [found EXCEPT ![seek[k].q] = seek[k].answer]
       \/ UNCHANGED found
    /\ UNCHANGED <<breaker, cooled, locks>>

(* The lock is released if it is still one's own, then the next leg or the *)
(* answer to the whole.                                                    *)
Leave(k) ==
    /\ seek[k].at = "leave"
    /\ locks' = IF seek[k].locked /\ locks[seek[k].q] = k
                THEN [locks EXCEPT ![seek[k].q] = None] ELSE locks
    /\ IF seek[k].rest = <<>> THEN To(k, "answered")
       ELSE Move(k, Looking(seek[k].rest, seek[k].fresh))
    /\ UNCHANGED <<breaker, cooled, found>>

Respond(k) ==
    /\ seek[k].at = "answered" /\ Move(k, Nowhere)
    /\ UNCHANGED <<breaker, cooled, found, locks>>

-----------------------------------------------------------------------------
(* Time and the process.                                                   *)
CoolDown ==
    /\ breaker.state = "open" /\ ~cooled /\ cooled' = TRUE
    /\ UNCHANGED <<breaker, found, locks, seek>>

(* A crash forgets the breaker and the requests, and leaves the locks. *)
Restart ==
    /\ \E k \in Seekers : seek[k] # Nowhere
    /\ seek' = [k \in Seekers |-> Nowhere] /\ breaker' = Closed /\ cooled' = FALSE
    /\ UNCHANGED <<found, locks>>

Seeking(k) ==
    \/ Hit(k) \/ Miss(k) \/ AcquireLock(k) \/ StopWaiting(k) \/ CallProvider(k)
    \/ Answers(k) \/ TimesOut(k) \/ TerminalAnswers(k) \/ Keep(k) \/ Leave(k)

-----------------------------------------------------------------------------
(* Properties. *)

MapsTypeOK ==
    /\ breaker \in [state : {"closed", "open", "half-open"}, failures : 0..Threshold]
    /\ cooled \in BOOLEAN
    /\ found \in [Questions -> Measured \cup {None, "coordinates"}]
    /\ locks \in [Questions -> Seekers \cup {None}]
    /\ seek \in [Seekers -> Lookups \cup {Nowhere}]

(* A breaker that is half open is about to change: the call that found it  *)
(* cooled, or one sent later, is still out and its end decides (callProvider, *)
(* onSuccess, onFailure).  Were it not so, a process would go on calling a *)
(* provider that is down, with no failure count left to stop it.           *)
ProbeIsOut ==
    breaker.state = "half-open" => \E k \in Seekers : seek[k].at \in {"sent", "terminals"}

=============================================================================
