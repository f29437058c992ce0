------------------------------ MODULE Accounts ------------------------------
(* Who may sign in: the users table and its refresh tokens (auth.service,  *)
(* user.service, serviceSession.service), the one-time codes (otp.service, *)
(* authOtp.service) and the links that reset a password (passwordReset.    *)
(* service), which are keys in Redis with a time to live.  A request makes *)
(* its calls of the database and of Redis one after the other and others   *)
(* come in between; it may stop after any of them, when the process stops  *)
(* or the call fails.  Without Redis, codes and links are refused.         *)
EXTENDS Integers, FiniteSets, Sequences, TLC

CONSTANTS
    None,
    Users,          \* those who may have an account
    Passwords,
    Unusable,       \* the password of an account nobody chose one for
    Callers,        \* requests under way at one time
    Opening,        \* the tables to start with
    MaxAttempts,    \* wrong guesses of one code (otp.maxAttempts)
    MaxPerDay,      \* codes sent in a day (otp.maxPerDay)
    MaxSessions, MaxCodes, MaxLinks,    \* bounds: tokens, codes and links made
    MaxEffort       \* bound: requests made

Roles == {"USER", "ADMIN"}
UserRow == [role : Roles, active : BOOLEAN, password : Passwords \cup {Unusable}]
SessionRow == [user : Users, from : Nat \cup {None}, live : BOOLEAN, expired : BOOLEAN]

(* A code is known by its number; a hash that is only a counter is none.   *)
NoCode == 0
Code == [code : Nat, attempts : Nat]

(* Tables the system may stand at: no token is exchanged yet, no code was  *)
(* guessed at, and who has a booking has an account.                       *)
Sound(o) ==
    /\ o.users \in [Users -> {None} \cup UserRow] /\ o.sessions \in Seq(SessionRow)
    /\ o.booked \in [Users -> {"none", "live", "past"}]
    /\ o.made \in 0..MaxPerDay /\ o.codes \in [Users -> {None} \cup Code]
    /\ \A t \in DOMAIN o.sessions : o.sessions[t].from = None
    /\ \A u \in Users : /\ o.booked[u] # "none" => o.users[u] # None
                        /\ o.codes[u] # None => o.codes[u].code <= o.made /\ o.codes[u].attempts = 0

ASSUME AccountsAssumption ==
    /\ {MaxAttempts, MaxPerDay} \subseteq Nat \ {0}
    /\ Unusable \notin Passwords /\ None \notin Users \cup UserRow \cup Nat
    /\ IsFiniteSet(Callers) /\ \A o \in Opening : Sound(o)

VARIABLES
    users,          \* users[u]: None, or the row of u
    booked,         \* booked[u]: "none", "live" or "past", the bookings of u
    sessions,       \* the refresh tokens, in the order they were issued
    codes,          \* codes[u]: None, or the code in force and its wrong guesses
    cooling,        \* those who must wait before they ask for another code
    daily,          \* daily[u]: the counter of codes asked for today
    dayEnds,        \* those whose counter has a time to live
    sent,           \* sent[u]: codes delivered since the counter began
    made,           \* codes made so far
    links,          \* links[l]: None, or the user a link is for
    linkOf,         \* linkOf[u]: None, or the last link of u
    calls,          \* calls[k]: a request between two of its steps
    effort
codeVars == <<codes, cooling, daily, dayEnds, sent, made>>
linkVars == <<links, linkOf>>
vars == <<users, booked, sessions, codeVars, linkVars, calls, effort>>

Row(role, password) == [role |-> role, active |-> TRUE, password |-> password]
Account == {u \in Users : users[u] # None}
Active == {u \in Account : users[u].active}
Admins == {u \in Active : users[u].role = "ADMIN"}
Issued == 1..Len(sessions)
Link == 1..Len(links)

Idle == [op |-> "idle"]
Effort == effort < MaxEffort /\ effort' = effort + 1
Begin(k, call) == calls[k] = Idle /\ Effort /\ calls' = [calls EXCEPT ![k] = call]
Continue(k, call) == calls' = [calls EXCEPT ![k] = call] /\ UNCHANGED effort
Leave(k) == Continue(k, Idle)
At_Once == Effort /\ UNCHANGED calls
SetUser(u, row) == users' = [users EXCEPT ![u] = row]

-----------------------------------------------------------------------------
(* Sessions. *)

(* The row of the token refers to its user, who must still exist. *)
Token(u, from) == [user |-> u, from |-> from, live |-> TRUE, expired |-> FALSE]
IssueTokens(k) ==
    LET c == calls[k]
    IN  /\ c.op = "issue" /\ Len(sessions) < MaxSessions
        /\ sessions' = IF c.user \in Account THEN Append(sessions, Token(c.user, c.from)) ELSE sessions
        /\ Leave(k) /\ UNCHANGED <<users, booked, codeVars, linkVars>>

Issuing(u, from) == [op |-> "issue", user |-> u, from |-> from]

Register(k, u) ==
    /\ users[u] = None /\ SetUser(u, Row("USER", Unusable))
    /\ Begin(k, Issuing(u, None)) /\ UNCHANGED <<booked, sessions, codeVars, linkVars>>

Login(k, u, password) ==
    /\ u \in Active /\ users[u].password = password
    /\ Begin(k, Issuing(u, None)) /\ UNCHANGED <<users, booked, sessions, codeVars, linkVars>>

(* The claim of a token is one statement with its condition.  The mutant   *)
(* claims what is revoked already.                                         *)
ClaimableTwice(t) == ~sessions[t].expired
Claimable(t) == sessions[t].live /\ ~sessions[t].expired

Refresh(k, t) ==
    /\ t \in Issued /\ Claimable(t)
    /\ sessions' = [sessions EXCEPT ![t].live = FALSE]
    /\ Begin(k, [op |-> "holder", user |-> sessions[t].user, from |-> t])
    /\ UNCHANGED <<users, booked, codeVars, linkVars>>

ReadHolder(k) ==
    LET c == calls[k]
    IN  /\ c.op = "holder"
        /\ IF c.user \in Active THEN Continue(k, Issuing(c.user, c.from)) ELSE Leave(k)
        /\ UNCHANGED <<users, booked, sessions, codeVars, linkVars>>

Revoked(u) == [t \in Issued |-> IF sessions[t].user = u THEN [sessions[t] EXCEPT !.live = FALSE]
                                ELSE sessions[t]]

Logout(t) ==
    /\ t \in Issued /\ sessions[t].live /\ sessions' = [sessions EXCEPT ![t].live = FALSE]
    /\ At_Once /\ UNCHANGED <<users, booked, codeVars, linkVars>>

LogoutAll(k) ==
    /\ calls[k].op = "logoutAll" /\ sessions' = Revoked(calls[k].user)
    /\ Leave(k) /\ UNCHANGED <<users, booked, codeVars, linkVars>>

BeginLogoutAll(k, u) ==
    /\ u \in Active /\ Begin(k, [op |-> "logoutAll", user |-> u])
    /\ UNCHANGED <<users, booked, sessions, codeVars, linkVars>>

(* The old password is compared, the new one written, all sessions ended.  *)
ChangePassword(k, u, old, new) ==
    /\ u \in Active /\ users[u].password = old /\ new # old
    /\ Begin(k, [op |-> "password", user |-> u, password |-> new])
    /\ UNCHANGED <<users, booked, sessions, codeVars, linkVars>>

SavePassword(k) ==
    LET c == calls[k]
    IN  /\ c.op = "password"
        /\ IF c.user \in Account
           THEN /\ SetUser(c.user, [users[c.user] EXCEPT !.password = c.password])
                /\ Continue(k, [op |-> "logoutAll", user |-> c.user])
           ELSE Leave(k) /\ UNCHANGED users
        /\ UNCHANGED <<booked, sessions, codeVars, linkVars>>

(* Tokens run out, and are then deleted: nothing can tell them apart.      *)
Expire(t) ==
    /\ t \in Issued /\ ~sessions[t].expired
    /\ sessions' = [sessions EXCEPT ![t].expired = TRUE]
    /\ At_Once /\ UNCHANGED <<users, booked, codeVars, linkVars>>

(* A customer who writes on WhatsApp gets an account by his number. *)
BeginWhatsApp(k, u) ==
    /\ users[u] = None /\ Begin(k, [op |-> "whatsapp", user |-> u])
    /\ UNCHANGED <<users, booked, sessions, codeVars, linkVars>>

ResolveCustomer(k) ==
    LET u == calls[k].user
    IN  /\ calls[k].op = "whatsapp"
        /\ IF users[u] = None THEN SetUser(u, Row("USER", Unusable)) ELSE UNCHANGED users
        /\ Leave(k) /\ UNCHANGED <<booked, sessions, codeVars, linkVars>>

-----------------------------------------------------------------------------
(* One-time codes. *)

RequestOtp(k, u) ==
    /\ u \in Active \ cooling
    /\ Begin(k, [op |-> "asked", user |-> u])
    /\ UNCHANGED <<users, booked, sessions, codeVars, linkVars>>

(* The counter is incremented first and compared then; the first of a day  *)
(* is given its end by a call of its own.                                  *)
WithinDay(count) == count <= MaxPerDay

CountRequest(k) ==
    LET c == calls[k]  count == daily[c.user] + 1
    IN  /\ c.op = "asked"
        /\ daily' = [daily EXCEPT ![c.user] = count]
        /\ IF count = 1 THEN Continue(k, [c EXCEPT !.op = "dayBegins"])
           ELSE IF WithinDay(count) THEN Continue(k, [c EXCEPT !.op = "store"]) ELSE Leave(k)
        /\ UNCHANGED <<users, booked, sessions, codes, cooling, dayEnds, sent, made, linkVars>>

BeginDay(k) ==
    /\ calls[k].op = "dayBegins" /\ dayEnds' = dayEnds \cup {calls[k].user}
    /\ Continue(k, [calls[k] EXCEPT !.op = "store"])
    /\ UNCHANGED <<users, booked, sessions, codes, cooling, daily, sent, made, linkVars>>

(* Code and cooldown in one transaction of Redis, over whatever is there.  *)
StoreCode(k) ==
    LET u == calls[k].user
    IN  /\ calls[k].op = "store" /\ made < MaxCodes /\ made' = made + 1
        /\ codes' = [codes EXCEPT ![u] = [code |-> made + 1, attempts |-> 0]]
        /\ cooling' = cooling \cup {u}
        /\ Continue(k, [op |-> "deliver", user |-> u])
        /\ UNCHANGED <<users, booked, sessions, daily, dayEnds, sent, linkVars>>

Delivered(k) ==
    LET u == calls[k].user
    IN  /\ calls[k].op = "deliver" /\ sent' = [sent EXCEPT ![u] = @ + 1]
        /\ Leave(k)
        /\ UNCHANGED <<users, booked, sessions, codes, cooling, daily, dayEnds, made, linkVars>>

Forgotten(u) == codes' = [codes EXCEPT ![u] = None] /\ cooling' = cooling \ {u}

DeliveryFails(k) ==
    /\ calls[k].op = "deliver" /\ Forgotten(calls[k].user)
    /\ Continue(k, [calls[k] EXCEPT !.op = "uncount"])
    /\ UNCHANGED <<users, booked, sessions, daily, dayEnds, sent, made, linkVars>>

(* DECR of a counter that has come to its end makes one of -1. *)
Uncount(k) ==
    /\ calls[k].op = "uncount" /\ daily' = [daily EXCEPT ![calls[k].user] = @ - 1]
    /\ Leave(k)
    /\ UNCHANGED <<users, booked, sessions, codes, cooling, dayEnds, sent, made, linkVars>>

(* The account is read, then the record of its code. *)
VerifyAndLogin(k, u, code) ==
    /\ u \in Account
    /\ Begin(k, [op |-> "verify", user |-> u, active |-> users[u].active, code |-> code])
    /\ UNCHANGED <<users, booked, sessions, codeVars, linkVars>>

InForce(u) == codes[u] # None /\ codes[u].code # NoCode

(* The mutant trusts the guess that uses them up to delete the code. *)
LockedNever(u) == FALSE
Locked(u) == codes[u].attempts >= MaxAttempts

VerifyOtp(k) ==
    LET c == calls[k]  u == c.user
    IN  /\ c.op = "verify"
        /\ IF ~InForce(u) THEN Leave(k)
           ELSE Continue(k, [c EXCEPT !.op = IF Locked(u) THEN "lock"
                                             ELSE IF c.code = codes[u].code THEN "use" ELSE "wrong"])
        /\ UNCHANGED <<users, booked, sessions, codeVars, linkVars>>

(* The increment makes the hash again if it is gone. *)
CountGuess(k) ==
    LET c == calls[k]  u == c.user
        record == IF codes[u] = None THEN [code |-> NoCode, attempts |-> 1]
                  ELSE [codes[u] EXCEPT !.attempts = @ + 1]
    IN  /\ c.op = "wrong"
        /\ codes' = [codes EXCEPT ![u] = record]
        /\ IF record.attempts >= MaxAttempts THEN Continue(k, [c EXCEPT !.op = "lock"]) ELSE Leave(k)
        /\ UNCHANGED <<users, booked, sessions, cooling, daily, dayEnds, sent, made, linkVars>>

Lock(k) ==
    /\ calls[k].op = "lock" /\ codes' = [codes EXCEPT ![calls[k].user] = None]
    /\ Leave(k)
    /\ UNCHANGED <<users, booked, sessions, cooling, daily, dayEnds, sent, made, linkVars>>

UseCode(k) ==
    LET c == calls[k]
    IN  /\ c.op = "use" /\ Forgotten(c.user)
        /\ IF c.active THEN Continue(k, Issuing(c.user, None)) ELSE Leave(k)
        /\ UNCHANGED <<users, booked, sessions, daily, dayEnds, sent, made, linkVars>>

CodeExpires(u) ==
    /\ InForce(u) /\ codes' = [codes EXCEPT ![u] = None]
    /\ UNCHANGED <<users, booked, sessions, cooling, daily, dayEnds, sent, made, linkVars, calls, effort>>

CooldownEnds(u) ==
    /\ u \in cooling /\ cooling' = cooling \ {u}
    /\ UNCHANGED <<users, booked, sessions, codes, daily, dayEnds, sent, made, linkVars, calls, effort>>

DayEnds(u) ==
    /\ u \in dayEnds /\ dayEnds' = dayEnds \ {u}
    /\ daily' = [daily EXCEPT ![u] = 0] /\ sent' = [sent EXCEPT ![u] = 0]
    /\ UNCHANGED <<users, booked, sessions, codes, cooling, made, linkVars, calls, effort>>

-----------------------------------------------------------------------------
(* Links that reset a password. *)

RequestReset(k, u) ==
    /\ u \in Active
    /\ Begin(k, [op |-> "reset", user |-> u])
    /\ UNCHANGED <<users, booked, sessions, codeVars, linkVars>>

(* The link before is looked up, deleted, and the new one stored. *)
ReadPrevious(k) ==
    LET c == calls[k]
    IN  /\ c.op = "reset"
        /\ Continue(k, [op |-> IF linkOf[c.user] = None THEN "link" ELSE "unlink",
                        user |-> c.user, previous |-> linkOf[c.user]])
        /\ UNCHANGED <<users, booked, sessions, codeVars, linkVars>>

DeletePrevious(k) ==
    /\ calls[k].op = "unlink" /\ links' = [links EXCEPT ![calls[k].previous] = None]
    /\ Continue(k, [calls[k] EXCEPT !.op = "link"])
    /\ UNCHANGED <<users, booked, sessions, codeVars, linkOf>>

(* The link and the pointer to it in one transaction of Redis. *)
StoreLink(k) ==
    LET u == calls[k].user
    IN  /\ calls[k].op = "link" /\ Len(links) < MaxLinks
        /\ links' = Append(links, u) /\ linkOf' = [linkOf EXCEPT ![u] = Len(links) + 1]
        /\ Continue(k, [op |-> "mail", user |-> u, link |-> Len(links) + 1])
        /\ UNCHANGED <<users, booked, sessions, codeVars>>

MailSent(k) ==
    /\ calls[k].op = "mail" /\ Leave(k)
    /\ UNCHANGED <<users, booked, sessions, codeVars, linkVars>>

MailFails(k) ==
    LET c == calls[k]
    IN  /\ c.op = "mail"
        /\ links' = [links EXCEPT ![c.link] = None] /\ linkOf' = [linkOf EXCEPT ![c.user] = None]
        /\ Leave(k) /\ UNCHANGED <<users, booked, sessions, codeVars>>

LinkExpires(l) ==
    /\ links[l] # None
    /\ linkOf' = [u \in Users |-> IF linkOf[u] = l THEN None ELSE linkOf[u]]
    /\ links' = [links EXCEPT ![l] = None]
    /\ UNCHANGED <<users, booked, sessions, codeVars, calls, effort>>

(* Looked up, deleted with the pointer of its user, and only then used.    *)
ResetPassword(k, l, new) ==
    /\ links[l] # None
    /\ Begin(k, [op |-> "redeem", user |-> links[l], link |-> l, password |-> new])
    /\ UNCHANGED <<users, booked, sessions, codeVars, linkVars>>

ConsumeLink(k) ==
    LET c == calls[k]
    IN  /\ c.op = "redeem"
        /\ links' = [links EXCEPT ![c.link] = None] /\ linkOf' = [linkOf EXCEPT ![c.user] = None]
        /\ Continue(k, [c EXCEPT !.op = "redeemed"]) /\ UNCHANGED <<users, booked, sessions, codeVars>>

ReadForReset(k) ==
    LET c == calls[k]
    IN  /\ c.op = "redeemed"
        /\ IF c.user \in Active /\ users[c.user].password # c.password
           THEN Continue(k, [op |-> "password", user |-> c.user, password |-> c.password])
           ELSE Leave(k)
        /\ UNCHANGED <<users, booked, sessions, codeVars, linkVars>>

-----------------------------------------------------------------------------
(* Staff.  An edit looks at its target and counts the other administrators *)
(* and is then written, whatever has happened in between.                  *)

Create(u, role, password) ==
    /\ Admins # {} /\ users[u] = None /\ SetUser(u, Row(role, password))
    /\ At_Once /\ UNCHANGED <<booked, sessions, codeVars, linkVars>>

OthersRemain(u) == users[u].role = "ADMIN" => Admins \ {u} # {}

Demote(k, a, u) ==
    /\ a \in Admins \ {u} /\ u \in Account /\ OthersRemain(u)
    /\ Begin(k, [op |-> "edit", user |-> u, role |-> "USER", active |-> None, ends |-> FALSE])
    /\ UNCHANGED <<users, booked, sessions, codeVars, linkVars>>

SetActive(k, a, u, on) ==
    /\ a \in Admins \ {u} /\ u \in Account /\ (~on => OthersRemain(u))
    /\ Begin(k, [op |-> "edit", user |-> u, role |-> None, active |-> on, ends |-> ~on])
    /\ UNCHANGED <<users, booked, sessions, codeVars, linkVars>>

(* The form of a user deactivates without ending sessions. *)
Edit(k, a, u) ==
    /\ a \in Admins \ {u} /\ u \in Account
    /\ Begin(k, [op |-> "edit", user |-> u, role |-> None, active |-> FALSE, ends |-> FALSE])
    /\ UNCHANGED <<users, booked, sessions, codeVars, linkVars>>

SaveEdit(k) ==
    LET c == calls[k]  row == users[c.user]
    IN  /\ c.op = "edit"
        /\ IF c.user \in Account
           THEN /\ SetUser(c.user, [row EXCEPT !.role = IF c.role = None THEN @ ELSE c.role,
                                               !.active = IF c.active = None THEN @ ELSE c.active])
                /\ IF c.ends THEN Continue(k, [op |-> "logoutAll", user |-> c.user]) ELSE Leave(k)
           ELSE Leave(k) /\ UNCHANGED users
        /\ UNCHANGED <<booked, sessions, codeVars, linkVars>>

(* An account is closed by its holder or by staff: no trip may be under    *)
(* way, and what is kept is counted, before the transaction.               *)
Remove(k, a, u) ==
    /\ u \in Account /\ a \in Active
    /\ IF a = u THEN users[u].role # "ADMIN" ELSE users[a].role = "ADMIN" /\ OthersRemain(u)
    /\ booked[u] # "live"
    /\ Begin(k, [op |-> "close", user |-> u, retain |-> booked[u] # "none"])
    /\ UNCHANGED <<users, booked, sessions, codeVars, linkVars>>

(* The row of a booking refers to its customer and restricts his deletion; *)
(* the mutant cascades.                                                    *)
DeletableAnyway(u) == TRUE
Deletable(u) == booked[u] = "none"

Close(k) ==
    LET c == calls[k]  u == c.user
    IN  /\ c.op = "close"
        /\ IF u \in Account /\ c.retain
           THEN /\ SetUser(u, [users[u] EXCEPT !.active = FALSE, !.password = Unusable])
                /\ sessions' = Revoked(u)
           ELSE IF u \in Account /\ Deletable(u)
           THEN SetUser(u, None) /\ sessions' = Revoked(u)
           ELSE UNCHANGED <<users, sessions>>
        /\ Leave(k) /\ UNCHANGED <<booked, codeVars, linkVars>>

(* The rest of the system, as far as it matters here. *)
Book(u) ==
    /\ u \in Active /\ booked' = [booked EXCEPT ![u] = "live"]
    /\ At_Once /\ UNCHANGED <<users, sessions, codeVars, linkVars>>

EndTrip(u) ==
    /\ booked[u] = "live" /\ booked' = [booked EXCEPT ![u] = "past"]
    /\ UNCHANGED <<users, sessions, codeVars, linkVars, calls, effort>>

(* The process stops, or a call of Redis or of the database fails. *)
Crash(k) ==
    /\ calls[k] # Idle /\ Leave(k)
    /\ UNCHANGED <<users, booked, sessions, codeVars, linkVars>>

-----------------------------------------------------------------------------
Init ==
    /\ \E o \in Opening :
          /\ users = o.users /\ booked = o.booked /\ sessions = o.sessions
          /\ codes = o.codes /\ made = o.made
          /\ sent = [u \in Users |-> IF o.codes[u] = None THEN 0 ELSE o.made]
          /\ daily = sent /\ dayEnds = {u \in Users : sent[u] > 0}
    /\ cooling = {}
    /\ links = <<>> /\ linkOf = [u \in Users |-> None]
    /\ calls = [k \in Callers |-> Idle] /\ effort = 0

SignIns(k, u) ==
    \/ Register(k, u) \/ BeginLogoutAll(k, u) \/ BeginWhatsApp(k, u)
    \/ \E password \in Passwords : Login(k, u, password)
    \/ \E old, new \in Passwords : ChangePassword(k, u, old, new)
    \/ RequestOtp(k, u) \/ (\E code \in NoCode..made : VerifyAndLogin(k, u, code))
    \/ RequestReset(k, u)

Administration(k, a, u) ==
    \/ Demote(k, a, u) \/ Edit(k, a, u) \/ Remove(k, a, u)
    \/ \E on \in BOOLEAN : SetActive(k, a, u, on)

Progress(k) ==
    \/ IssueTokens(k) \/ ReadHolder(k) \/ LogoutAll(k) \/ SavePassword(k) \/ ResolveCustomer(k)
    \/ CountRequest(k) \/ BeginDay(k) \/ StoreCode(k) \/ Delivered(k) \/ DeliveryFails(k) \/ Uncount(k)
    \/ VerifyOtp(k) \/ CountGuess(k) \/ Lock(k) \/ UseCode(k)
    \/ ReadPrevious(k) \/ DeletePrevious(k) \/ StoreLink(k) \/ MailSent(k) \/ MailFails(k)
    \/ ConsumeLink(k) \/ ReadForReset(k) \/ SaveEdit(k) \/ Close(k) \/ Crash(k)

Next ==
    \/ \E k \in Callers, u \in Users : SignIns(k, u)
    \/ \E k \in Callers, a, u \in Users : Administration(k, a, u)
    \/ \E k \in Callers, t \in Issued : Refresh(k, t)
    \/ \E k \in Callers, l \in Link, new \in Passwords : ResetPassword(k, l, new)
    \/ \E k \in Callers : Progress(k)
    \/ \E t \in Issued : Logout(t) \/ Expire(t)
    \/ \E l \in Link : LinkExpires(l)
    \/ \E u \in Users : CodeExpires(u) \/ CooldownEnds(u) \/ DayEnds(u) \/ Book(u) \/ EndTrip(u)
    \/ \E u \in Users, role \in Roles, password \in Passwords : Create(u, role, password)

Spec == Init /\ [][Next]_vars

-----------------------------------------------------------------------------
(* The tables and keys have their types. *)
Call ==
    {Idle}
    \cup [op : {"issue", "holder"}, user : Users, from : Nat \cup {None}]
    \cup [op : {"logoutAll", "whatsapp", "asked", "dayBegins", "store", "deliver", "uncount", "reset"},
          user : Users]
    \cup [op : {"password"}, user : Users, password : Passwords]
    \cup [op : {"verify", "lock", "use", "wrong"}, user : Users, active : BOOLEAN, code : Nat]
    \cup [op : {"link", "unlink"}, user : Users, previous : Nat \cup {None}]
    \cup [op : {"mail"}, user : Users, link : Nat]
    \cup [op : {"redeem", "redeemed"}, user : Users, link : Nat, password : Passwords]
    \cup [op : {"edit"}, user : Users, role : Roles \cup {None}, active : BOOLEAN \cup {None}, ends : BOOLEAN]
    \cup [op : {"close"}, user : Users, retain : BOOLEAN]

TypeOK ==
    /\ users \in [Users -> {None} \cup UserRow] /\ calls \in [Callers -> Call]
    /\ booked \in [Users -> {"none", "live", "past"}]
    /\ sessions \in Seq(SessionRow) /\ \A t \in Issued : sessions[t].from \in 1..(t - 1) \cup {None}
    /\ made \in Nat /\ codes \in [Users -> {None} \cup Code]
    /\ \A u \in Users : codes[u] # None => codes[u].code <= made
    /\ cooling \cup dayEnds \subseteq Users /\ daily \in [Users -> Int] /\ sent \in [Users -> Nat]
    /\ links \in Seq(Users \cup {None}) /\ linkOf \in [Users -> Link \cup {None}]

(* A refresh token is exchanged for one other at most, however many        *)
(* refreshes of it are under way (auth.refresh, "Two concurrent refreshes  *)
(* cannot both win").                                                      *)
RotatedOnce ==
    \A s, t \in Issued : sessions[s].from = sessions[t].from /\ sessions[s].from # None => s = t

(* A code is guessed at, and codes are sent in a day, no more often than   *)
(* their limits and the requests under way allow, whatever was resent,     *)
(* failed to be delivered, expired or stopped on the way (otp.requestOtp,  *)
(* otp.verifyOtp).                                                         *)
CodesBounded ==
    \A u \in Users :
        /\ codes[u] # None => codes[u].attempts < MaxAttempts + Cardinality(Callers)
        /\ sent[u] <= MaxPerDay + Cardinality(Callers)

(* Tables and keys are well typed, and a customer with a booking, past or  *)
(* under way, keeps a row, though the booking is made while the account is *)
(* being closed (user.remove, and the reference of bookings to customers). *)
HistoryKept == TypeOK /\ \A u \in Users : booked[u] # "none" => u \in Account
=============================================================================
