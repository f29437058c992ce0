--------------------------- MODULE AccountsProofs ---------------------------
(***************************************************************************)
(* Theorems about Accounts, for any users, tables to start with, limits    *)
(* and number of requests side by side.                                    *)
(***************************************************************************)
EXTENDS Accounts, Addresses, DataTheorems

(* A request that has claimed a token and may yet exchange it. *)
Rotating(k) == calls[k].op \in {"issue", "holder"} /\ calls[k].from # None

(* A token claimed is revoked, has one claimant and nothing in exchange    *)
(* yet; a token in force has nothing in exchange either.                   *)
SessionInv ==
    /\ \A k \in Callers : Rotating(k) =>
          /\ calls[k].from \in Issued /\ ~sessions[calls[k].from].live
          /\ \A s \in Issued : sessions[s].from # calls[k].from
    /\ \A j, k \in Callers : Rotating(j) /\ Rotating(k) /\ calls[j].from = calls[k].from => j = k
    /\ \A s, t \in Issued : sessions[t].live => sessions[s].from # t
    /\ RotatedOnce

(* Requests that will count a wrong guess at the code of u, and those that *)
(* may yet deliver a code to u or give its count back.                     *)
Wrong(u) == { k \in Callers : calls[k].op = "wrong" /\ calls[k].user = u }

Sending(u) ==
    { k \in Callers : calls[k].op \in {"dayBegins", "store", "deliver", "uncount"} /\ calls[k].user = u }

Guesses(u) == IF codes[u] = None THEN 0 ELSE codes[u].attempts

(* What is under way counts as done: the guesses that passed the check of  *)
(* the limit, and the codes that passed the limit of the day.  A day that  *)
(* ends leaves those under way uncounted, and there are no more of them    *)
(* than requests.                                                          *)
CodeInv ==
    \A u \in Users :
        /\ Guesses(u) + Cardinality(Wrong(u)) < MaxAttempts + Cardinality(Callers)
        /\ sent[u] + Cardinality(Sending(u)) <= daily[u] + Cardinality(Callers)
        /\ sent[u] + Cardinality(Sending(u)) <= MaxPerDay + Cardinality(Callers)

IndInv == HistoryKept /\ SessionInv /\ CodeInv

-----------------------------------------------------------------------------
LEMMA CallTyped ==
    ASSUME TypeOK, NEW k \in Callers
    PROVE  /\ calls[k] \in Call
           /\ calls[k].op # "idle" => calls[k].user \in Users
           /\ calls[k].op \in {"issue", "holder"} => calls[k].from \in Nat \cup {None}
           /\ calls[k].op \in {"password", "redeem", "redeemed"} => calls[k].password \in Passwords
           /\ calls[k].op \in {"redeem", "redeemed", "mail"} => calls[k].link \in Nat
           /\ calls[k].op = "edit" => calls[k].role \in Roles \cup {None}
                                      /\ calls[k].active \in BOOLEAN \cup {None}
                                      /\ calls[k].ends \in BOOLEAN
           /\ calls[k].op \in {"verify", "lock", "use", "wrong"} =>
                 calls[k].active \in BOOLEAN /\ calls[k].code \in Nat
<1>1. calls[k] \in Call
  BY DEF TypeOK
<1> QED
  BY <1>1 DEF Call, Idle

LEMMA CallersFinite ==
    /\ Cardinality(Callers) \in Nat
    /\ \A u : /\ IsFiniteSet(Wrong(u)) /\ IsFiniteSet(Sending(u))
              /\ Cardinality(Wrong(u)) \in Nat /\ Cardinality(Sending(u)) \in Nat
              /\ Cardinality(Wrong(u)) <= Cardinality(Callers)
              /\ Cardinality(Sending(u)) <= Cardinality(Callers)
<1>1. IsFiniteSet(Callers)
  BY AccountsAssumption
<1>2. ASSUME NEW S \in SUBSET Callers
      PROVE  IsFiniteSet(S) /\ Cardinality(S) \in Nat /\ Cardinality(S) <= Cardinality(Callers)
  BY <1>1, FS_Subset, FS_CardinalityType
<1>3. \A u : Wrong(u) \in SUBSET Callers /\ Sending(u) \in SUBSET Callers
  BY DEF Wrong, Sending
<1> QED
  BY <1>1, <1>2, <1>3, FS_CardinalityType

(* A step none of the invariants is about: what requests carry of tokens   *)
(* and codes stays as it is or is dropped, tokens are revoked or expire,   *)
(* and codes are forgotten or made anew.                                   *)
Tame(j) ==
    \/ calls'[j] = calls[j]
    \/ calls'[j].op \notin {"issue", "holder", "wrong", "dayBegins", "store", "deliver", "uncount"}
    \/ calls'[j].op \in {"issue", "holder"} /\ calls'[j].from = None
    \/ /\ calls'[j].op \in {"issue", "holder"} /\ calls[j].op \in {"issue", "holder"}
       /\ calls'[j].from = calls[j].from
    \/ /\ {calls'[j].op, calls[j].op} \subseteq {"dayBegins", "store", "deliver", "uncount"}
       /\ calls'[j].user = calls[j].user

SessionsTame ==
    /\ DOMAIN sessions' = DOMAIN sessions /\ Len(sessions') = Len(sessions)
    /\ \A t \in Issued : sessions'[t].from = sessions[t].from
                         /\ (sessions'[t].live => sessions[t].live)

LEMMA SessionsKept ==
    ASSUME TypeOK, SessionInv, SessionsTame,
           \A j \in Callers : Rotating(j)' => Rotating(j) /\ calls'[j].from = calls[j].from
    PROVE  SessionInv'
<1>1. Issued' = Issued
  BY DEF SessionsTame, Issued
<1>2. RotatedOnce'
  BY <1>1 DEF SessionInv, RotatedOnce, SessionsTame
<1> QED
  BY <1>1, <1>2 DEF SessionInv, SessionsTame

LEMMA CodesKept ==
    ASSUME TypeOK, TypeOK', CodeInv, \A j \in Callers : Tame(j), UNCHANGED <<sent, daily>>,
           \A u \in Users : codes'[u] = codes[u] \/ codes'[u] = None \/ codes'[u].attempts = 0
    PROVE  CodeInv'
<1> SUFFICES ASSUME NEW u \in Users
             PROVE  /\ Guesses(u)' + Cardinality(Wrong(u)') < MaxAttempts + Cardinality(Callers)
                    /\ sent[u] + Cardinality(Sending(u)') <= daily[u] + Cardinality(Callers)
                    /\ sent[u] + Cardinality(Sending(u)') <= MaxPerDay + Cardinality(Callers)
  BY DEF CodeInv
<1>1. Wrong(u)' \subseteq Wrong(u) /\ Sending(u)' \subseteq Sending(u)
  BY DEF Tame, Wrong, Sending
<1>2. /\ Cardinality(Wrong(u)') <= Cardinality(Wrong(u)) /\ Cardinality(Wrong(u)') \in Nat
      /\ Cardinality(Sending(u)') <= Cardinality(Sending(u)) /\ Cardinality(Sending(u)') \in Nat
  BY <1>1, CallersFinite, FS_Subset, FS_CardinalityType
<1>3. Guesses(u)' \in Nat /\ Guesses(u) \in Nat /\ Guesses(u)' <= Guesses(u)
  <2>1. codes[u] \in {None} \cup Code /\ codes'[u] \in {None} \cup Code
    BY DEF TypeOK
  <2> QED
    BY <2>1 DEF Guesses, Code
<1>4. sent[u] \in Nat /\ daily[u] \in Int
  BY DEF TypeOK
<1> QED
  BY <1>2, <1>3, <1>4, CallersFinite, AccountsAssumption DEF CodeInv

LEMMA Kept ==
    ASSUME IndInv, TypeOK', \A u \in Users : booked'[u] # "none" => users'[u] # None,
           \A j \in Callers : Tame(j), SessionsTame, UNCHANGED <<sent, daily>>,
           \A u \in Users : codes'[u] = codes[u] \/ codes'[u] = None \/ codes'[u].attempts = 0
    PROVE  IndInv'
<1>1. SessionInv'
  <2>1. \A j \in Callers : Rotating(j)' => Rotating(j) /\ calls'[j].from = calls[j].from
    BY DEF Tame, Rotating
  <2> QED
    BY <2>1, SessionsKept DEF IndInv, HistoryKept
<1>2. CodeInv'
  BY CodesKept DEF IndInv, HistoryKept
<1> QED
  BY <1>1, <1>2 DEF IndInv, HistoryKept, Account

(* The stages of a call that say nothing of tokens and codes. *)
Plain == {"idle", "logoutAll", "password", "whatsapp", "asked", "verify", "lock", "use", "reset",
          "link", "unlink", "mail", "redeem", "redeemed", "edit", "close"}

Follows(call, next) ==
    \/ next.op \in Plain
    \/ next.op = "issue" /\ next.from = None
    \/ next.op = "issue" /\ call.op = "holder" /\ next.from = call.from
    \/ /\ {next.op, call.op} \subseteq {"dayBegins", "store", "deliver", "uncount"}
       /\ next.user = call.user

LEMMA Continued ==
    ASSUME TypeOK, NEW k \in Callers, NEW next \in Call, Follows(calls[k], next),
           calls' = [calls EXCEPT ![k] = next]
    PROVE  /\ calls' \in [Callers -> Call] /\ calls'[k] = next
           /\ \A j \in Callers : Tame(j)
<1>1. /\ calls' \in [Callers -> Call] /\ calls'[k] = next
      /\ \A j \in Callers \ {k} : calls'[j] = calls[j]
  BY DEF TypeOK
<1>2. Tame(k)
  BY <1>1 DEF Tame, Follows, Plain
<1> QED
  BY <1>1, <1>2 DEF Tame

LEMMA CallsOnly ==
    ASSUME IndInv, NEW k \in Callers, NEW next \in Call, Follows(calls[k], next),
           calls' = [calls EXCEPT ![k] = next],
           UNCHANGED <<users, booked, sessions, codeVars, linkVars>>
    PROVE  IndInv'
<1>1. calls' \in [Callers -> Call] /\ \A j \in Callers : Tame(j)
  BY Continued DEF IndInv, HistoryKept
<1>2. UNCHANGED <<users, booked, sessions, codes, cooling, daily, dayEnds, sent, made, links, linkOf>>
  BY DEF codeVars, linkVars
<1>3. TypeOK'
  BY <1>1, <1>2 DEF IndInv, HistoryKept, TypeOK, Account, Issued, Link
<1>4. SessionsTame
  BY <1>2 DEF SessionsTame
<1> QED
  BY <1>1, <1>2, <1>3, <1>4, Kept DEF IndInv, HistoryKept, Account

LEMMA IdleIsCall == Idle \in Call /\ Idle.op = "idle" /\ \A call : Follows(call, Idle)
BY DEF Call, Idle, Follows, Plain

(* A call begun or ended without a write. *)
LEMMA ReadsKeep ==
    ASSUME IndInv, NEW k \in Callers, NEW u \in Users,
           \/ BeginLogoutAll(k, u) \/ BeginWhatsApp(k, u) \/ RequestOtp(k, u) \/ RequestReset(k, u)
           \/ \E password \in Passwords : Login(k, u, password)
           \/ \E old, new \in Passwords : ChangePassword(k, u, old, new)
           \/ \E code \in NoCode..made : VerifyAndLogin(k, u, code)
    PROVE  IndInv'
<1>1. ASSUME NEW next \in Call, Begin(k, next),
             next.op \in Plain \/ (next.op = "issue" /\ next.from = None),
             UNCHANGED <<users, booked, sessions, codeVars, linkVars>>
      PROVE  IndInv'
  BY <1>1, CallsOnly DEF Begin, Follows
<1>2. ASSUME NEW op \in {"logoutAll", "whatsapp", "asked", "reset"}
      PROVE  [op |-> op, user |-> u] \in Call /\ [op |-> op, user |-> u].op \in Plain
  BY DEF Call, Plain
<1>3. CASE BeginLogoutAll(k, u) \/ BeginWhatsApp(k, u) \/ RequestOtp(k, u) \/ RequestReset(k, u)
  BY <1>1, <1>2, <1>3 DEF BeginLogoutAll, BeginWhatsApp, RequestOtp, RequestReset
<1>4. ASSUME NEW password \in Passwords, Login(k, u, password) PROVE IndInv'
  <2>1. Issuing(u, None) \in Call /\ Issuing(u, None).op = "issue" /\ Issuing(u, None).from = None
    BY DEF Issuing, Call
  <2> QED
    BY <1>1, <1>4, <2>1 DEF Login
<1>5. ASSUME NEW old \in Passwords, NEW new \in Passwords, ChangePassword(k, u, old, new) PROVE IndInv'
  <2>1. [op |-> "password", user |-> u, password |-> new] \in Call
    BY DEF Call
  <2> QED
    BY <1>1, <1>5, <2>1 DEF ChangePassword, Plain
<1>6. ASSUME NEW code \in NoCode..made, VerifyAndLogin(k, u, code) PROVE IndInv'
  <2>1. users[u].active \in BOOLEAN /\ code \in Nat
    BY <1>6 DEF VerifyAndLogin, IndInv, HistoryKept, TypeOK, Account, UserRow, NoCode
  <2>2. [op |-> "verify", user |-> u, active |-> users[u].active, code |-> code] \in Call
    BY <2>1 DEF Call
  <2> QED
    BY <1>1, <1>6, <2>2 DEF VerifyAndLogin, Plain
<1> QED
  BY <1>3, <1>4, <1>5, <1>6

LEMMA OversightKeeps ==
    ASSUME IndInv, NEW k \in Callers, NEW a \in Users, NEW u \in Users, Administration(k, a, u)
    PROVE  IndInv'
<1>1. ASSUME NEW next \in Call, Begin(k, next), next.op \in Plain,
             UNCHANGED <<users, booked, sessions, codeVars, linkVars>>
      PROVE  IndInv'
  BY <1>1, CallsOnly DEF Begin, Follows
<1>2. ASSUME NEW role \in Roles \cup {None}, NEW active \in BOOLEAN \cup {None}, NEW ends \in BOOLEAN
      PROVE  [op |-> "edit", user |-> u, role |-> role, active |-> active, ends |-> ends] \in Call
  BY DEF Call
<1>3. CASE Demote(k, a, u)
  <2>1. "USER" \in Roles
    BY DEF Roles
  <2> QED
    BY <1>1, <1>2, <1>3, <2>1 DEF Demote, Plain
<1>4. CASE Edit(k, a, u)
  BY <1>1, <1>2, <1>4 DEF Edit, Plain
<1>5. ASSUME NEW on \in BOOLEAN, SetActive(k, a, u, on) PROVE IndInv'
  <2> DEFINE next == [op |-> "edit", user |-> u, role |-> None, active |-> on, ends |-> ~on]
  <2>1. next \in Call /\ next.op \in Plain
    BY <1>2 DEF Plain
  <2>2. Begin(k, next) /\ UNCHANGED <<users, booked, sessions, codeVars, linkVars>>
    BY <1>5 DEF SetActive
  <2> HIDE DEF next
  <2> QED
    BY <1>1, <2>1, <2>2
<1>6. CASE Remove(k, a, u)
  <2> DEFINE next == [op |-> "close", user |-> u, retain |-> booked[u] # "none"]
  <2>1. next \in Call /\ next.op \in Plain
    BY DEF Call, Plain
  <2>2. Begin(k, next) /\ UNCHANGED <<users, booked, sessions, codeVars, linkVars>>
    BY <1>6 DEF Remove
  <2> HIDE DEF next
  <2> QED
    BY <1>1, <2>1, <2>2
<1> QED
  BY <1>3, <1>4, <1>5, <1>6 DEF Administration

(* Steps of requests that write nothing. *)
LEMMA ProgressReads ==
    ASSUME IndInv, NEW k \in Callers,
           ReadHolder(k) \/ ReadPrevious(k) \/ MailSent(k) \/ ReadForReset(k) \/ Crash(k)
    PROVE  IndInv'
<1> USE IdleIsCall
<1> DEFINE c == calls[k]
<1>1. ASSUME NEW next \in Call, Continue(k, next), Follows(c, next),
             UNCHANGED <<users, booked, sessions, codeVars, linkVars>>
      PROVE  IndInv'
  BY <1>1, CallsOnly DEF Continue
<1>2. CASE ReadHolder(k)
  <2>1. c.user \in Users /\ c.from \in Nat \cup {None}
    BY <1>2, CallTyped DEF ReadHolder, IndInv, HistoryKept
  <2>2. Issuing(c.user, c.from) \in Call /\ Follows(c, Issuing(c.user, c.from))
    BY <1>2, <2>1 DEF Issuing, Call, Follows, ReadHolder
  <2> QED
    BY <1>1, <1>2, <2>2 DEF ReadHolder, Leave
<1>3. CASE ReadPrevious(k)
  <2> DEFINE next == [op |-> IF linkOf[c.user] = None THEN "link" ELSE "unlink",
                      user |-> c.user, previous |-> linkOf[c.user]]
  <2>1. c.user \in Users
    BY <1>3, CallTyped DEF ReadPrevious, IndInv, HistoryKept
  <2>2. linkOf[c.user] \in Nat \cup {None}
    BY <2>1 DEF IndInv, HistoryKept, TypeOK, Link
  <2>3. next \in Call /\ Follows(c, next)
    BY <2>1, <2>2 DEF Call, Follows, Plain
  <2>4. Continue(k, next) /\ UNCHANGED <<users, booked, sessions, codeVars, linkVars>>
    BY <1>3 DEF ReadPrevious
  <2> HIDE DEF next
  <2> QED
    BY <1>1, <2>3, <2>4
<1>4. CASE ReadForReset(k)
  <2> DEFINE next == [op |-> "password", user |-> c.user, password |-> c.password]
  <2>1. c.user \in Users /\ c.password \in Passwords
    BY <1>4, CallTyped DEF ReadForReset, IndInv, HistoryKept
  <2>2. next \in Call /\ Follows(c, next)
    BY <2>1 DEF Call, Follows, Plain
  <2>3. Continue(k, next) \/ Leave(k)
    BY <1>4 DEF ReadForReset
  <2> HIDE DEF next
  <2> QED
    BY <1>1, <1>4, <2>2, <2>3 DEF ReadForReset, Leave
<1>5. CASE MailSent(k) \/ Crash(k)
  BY <1>1, <1>5 DEF MailSent, Crash, Leave
<1> QED
  BY <1>2, <1>3, <1>4, <1>5

LEMMA ResetKeeps ==
    ASSUME IndInv, NEW k \in Callers, NEW l \in Link, NEW new \in Passwords, ResetPassword(k, l, new)
    PROVE  IndInv'
<1> DEFINE next == [op |-> "redeem", user |-> links[l], link |-> l, password |-> new]
<1>1. links[l] \in Users /\ l \in Nat
  BY DEF ResetPassword, IndInv, HistoryKept, TypeOK, Link
<1>2. next \in Call /\ Follows(calls[k], next)
  BY <1>1 DEF Call, Follows, Plain
<1>3. calls' = [calls EXCEPT ![k] = next] /\ UNCHANGED <<users, booked, sessions, codeVars, linkVars>>
  BY DEF ResetPassword, Begin
<1> HIDE DEF next
<1> QED
  BY <1>2, <1>3, CallsOnly

-----------------------------------------------------------------------------
(* Steps that write an account. *)
LEMMA RowIsAccount == \A row \in UserRow : row # None
BY AccountsAssumption

LEMMA UsersKept ==
    ASSUME IndInv, NEW u \in Users, NEW row \in UserRow, users' = [users EXCEPT ![u] = row],
           calls' \in [Callers -> Call], \A j \in Callers : Tame(j),
           UNCHANGED <<booked, sessions, codeVars, linkVars>>
    PROVE  IndInv'
<1>1. UNCHANGED <<booked, sessions, codes, cooling, daily, dayEnds, sent, made, links, linkOf>>
  BY DEF codeVars, linkVars
<1>2. users' \in [Users -> {None} \cup UserRow]
      /\ \A v \in Users : users[v] # None => users'[v] # None
  BY RowIsAccount DEF IndInv, HistoryKept, TypeOK
<1>3. TypeOK'
  BY <1>1, <1>2 DEF IndInv, HistoryKept, TypeOK, Issued, Link
<1>4. SessionsTame
  BY <1>1 DEF SessionsTame
<1> QED
  BY <1>1, <1>2, <1>3, <1>4, Kept DEF IndInv, HistoryKept, Account

LEMMA CallsUnchanged ==
    ASSUME TypeOK, UNCHANGED calls
    PROVE  calls' \in [Callers -> Call] /\ \A j \in Callers : Tame(j)
BY DEF TypeOK, Tame

LEMMA NewRow ==
    ASSUME NEW role \in Roles, NEW password \in Passwords \cup {Unusable}
    PROVE  Row(role, password) \in UserRow
BY DEF Row, UserRow

LEMMA RegisterKeeps ==
    ASSUME IndInv, NEW k \in Callers, NEW u \in Users, Register(k, u)
    PROVE  IndInv'
<1>1. Row("USER", Unusable) \in UserRow
  BY NewRow DEF Roles
<1>2. Issuing(u, None) \in Call /\ Follows(calls[k], Issuing(u, None))
  BY DEF Issuing, Call, Follows
<1>3. calls' \in [Callers -> Call] /\ \A j \in Callers : Tame(j)
  BY <1>2, Continued DEF Register, Begin, IndInv, HistoryKept
<1> QED
  BY <1>1, <1>3, UsersKept DEF Register, SetUser

LEMMA CreateKeeps ==
    ASSUME IndInv, NEW u \in Users, NEW role \in Roles, NEW password \in Passwords,
           Create(u, role, password)
    PROVE  IndInv'
<1>1. Row(role, password) \in UserRow
  BY NewRow
<1>2. calls' \in [Callers -> Call] /\ \A j \in Callers : Tame(j)
  BY CallsUnchanged DEF Create, At_Once, IndInv, HistoryKept
<1> QED
  BY <1>1, <1>2, UsersKept DEF Create, SetUser

LEMMA LeaveKeeps ==
    ASSUME IndInv, NEW k \in Callers, Leave(k),
           UNCHANGED <<users, booked, sessions, codeVars, linkVars>>
    PROVE  IndInv'
BY CallsOnly, IdleIsCall DEF Leave, Continue

LEMMA AccountWritesKeep ==
    ASSUME IndInv, NEW k \in Callers, SavePassword(k) \/ ResolveCustomer(k) \/ SaveEdit(k)
    PROVE  IndInv'
<1> DEFINE c == calls[k]
           over == [op |-> "logoutAll", user |-> c.user]
<1>1. c.user \in Users
  BY CallTyped DEF SavePassword, ResolveCustomer, SaveEdit, IndInv, HistoryKept
<1>2. over \in Call /\ Follows(c, over)
  BY <1>1 DEF Call, Follows, Plain
<1>3. c.user \in Account => users[c.user] \in UserRow
  BY <1>1 DEF Account, IndInv, HistoryKept, TypeOK
<1>4. ASSUME NEW next \in {Idle, over}, Continue(k, next), NEW row \in UserRow,
             users' = [users EXCEPT ![c.user] = row],
             UNCHANGED <<booked, sessions, codeVars, linkVars>>
      PROVE  IndInv'
  <2>1. next \in Call /\ Follows(c, next)
    BY <1>2, IdleIsCall
  <2>2. calls' \in [Callers -> Call] /\ \A j \in Callers : Tame(j)
    BY <1>4, <2>1, Continued DEF Continue, IndInv, HistoryKept
  <2> QED
    BY <1>1, <1>4, <2>2, UsersKept
<1>5. CASE SavePassword(k)
  <2>1. CASE c.user \in Account
    <3> DEFINE row == [users[c.user] EXCEPT !.password = c.password]
    <3>1. c.password \in Passwords
      BY <1>5, CallTyped DEF SavePassword, IndInv, HistoryKept
    <3>2. row \in UserRow
      BY <1>3, <2>1, <3>1 DEF UserRow
    <3>3. users' = [users EXCEPT ![c.user] = row] /\ Continue(k, over)
          /\ UNCHANGED <<booked, sessions, codeVars, linkVars>>
      BY <1>5, <2>1 DEF SavePassword, SetUser
    <3> HIDE DEF row, over
    <3> QED
      BY <1>4, <3>2, <3>3
  <2>2. CASE c.user \notin Account
    BY <1>5, <2>2, LeaveKeeps DEF SavePassword
  <2> QED
    BY <2>1, <2>2
<1>6. CASE ResolveCustomer(k)
  <2>1. Row("USER", Unusable) \in UserRow
    BY NewRow DEF Roles
  <2>2. CASE users[c.user] = None
    BY <1>4, <1>6, <2>1, <2>2 DEF ResolveCustomer, SetUser, Leave
  <2>3. CASE users[c.user] # None
    BY <1>6, <2>3, LeaveKeeps DEF ResolveCustomer
  <2> QED
    BY <2>2, <2>3
<1>7. CASE SaveEdit(k)
  <2>1. CASE c.user \in Account
    <3> DEFINE old == users[c.user]
               row == [old EXCEPT !.role = IF c.role = None THEN @ ELSE c.role,
                                  !.active = IF c.active = None THEN @ ELSE c.active]
    <3>1. c.role \in Roles \cup {None} /\ c.active \in BOOLEAN \cup {None}
      BY <1>7, CallTyped DEF SaveEdit, IndInv, HistoryKept
    <3>2. row \in UserRow
      BY <1>3, <2>1, <3>1 DEF UserRow
    <3>3. users' = [users EXCEPT ![c.user] = row] /\ (Continue(k, over) \/ Continue(k, Idle))
          /\ UNCHANGED <<booked, sessions, codeVars, linkVars>>
      BY <1>7, <2>1 DEF SaveEdit, SetUser, Leave
    <3> HIDE DEF row, over
    <3> QED
      BY <1>4, <3>2, <3>3
  <2>2. CASE c.user \notin Account
    BY <1>7, <2>2, LeaveKeeps DEF SaveEdit
  <2> QED
    BY <2>1, <2>2
<1> QED
  BY <1>5, <1>6, <1>7

LEMMA BookingsKeep ==
    ASSUME IndInv, NEW u \in Users, Book(u) \/ EndTrip(u)
    PROVE  IndInv'
<1>1. UNCHANGED <<users, sessions, codes, cooling, daily, dayEnds, sent, made, links, linkOf, calls>>
  BY DEF Book, EndTrip, At_Once, codeVars, linkVars
<1>2. booked' \in [Users -> {"none", "live", "past"}]
      /\ \A v \in Users : booked'[v] # "none" => users[v] # None
  BY DEF Book, EndTrip, Active, Account, IndInv, HistoryKept, TypeOK
<1>3. TypeOK'
  BY <1>1, <1>2 DEF IndInv, HistoryKept, TypeOK, Issued, Link
<1>4. SessionsTame
  BY <1>1 DEF SessionsTame
<1>5. \A j \in Callers : Tame(j)
  BY <1>1 DEF Tame
<1> QED
  BY <1>1, <1>2, <1>3, <1>4, <1>5, Kept

-----------------------------------------------------------------------------
(* Steps that write tokens. *)
LEMMA TablesKept ==
    ASSUME IndInv, users' \in [Users -> {None} \cup UserRow], UNCHANGED <<booked, codeVars, linkVars>>,
           \A u \in Users : booked[u] # "none" => users'[u] # None,
           sessions' \in Seq(SessionRow), SessionsTame,
           calls' \in [Callers -> Call], \A j \in Callers : Tame(j)
    PROVE  IndInv'
<1>1. UNCHANGED <<booked, codes, cooling, daily, dayEnds, sent, made, links, linkOf>>
  BY DEF codeVars, linkVars
<1>2. Issued' = Issued
  BY DEF SessionsTame, Issued
<1>3. TypeOK'
  BY <1>1, <1>2 DEF IndInv, HistoryKept, TypeOK, Link, SessionsTame
<1> QED
  BY <1>1, <1>3, Kept DEF IndInv, HistoryKept, Account

LEMMA TokenFields == \A row \in SessionRow : row.user \in Users /\ row.from \in Nat \cup {None}
BY DEF SessionRow

LEMMA TokenChanged ==
    ASSUME TypeOK, NEW t \in Issued,
           \/ sessions' = [sessions EXCEPT ![t].live = FALSE]
           \/ sessions' = [sessions EXCEPT ![t].expired = TRUE]
    PROVE  sessions' \in Seq(SessionRow) /\ SessionsTame
<1>1. /\ sessions \in [Issued -> SessionRow] /\ Len(sessions) \in Nat /\ DOMAIN sessions = Issued
      /\ sessions[t] \in SessionRow
  BY DEF TypeOK, Issued
<1> DEFINE dead == [sessions[t] EXCEPT !.live = FALSE]
           old == [sessions[t] EXCEPT !.expired = TRUE]
<1>2. /\ dead \in SessionRow /\ dead.from = sessions[t].from /\ ~dead.live
      /\ old \in SessionRow /\ old.from = sessions[t].from /\ old.live = sessions[t].live
  BY <1>1 DEF SessionRow
<1>3. sessions' = [sessions EXCEPT ![t] = dead] \/ sessions' = [sessions EXCEPT ![t] = old]
  OBVIOUS
<1> HIDE DEF dead, old
<1>4. sessions' \in Seq(SessionRow) /\ Len(sessions') = Len(sessions) /\ DOMAIN sessions' = DOMAIN sessions
  <2>1. sessions \in Seq(SessionRow)
    BY DEF TypeOK
  <2>2. ASSUME NEW row \in SessionRow, sessions' = [sessions EXCEPT ![t] = row]
        PROVE  /\ sessions' \in Seq(SessionRow) /\ Len(sessions') = Len(sessions)
               /\ DOMAIN sessions' = DOMAIN sessions
    BY <2>1, <2>2, ExceptFacts
  <2> QED
    BY <1>2, <1>3, <2>2
<1> QED
  BY <1>1, <1>2, <1>3, <1>4 DEF SessionsTame

LEMMA RevokedTokens ==
    ASSUME TypeOK, NEW u
    PROVE  /\ Revoked(u) \in Seq(SessionRow)
           /\ sessions' = Revoked(u) => SessionsTame
<1>1. /\ sessions \in [Issued -> SessionRow] /\ Len(sessions) \in Nat /\ DOMAIN sessions = Issued
  BY DEF TypeOK, Issued
<1>2. \A row \in SessionRow : /\ [row EXCEPT !.live = FALSE] \in SessionRow
                              /\ [row EXCEPT !.live = FALSE].from = row.from
                              /\ ~[row EXCEPT !.live = FALSE].live
  BY DEF SessionRow
<1>3. Revoked(u) \in [Issued -> SessionRow]
  BY <1>1, <1>2 DEF Revoked
<1>4. Revoked(u) \in Seq(SessionRow) /\ Len(Revoked(u)) = Len(sessions) /\ DOMAIN Revoked(u) = Issued
  BY <1>1, <1>3 DEF Issued
<1>5. \A t \in Issued : Revoked(u)[t].from = sessions[t].from /\ (Revoked(u)[t].live => sessions[t].live)
  BY <1>1, <1>2 DEF Revoked
<1> QED
  BY <1>1, <1>4, <1>5 DEF SessionsTame

LEMMA RevocationKeeps ==
    ASSUME IndInv, \/ \E t \in Issued : Logout(t) \/ Expire(t)
                   \/ \E k \in Callers : LogoutAll(k)
    PROVE  IndInv'
<1> USE DEF IndInv, HistoryKept
<1>1. users \in [Users -> {None} \cup UserRow] /\ \A u \in Users : booked[u] # "none" => users[u] # None
  BY DEF TypeOK, Account
<1>2. ASSUME NEW t \in Issued, Logout(t) \/ Expire(t) PROVE IndInv'
  <2>1. sessions' \in Seq(SessionRow) /\ SessionsTame
    BY <1>2, TokenChanged DEF Logout, Expire
  <2>2. calls' \in [Callers -> Call] /\ \A j \in Callers : Tame(j)
    BY <1>2, CallsUnchanged DEF Logout, Expire, At_Once
  <2>3. UNCHANGED <<users, booked, codeVars, linkVars>>
    BY <1>2 DEF Logout, Expire
  <2> HIDE DEF IndInv, HistoryKept
  <2> QED
    BY <1>1, <2>1, <2>2, <2>3, TablesKept
<1>3. ASSUME NEW k \in Callers, LogoutAll(k) PROVE IndInv'
  <2>1. sessions' \in Seq(SessionRow) /\ SessionsTame
    BY <1>3, RevokedTokens DEF LogoutAll
  <2>2. calls' \in [Callers -> Call] /\ \A j \in Callers : Tame(j)
    BY <1>3, Continued, IdleIsCall DEF LogoutAll, Leave, Continue
  <2>3. UNCHANGED <<users, booked, codeVars, linkVars>>
    BY <1>3 DEF LogoutAll
  <2> HIDE DEF IndInv, HistoryKept
  <2> QED
    BY <1>1, <2>1, <2>2, <2>3, TablesKept
<1> QED
  BY <1>2, <1>3

(* An account with a booking is kept when it is closed: what was counted   *)
(* before is a reason to keep it, and so is a booking made since.          *)
LEMMA CloseKeeps ==
    ASSUME IndInv, NEW k \in Callers, Close(k)
    PROVE  IndInv'
<1> DEFINE u == calls[k].user
           closed == [users[u] EXCEPT !.active = FALSE, !.password = Unusable]
<1>1. TypeOK /\ users \in [Users -> {None} \cup UserRow]
      /\ \A v \in Users : booked[v] # "none" => users[v] # None
  BY DEF IndInv, HistoryKept, TypeOK, Account
<1>2. u \in Users
  BY <1>1, CallTyped DEF Close
<1>3. calls' \in [Callers -> Call] /\ \A j \in Callers : Tame(j)
  BY <1>1, Continued, IdleIsCall DEF Close, Leave, Continue
<1>4. UNCHANGED <<booked, codeVars, linkVars>>
  BY DEF Close
<1>5. (sessions' = Revoked(u) \/ sessions' = sessions) => sessions' \in Seq(SessionRow) /\ SessionsTame
  BY <1>1, RevokedTokens DEF SessionsTame, TypeOK
<1>6. CASE u \in Account /\ calls[k].retain
  <2>1. closed \in UserRow
    BY <1>1, <1>2, <1>6 DEF Account, UserRow
  <2>2. users' = [users EXCEPT ![u] = closed] /\ sessions' = Revoked(u)
    BY <1>6 DEF Close, SetUser
  <2> HIDE DEF closed
  <2>3. users' \in [Users -> {None} \cup UserRow] /\ \A v \in Users : booked[v] # "none" => users'[v] # None
    BY <1>1, <1>2, <2>1, <2>2, RowIsAccount
  <2> QED
    BY <1>3, <1>4, <1>5, <2>2, <2>3, TablesKept
<1>7. CASE u \in Account /\ ~calls[k].retain /\ Deletable(u)
  <2>1. users' = [users EXCEPT ![u] = None] /\ sessions' = Revoked(u)
    BY <1>7 DEF Close, SetUser
  <2>2. users' \in [Users -> {None} \cup UserRow] /\ \A v \in Users : booked[v] # "none" => users'[v] # None
    BY <1>1, <1>2, <1>7, <2>1 DEF Deletable
  <2> QED
    BY <1>3, <1>4, <1>5, <2>1, <2>2, TablesKept
<1>8. CASE ~(u \in Account /\ calls[k].retain) /\ ~(u \in Account /\ Deletable(u))
  <2>1. users' = users /\ sessions' = sessions
    BY <1>8 DEF Close
  <2> QED
    BY <1>1, <1>3, <1>4, <1>5, <2>1, TablesKept
<1> QED
  BY <1>6, <1>7, <1>8

(* One request takes a token out of force; from then on it alone may give  *)
(* another in exchange.                                                    *)
LEMMA RefreshKeeps ==
    ASSUME IndInv, NEW k \in Callers, NEW t \in Issued, Refresh(k, t)
    PROVE  IndInv'
<1> DEFINE next == [op |-> "holder", user |-> sessions[t].user, from |-> t]
<1>1. TypeOK /\ SessionInv /\ CodeInv
  BY DEF IndInv, HistoryKept
<1>2. /\ sessions \in [Issued -> SessionRow] /\ Issued \subseteq Nat /\ t \in Nat /\ None \notin Nat
      /\ sessions[t].user \in Users /\ sessions[t].live /\ DOMAIN sessions = Issued
  BY <1>1, AccountsAssumption, TokenFields DEF Refresh, Claimable, TypeOK, Issued
<1>3. next \in Call /\ next.op = "holder" /\ next.from = t
  BY <1>2 DEF Call
<1>4. calls' = [calls EXCEPT ![k] = next] /\ UNCHANGED <<users, booked, codeVars, linkVars>>
  BY DEF Refresh, Begin
<1> HIDE DEF next
<1>5. /\ calls' \in [Callers -> Call] /\ calls'[k] = next
      /\ \A j \in Callers \ {k} : calls'[j] = calls[j]
  BY <1>1, <1>3, <1>4 DEF TypeOK
<1>6. sessions' \in Seq(SessionRow) /\ SessionsTame /\ Issued' = Issued /\ ~sessions'[t].live
  <2>1. sessions' = [sessions EXCEPT ![t].live = FALSE]
    BY DEF Refresh
  <2>2. ~sessions'[t].live
    BY <1>2, <2>1 DEF SessionRow
  <2>3. sessions' \in Seq(SessionRow) /\ SessionsTame
    BY <1>1, <2>1, TokenChanged
  <2> QED
    BY <2>2, <2>3 DEF SessionsTame, Issued
<1>7. UNCHANGED <<users, booked, codes, cooling, daily, dayEnds, sent, made, links, linkOf>>
  BY <1>4 DEF codeVars, linkVars
<1>8. TypeOK' /\ HistoryKept'
  BY <1>5, <1>6, <1>7 DEF IndInv, HistoryKept, TypeOK, Link, SessionsTame, Account
<1>9. CodeInv'
  <2>1. \A u \in Users : Wrong(u)' \subseteq Wrong(u) /\ Sending(u)' \subseteq Sending(u)
    BY <1>3, <1>5 DEF Wrong, Sending
  <2>2. \A u \in Users :
          /\ Cardinality(Wrong(u)') <= Cardinality(Wrong(u)) /\ Cardinality(Wrong(u)') \in Nat
          /\ Cardinality(Sending(u)') <= Cardinality(Sending(u)) /\ Cardinality(Sending(u)') \in Nat
    BY <2>1, CallersFinite, FS_Subset, FS_CardinalityType
  <2>3. \A u \in Users : Guesses(u)' = Guesses(u) /\ Guesses(u) \in Nat /\ sent[u] \in Nat /\ daily[u] \in Int
    <3>1. \A u \in Users : codes[u] \in {None} \cup Code
      BY <1>1 DEF TypeOK
    <3> QED
      BY <1>1, <1>7, <3>1 DEF Guesses, Code, TypeOK
  <2> QED
    BY <1>1, <1>7, <2>2, <2>3, CallersFinite, AccountsAssumption DEF CodeInv
<1>10. SessionInv'
  <2>1. \A j \in Callers \ {k} : Rotating(j)' => Rotating(j) /\ calls'[j].from = calls[j].from
                                                  /\ calls[j].from # t
    BY <1>1, <1>2, <1>5 DEF SessionInv, Rotating
  <2>2. Rotating(k)' /\ calls'[k].from = t
    BY <1>2, <1>3, <1>5 DEF Rotating
  <2>3. \A j \in Callers : Rotating(j)' => /\ calls'[j].from \in Issued /\ ~sessions'[calls'[j].from].live
                                           /\ \A s \in Issued : sessions'[s].from # calls'[j].from
    <3>1. \A s \in Issued : sessions'[s].from # t
      BY <1>1, <1>2, <1>6 DEF SessionInv, SessionsTame
    <3> QED
      BY <1>1, <1>6, <2>1, <2>2, <3>1 DEF SessionInv, SessionsTame
  <2>4. \A i, j \in Callers : Rotating(i)' /\ Rotating(j)' /\ calls'[i].from = calls'[j].from => i = j
    BY <1>1, <2>1, <2>2 DEF SessionInv
  <2>5. \A r, s \in Issued : sessions'[s].live => sessions'[r].from # s
    BY <1>1, <1>6 DEF SessionInv, SessionsTame
  <2>6. \A r, s \in Issued : sessions'[r].from = sessions'[s].from /\ sessions'[r].from # None => r = s
    BY <1>1, <1>6 DEF SessionInv, RotatedOnce, SessionsTame
  <2> QED
    BY <1>6, <2>3, <2>4, <2>5, <2>6 DEF SessionInv, RotatedOnce
<1> QED
  BY <1>8, <1>9, <1>10 DEF IndInv

LEMMA IssueKeeps ==
    ASSUME IndInv, NEW k \in Callers, IssueTokens(k)
    PROVE  IndInv'
<1> DEFINE c == calls[k]
           n == Len(sessions)
           token == Token(c.user, c.from)
<1>1. TypeOK /\ SessionInv /\ CodeInv
  BY DEF IndInv, HistoryKept
<1>2. c.op = "issue" /\ c.user \in Users /\ c.from \in Nat \cup {None}
  BY <1>1, CallTyped DEF IssueTokens
<1>3. /\ calls' \in [Callers -> Call] /\ calls'[k] = Idle
      /\ \A j \in Callers \ {k} : calls'[j] = calls[j]
      /\ \A j \in Callers : Tame(j)
  BY <1>1, Continued, IdleIsCall DEF IssueTokens, Leave, Continue, TypeOK
<1>4. UNCHANGED <<users, booked, codeVars, linkVars>>
  BY DEF IssueTokens
<1>5. UNCHANGED <<users, booked, codes, cooling, daily, dayEnds, sent, made, links, linkOf>>
  BY <1>4 DEF codeVars, linkVars
<1>6. CASE c.user \notin Account
  <2>1. sessions' = sessions
    BY <1>6 DEF IssueTokens
  <2> QED
    BY <1>2, <1>4, <2>1, LeaveKeeps DEF IssueTokens
<1>7. CASE c.user \in Account
  <2>1. token \in SessionRow /\ token.from = c.from
    BY <1>2 DEF Token, SessionRow
  <2>2. sessions' = Append(sessions, token) /\ sessions \in Seq(SessionRow)
    BY <1>1, <1>7 DEF IssueTokens, TypeOK
  <2> HIDE DEF token
  <2>3. /\ sessions' \in Seq(SessionRow) /\ n \in Nat /\ Len(sessions') = n + 1 /\ None \notin Nat
        /\ \A t \in Issued : sessions'[t] = sessions[t]
        /\ sessions'[n + 1] = token
    BY <2>1, <2>2, AppendFacts, AccountsAssumption DEF Issued
  <2>4. Issued' = Issued \cup {n + 1} /\ Issued = 1..n /\ n + 1 \notin Issued
    BY <2>3 DEF Issued
  <2>5. c.from # None => /\ c.from \in Issued /\ ~sessions[c.from].live
                         /\ \A s \in Issued : sessions[s].from # c.from
                         /\ \A j \in Callers \ {k} : Rotating(j) => calls[j].from # c.from
    BY <1>1, <1>2 DEF SessionInv, Rotating
  <2>6. \A t \in Issued : sessions[t].from \in 1..(t - 1) \cup {None}
    BY <1>1 DEF TypeOK
  <2>7. \A t \in Issued' : sessions'[t].from \in 1..(t - 1) \cup {None}
    BY <1>2, <2>1, <2>3, <2>4, <2>5, <2>6
  <2>8. TypeOK' /\ HistoryKept'
    BY <1>3, <1>5, <2>3, <2>7 DEF IndInv, HistoryKept, TypeOK, Link, Account
  <2>9. CodeInv'
    BY <1>1, <1>3, <1>5, <2>8, CodesKept DEF HistoryKept
  <2>10. \A j \in Callers : Rotating(j)' => /\ j # k /\ Rotating(j) /\ calls'[j].from = calls[j].from
    BY <1>3, IdleIsCall DEF Rotating
  <2>11. \A j \in Callers : Rotating(j)' => /\ calls'[j].from \in Issued' /\ ~sessions'[calls'[j].from].live
                                            /\ \A s \in Issued' : sessions'[s].from # calls'[j].from
    BY <1>1, <1>2, <2>1, <2>3, <2>4, <2>5, <2>10 DEF SessionInv, Rotating
  <2>12. \A i, j \in Callers : Rotating(i)' /\ Rotating(j)' /\ calls'[i].from = calls'[j].from => i = j
    BY <1>1, <2>10 DEF SessionInv
  <2>13. \A s, t \in Issued' : sessions'[t].live => sessions'[s].from # t
    <3> SUFFICES ASSUME NEW s \in Issued', NEW t \in Issued', sessions'[t].live
                 PROVE  sessions'[s].from # t
      OBVIOUS
    <3>1. CASE t = n + 1
      BY <2>3, <2>4, <2>7, <3>1
    <3>2. CASE t \in Issued /\ s \in Issued
      BY <1>1, <2>3, <3>2 DEF SessionInv
    <3>3. CASE t \in Issued /\ s = n + 1
      BY <1>2, <2>1, <2>3, <2>4, <2>5, <3>3
    <3> QED
      BY <2>4, <3>1, <3>2, <3>3
  <2>14. \A s, t \in Issued' : sessions'[s].from = sessions'[t].from /\ sessions'[s].from # None => s = t
    BY <1>1, <2>1, <2>3, <2>4, <2>5 DEF SessionInv, RotatedOnce
  <2> QED
    BY <2>8, <2>9, <2>11, <2>12, <2>13, <2>14 DEF IndInv, SessionInv, RotatedOnce
<1> QED
  BY <1>6, <1>7

-----------------------------------------------------------------------------
(* Steps that write the links of passwords. *)
LEMMA LinksKept ==
    ASSUME IndInv, links' \in Seq(Users \cup {None}),
           linkOf' \in [Users -> Link' \cup {None}],
           calls' \in [Callers -> Call], \A j \in Callers : Tame(j),
           UNCHANGED <<users, booked, sessions, codeVars>>
    PROVE  IndInv'
<1>1. UNCHANGED <<users, booked, sessions, codes, cooling, daily, dayEnds, sent, made>>
  BY DEF codeVars
<1>2. TypeOK'
  BY <1>1 DEF IndInv, HistoryKept, TypeOK, Issued
<1>3. SessionsTame
  BY <1>1 DEF SessionsTame
<1> QED
  BY <1>1, <1>2, <1>3, Kept DEF IndInv, HistoryKept, Account

LEMMA LinkGone ==
    ASSUME TypeOK, NEW l
    PROVE  [links EXCEPT ![l] = None] \in Seq(Users \cup {None})
           /\ Len([links EXCEPT ![l] = None]) = Len(links)
<1>1. links \in Seq(Users \cup {None}) /\ None \in Users \cup {None}
  BY DEF TypeOK
<1> QED
  BY <1>1, ExceptFacts

LEMMA LinkStepsKeep ==
    ASSUME IndInv, NEW k \in Callers,
           DeletePrevious(k) \/ StoreLink(k) \/ MailFails(k) \/ ConsumeLink(k)
    PROVE  IndInv'
<1> DEFINE c == calls[k]
<1>1. TypeOK /\ c \in Call /\ c.user \in Users /\ linkOf \in [Users -> Link \cup {None}]
  BY CallTyped DEF IndInv, HistoryKept, TypeOK, DeletePrevious, StoreLink, MailFails, ConsumeLink
<1>2. ASSUME NEW next \in Call, next.op \in Plain, calls' = [calls EXCEPT ![k] = next],
             links' \in Seq(Users \cup {None}), linkOf' \in [Users -> Link' \cup {None}],
             UNCHANGED <<users, booked, sessions, codeVars>>
      PROVE  IndInv'
  BY <1>1, <1>2, Continued, LinksKept DEF Follows
<1>3. ASSUME NEW l, links' = [links EXCEPT ![l] = None],
             linkOf' = linkOf \/ linkOf' = [linkOf EXCEPT ![c.user] = None]
      PROVE  links' \in Seq(Users \cup {None}) /\ linkOf' \in [Users -> Link' \cup {None}]
  BY <1>1, <1>3, LinkGone DEF Link
<1>4. CASE DeletePrevious(k)
  <2> DEFINE next == [c EXCEPT !.op = "link"]
  <2>1. next \in Call /\ next.op \in Plain
    BY <1>1, <1>4 DEF DeletePrevious, Call, Plain, Idle
  <2>2. calls' = [calls EXCEPT ![k] = next] /\ links' = [links EXCEPT ![c.previous] = None]
        /\ linkOf' = linkOf /\ UNCHANGED <<users, booked, sessions, codeVars>>
    BY <1>4 DEF DeletePrevious, Continue
  <2> HIDE DEF next
  <2> QED
    BY <1>2, <1>3, <2>1, <2>2
<1>5. CASE StoreLink(k)
  <2> DEFINE n == Len(links)
             next == [op |-> "mail", user |-> c.user, link |-> n + 1]
  <2>1. links \in Seq(Users \cup {None}) /\ n \in Nat
    BY <1>1 DEF TypeOK
  <2>2. next \in Call /\ next.op \in Plain
    BY <1>1, <2>1 DEF Call, Plain
  <2>3. calls' = [calls EXCEPT ![k] = next] /\ links' = Append(links, c.user)
        /\ linkOf' = [linkOf EXCEPT ![c.user] = n + 1] /\ UNCHANGED <<users, booked, sessions, codeVars>>
    BY <1>5 DEF StoreLink, Continue
  <2>4. links' \in Seq(Users \cup {None}) /\ Len(links') = n + 1
    BY <1>1, <2>1, <2>3, AppendFacts
  <2>5. linkOf' \in [Users -> Link' \cup {None}]
    BY <1>1, <2>1, <2>3, <2>4 DEF Link
  <2> HIDE DEF next
  <2> QED
    BY <1>2, <2>2, <2>3, <2>4, <2>5
<1>6. CASE MailFails(k)
  <2>1. Idle \in Call /\ Idle.op \in Plain
    BY IdleIsCall DEF Plain
  <2>2. links' = [links EXCEPT ![c.link] = None] /\ linkOf' = [linkOf EXCEPT ![c.user] = None]
        /\ calls' = [calls EXCEPT ![k] = Idle] /\ UNCHANGED <<users, booked, sessions, codeVars>>
    BY <1>6 DEF MailFails, Leave, Continue
  <2> QED
    BY <1>2, <1>3, <2>1, <2>2
<1>7. CASE ConsumeLink(k)
  <2> DEFINE next == [c EXCEPT !.op = "redeemed"]
  <2>1. next \in Call /\ next.op \in Plain
    BY <1>1, <1>7 DEF ConsumeLink, Call, Plain, Idle
  <2>2. links' = [links EXCEPT ![c.link] = None] /\ linkOf' = [linkOf EXCEPT ![c.user] = None]
        /\ calls' = [calls EXCEPT ![k] = next] /\ UNCHANGED <<users, booked, sessions, codeVars>>
    BY <1>7 DEF ConsumeLink, Continue
  <2> HIDE DEF next
  <2> QED
    BY <1>2, <1>3, <2>1, <2>2
<1> QED
  BY <1>4, <1>5, <1>6, <1>7

LEMMA LinkExpiresKeeps ==
    ASSUME IndInv, NEW l \in Link, LinkExpires(l)
    PROVE  IndInv'
<1>1. TypeOK /\ linkOf \in [Users -> Link \cup {None}]
  BY DEF IndInv, HistoryKept, TypeOK
<1>2. links' \in Seq(Users \cup {None}) /\ Len(links') = Len(links)
  BY <1>1, LinkGone DEF LinkExpires
<1>3. linkOf' \in [Users -> Link' \cup {None}]
  BY <1>1, <1>2 DEF LinkExpires, Link
<1>4. calls' \in [Callers -> Call] /\ \A j \in Callers : Tame(j)
  BY <1>1, CallsUnchanged DEF LinkExpires
<1>5. UNCHANGED <<users, booked, sessions, codes, cooling, daily, dayEnds, sent, made>>
  BY DEF LinkExpires, codeVars
<1>6. TypeOK'
  BY <1>2, <1>3, <1>4, <1>5 DEF IndInv, HistoryKept, TypeOK, Issued
<1>7. SessionsTame
  BY <1>5 DEF SessionsTame
<1> QED
  BY <1>4, <1>5, <1>6, <1>7, Kept DEF IndInv, HistoryKept, Account

-----------------------------------------------------------------------------
(* Steps that write the codes and their counters. *)
Guessing(call, u) == IF call.op = "wrong" /\ call.user = u THEN 1 ELSE 0

Counting(call, u) ==
    IF call.op \in {"dayBegins", "store", "deliver", "uncount"} /\ call.user = u THEN 1 ELSE 0

(* A step of k changes how many are guessing and sending by what it says   *)
(* of k before and after.                                                  *)
LEMMA Moves ==
    ASSUME TypeOK, NEW k \in Callers, NEW next \in Call, calls' = [calls EXCEPT ![k] = next],
           NEW u \in Users
    PROVE  /\ Cardinality(Wrong(u)') = Cardinality(Wrong(u)) - Guessing(calls[k], u) + Guessing(next, u)
           /\ Cardinality(Sending(u)') = Cardinality(Sending(u)) - Counting(calls[k], u) + Counting(next, u)
           /\ Cardinality(Wrong(u)') <= Cardinality(Callers) /\ Cardinality(Wrong(u)') \in Nat
<1>1. calls'[k] = next /\ \A j \in Callers \ {k} : calls'[j] = calls[j]
  BY DEF TypeOK
<1>2. /\ Wrong(u)' \ {k} = Wrong(u) \ {k} /\ Sending(u)' \ {k} = Sending(u) \ {k}
      /\ k \in Wrong(u) <=> calls[k].op = "wrong" /\ calls[k].user = u
      /\ k \in Wrong(u)' <=> next.op = "wrong" /\ next.user = u
      /\ k \in Sending(u) <=> calls[k].op \in {"dayBegins", "store", "deliver", "uncount"} /\ calls[k].user = u
      /\ k \in Sending(u)' <=> next.op \in {"dayBegins", "store", "deliver", "uncount"} /\ next.user = u
  BY <1>1 DEF Wrong, Sending
<1>3. /\ Wrong(u) \subseteq Callers /\ Wrong(u)' \subseteq Callers
      /\ Sending(u) \subseteq Callers /\ Sending(u)' \subseteq Callers
  BY DEF Wrong, Sending
<1>4. ASSUME NEW S \in SUBSET Callers
      PROVE  /\ IsFiniteSet(S) /\ Cardinality(S) \in Nat /\ Cardinality(S) <= Cardinality(Callers)
             /\ Cardinality(S \ {k}) = Cardinality(S) - (IF k \in S THEN 1 ELSE 0)
  BY AccountsAssumption, FS_Subset, FS_CardinalityType, FS_RemoveElement
<1>5. /\ Cardinality(Wrong(u)') - (IF k \in Wrong(u)' THEN 1 ELSE 0)
           = Cardinality(Wrong(u)) - (IF k \in Wrong(u) THEN 1 ELSE 0)
      /\ Cardinality(Sending(u)') - (IF k \in Sending(u)' THEN 1 ELSE 0)
           = Cardinality(Sending(u)) - (IF k \in Sending(u) THEN 1 ELSE 0)
  BY <1>2, <1>3, <1>4
<1>6. /\ Cardinality(Wrong(u)') \in Nat /\ Cardinality(Wrong(u)) \in Nat
      /\ Cardinality(Wrong(u)') <= Cardinality(Callers)
      /\ Cardinality(Sending(u)') \in Nat /\ Cardinality(Sending(u)) \in Nat
  BY <1>3, <1>4
<1>7. /\ Guessing(calls[k], u) = (IF k \in Wrong(u) THEN 1 ELSE 0)
      /\ Guessing(next, u) = (IF k \in Wrong(u)' THEN 1 ELSE 0)
      /\ Counting(calls[k], u) = (IF k \in Sending(u) THEN 1 ELSE 0)
      /\ Counting(next, u) = (IF k \in Sending(u)' THEN 1 ELSE 0)
  BY <1>2 DEF Guessing, Counting
<1> QED
  BY <1>5, <1>6, <1>7

(* A step of k on the codes keeps the counts when its own guess and its    *)
(* own message still balance.                                              *)
LEMMA CodeStep ==
    ASSUME IndInv, NEW k \in Callers, NEW next \in Call, calls' = [calls EXCEPT ![k] = next],
           next.op \in {"issue", "holder"} => next.from = None,
           UNCHANGED <<users, booked, sessions, linkVars>>,
           codes' \in [Users -> {None} \cup Code], made' \in Nat,
           \A u \in Users : codes'[u] # None => codes'[u].code <= made',
           cooling' \cup dayEnds' \subseteq Users,
           daily' \in [Users -> Int], sent' \in [Users -> Nat],
           \A u \in Users :
              /\ \/ Guesses(u)' + Guessing(next, u) <= Guesses(u) + Guessing(calls[k], u)
                 \/ Guesses(u)' < MaxAttempts
              /\ sent'[u] - daily'[u] + Counting(next, u) <= sent[u] - daily[u] + Counting(calls[k], u)
              /\ \/ sent'[u] + Counting(next, u) <= sent[u] + Counting(calls[k], u)
                 \/ sent'[u] = sent[u] /\ daily'[u] <= MaxPerDay
    PROVE  IndInv'
<1>1. TypeOK /\ SessionInv /\ CodeInv
  BY DEF IndInv, HistoryKept
<1>2. UNCHANGED <<users, booked, sessions, links, linkOf>>
  BY DEF linkVars
<1>3. calls' \in [Callers -> Call] /\ calls'[k] = next /\ \A j \in Callers \ {k} : calls'[j] = calls[j]
  BY <1>1 DEF TypeOK
<1>4. TypeOK' /\ HistoryKept'
  BY <1>2, <1>3 DEF IndInv, HistoryKept, TypeOK, Issued, Link, Account
<1>5. SessionInv'
  <2>1. \A j \in Callers : Rotating(j)' => Rotating(j) /\ calls'[j].from = calls[j].from
    BY <1>3 DEF Rotating
  <2>2. SessionsTame
    BY <1>2 DEF SessionsTame
  <2> QED
    BY <1>1, <2>1, <2>2, SessionsKept
<1>6. CodeInv'
  <2> SUFFICES ASSUME NEW u \in Users
               PROVE  /\ Guesses(u)' + Cardinality(Wrong(u)') < MaxAttempts + Cardinality(Callers)
                      /\ sent'[u] + Cardinality(Sending(u)') <= daily'[u] + Cardinality(Callers)
                      /\ sent'[u] + Cardinality(Sending(u)') <= MaxPerDay + Cardinality(Callers)
    BY DEF CodeInv
  <2>1. /\ sent[u] \in Nat /\ daily[u] \in Int /\ sent'[u] \in Nat /\ daily'[u] \in Int
        /\ codes[u] \in {None} \cup Code /\ codes'[u] \in {None} \cup Code
    BY <1>1 DEF TypeOK
  <2>2. Guesses(u) \in Nat /\ Guesses(u)' \in Nat
    BY <2>1 DEF Guesses, Code
  <2>3. /\ Guessing(next, u) \in 0..1 /\ Guessing(calls[k], u) \in 0..1
        /\ Counting(next, u) \in 0..1 /\ Counting(calls[k], u) \in 0..1
    BY DEF Guessing, Counting
  <2>4. /\ Cardinality(Wrong(u)) \in Nat /\ Cardinality(Sending(u)) \in Nat
        /\ Cardinality(Callers) \in Nat /\ MaxAttempts \in Nat /\ MaxPerDay \in Nat
    BY CallersFinite, AccountsAssumption
  <2>5. /\ Guesses(u) + Cardinality(Wrong(u)) < MaxAttempts + Cardinality(Callers)
        /\ sent[u] + Cardinality(Sending(u)) <= daily[u] + Cardinality(Callers)
        /\ sent[u] + Cardinality(Sending(u)) <= MaxPerDay + Cardinality(Callers)
    BY <1>1 DEF CodeInv
  <2>6. /\ Cardinality(Wrong(u)') = Cardinality(Wrong(u)) - Guessing(calls[k], u) + Guessing(next, u)
        /\ Cardinality(Sending(u)') = Cardinality(Sending(u)) - Counting(calls[k], u) + Counting(next, u)
        /\ Cardinality(Wrong(u)') <= Cardinality(Callers) /\ Cardinality(Wrong(u)') \in Nat
    BY <1>1, Moves
  <2>7. sent'[u] + Cardinality(Sending(u)') <= daily'[u] + Cardinality(Callers)
    BY <2>1, <2>3, <2>4, <2>5, <2>6
  <2>8. sent'[u] + Cardinality(Sending(u)') <= MaxPerDay + Cardinality(Callers)
    BY <2>1, <2>3, <2>4, <2>5, <2>6, <2>7
  <2>9. Guesses(u)' + Cardinality(Wrong(u)') < MaxAttempts + Cardinality(Callers)
    BY <2>2, <2>3, <2>4, <2>5, <2>6
  <2> QED
    BY <2>7, <2>8, <2>9
<1> QED
  BY <1>4, <1>5, <1>6 DEF IndInv

LEMMA CodeTables ==
    ASSUME IndInv
    PROVE  /\ TypeOK /\ codes \in [Users -> {None} \cup Code] /\ made \in Nat
           /\ \A u \in Users : codes[u] # None => codes[u].code <= made
           /\ cooling \cup dayEnds \subseteq Users
           /\ daily \in [Users -> Int] /\ sent \in [Users -> Nat]
           /\ \A u \in Users : Guesses(u) \in Nat
<1>1. TypeOK /\ \A u \in Users : codes[u] \in {None} \cup Code
  BY DEF IndInv, HistoryKept, TypeOK
<1>2. \A u \in Users : Guesses(u) \in Nat
  BY <1>1 DEF Guesses, Code
<1> QED
  BY <1>1, <1>2 DEF TypeOK

(* What a request for a code does next. *)
LEMMA NextOfRequest ==
    ASSUME TypeOK, NEW k \in Callers, calls[k].op \in {"asked", "dayBegins", "store", "deliver"},
           NEW op \in {"dayBegins", "store", "deliver", "uncount"}
    PROVE  LET next == [calls[k] EXCEPT !.op = op]
           IN  next \in Call /\ next.op = op /\ next.user = calls[k].user
<1>1. calls[k] \in [op : {"asked", "dayBegins", "store", "deliver"}, user : Users]
  BY CallTyped DEF Call, Idle
<1> QED
  BY <1>1 DEF Call

LEMMA CountRequestKeeps ==
    ASSUME IndInv, NEW k \in Callers, CountRequest(k)
    PROVE  IndInv'
<1> DEFINE c == calls[k]
           u == c.user
           count == daily[u] + 1
<1>1. c.op = "asked" /\ u \in Users /\ TypeOK
  BY CallTyped, CodeTables DEF CountRequest
<1>2. daily' = [daily EXCEPT ![u] = count] /\ MaxPerDay \in Nat /\ MaxPerDay > 0
      /\ UNCHANGED <<users, booked, sessions, codes, cooling, dayEnds, sent, made, linkVars>>
  BY AccountsAssumption DEF CountRequest
<1>3. daily' \in [Users -> Int] /\ daily'[u] = daily[u] + 1 /\ daily[u] \in Int
      /\ \A v \in Users : v # u => daily'[v] = daily[v]
  BY <1>1, <1>2, CodeTables
<1>4. ASSUME NEW op \in {"dayBegins", "store"}, Continue(k, [c EXCEPT !.op = op]), count <= MaxPerDay
      PROVE  IndInv'
  <2> DEFINE next == [c EXCEPT !.op = op]
  <2>1. next \in Call /\ next.op = op /\ next.user = u
    BY <1>1, NextOfRequest
  <2>2. calls' = [calls EXCEPT ![k] = next]
    BY <1>4 DEF Continue
  <2> HIDE DEF next
  <2>3. \A v \in Users : /\ Guessing(next, v) = 0 /\ Guessing(c, v) = 0 /\ Counting(c, v) = 0
                         /\ Counting(next, v) = IF v = u THEN 1 ELSE 0
    BY <1>1, <2>1 DEF Guessing, Counting
  <2>4. \A v \in Users : Guesses(v)' = Guesses(v)
    BY <1>2 DEF Guesses
  <2>5. \A v \in Users :
          /\ Guesses(v)' + Guessing(next, v) <= Guesses(v) + Guessing(c, v)
          /\ sent'[v] - daily'[v] + Counting(next, v) <= sent[v] - daily[v] + Counting(c, v)
          /\ \/ sent'[v] + Counting(next, v) <= sent[v] + Counting(c, v)
             \/ sent'[v] = sent[v] /\ daily'[v] <= MaxPerDay
    BY <1>2, <1>3, <1>4, <2>3, <2>4, CodeTables
  <2> QED
    BY <1>2, <1>3, <2>1, <2>2, <2>5, CodeTables, CodeStep
<1>5. CASE Leave(k)
  <2>1. \A v \in Users : /\ Guessing(Idle, v) = 0 /\ Guessing(c, v) = 0
                         /\ Counting(c, v) = 0 /\ Counting(Idle, v) = 0
    BY <1>1, IdleIsCall DEF Guessing, Counting
  <2>2. \A v \in Users : Guesses(v)' = Guesses(v)
    BY <1>2 DEF Guesses
  <2>3. \A v \in Users :
          /\ Guesses(v)' + Guessing(Idle, v) <= Guesses(v) + Guessing(c, v)
          /\ sent'[v] - daily'[v] + Counting(Idle, v) <= sent[v] - daily[v] + Counting(c, v)
          /\ sent'[v] + Counting(Idle, v) <= sent[v] + Counting(c, v)
    BY <1>2, <1>3, <2>1, <2>2, CodeTables
  <2> QED
    BY <1>2, <1>3, <1>5, <2>3, CodeTables, CodeStep, IdleIsCall DEF Leave, Continue
<1>6. \/ Continue(k, [c EXCEPT !.op = "dayBegins"]) /\ count <= MaxPerDay
      \/ Continue(k, [c EXCEPT !.op = "store"]) /\ count <= MaxPerDay
      \/ Leave(k)
  BY <1>2, <1>3 DEF CountRequest, WithinDay
<1> QED
  BY <1>4, <1>5, <1>6

(* A request that goes on, or ends, with the counters of messages as they  *)
(* were, or with its own message counted or given back.                    *)
LEMMA SendingKeeps ==
    ASSUME IndInv, NEW k \in Callers,
           BeginDay(k) \/ StoreCode(k) \/ Delivered(k) \/ DeliveryFails(k) \/ Uncount(k)
    PROVE  IndInv'
<1> DEFINE c == calls[k]
           u == c.user
           Steps == {"dayBegins", "store", "deliver", "uncount"}
<1>1. c.op \in Steps /\ u \in Users /\ TypeOK
  BY CallTyped, CodeTables DEF BeginDay, StoreCode, Delivered, DeliveryFails, Uncount
<1>2. ASSUME NEW next \in Call, calls' = [calls EXCEPT ![k] = next], next.op \in Steps, next.user = u,
             UNCHANGED <<users, booked, sessions, linkVars, daily, sent>>,
             codes' \in [Users -> {None} \cup Code], made' \in Nat,
             \A v \in Users : codes'[v] # None => codes'[v].code <= made',
             cooling' \cup dayEnds' \subseteq Users, \A v \in Users : Guesses(v)' <= Guesses(v)
      PROVE  IndInv'
  <2>1. \A v \in Users : /\ Guessing(next, v) = 0 /\ Guessing(c, v) = 0
                         /\ Counting(next, v) = Counting(c, v) /\ Counting(c, v) \in 0..1
    BY <1>1, <1>2 DEF Guessing, Counting
  <2>2. \A v \in Users : Guesses(v)' \in Nat
    <3>1. \A v \in Users : codes'[v] \in {None} \cup Code
      BY <1>2
    <3> QED
      BY <3>1 DEF Guesses, Code
  <2>3. \A v \in Users :
          /\ Guesses(v)' + Guessing(next, v) <= Guesses(v) + Guessing(c, v)
          /\ sent'[v] - daily'[v] + Counting(next, v) <= sent[v] - daily[v] + Counting(c, v)
          /\ sent'[v] + Counting(next, v) <= sent[v] + Counting(c, v)
    BY <1>2, <2>1, <2>2, CodeTables
  <2> QED
    BY <1>2, <2>3, CodeTables, CodeStep
<1>3. CASE BeginDay(k)
  <2> DEFINE next == [c EXCEPT !.op = "store"]
  <2>1. next \in Call /\ next.op \in Steps /\ next.user = u
    BY <1>1, <1>3, NextOfRequest DEF BeginDay
  <2>2. /\ calls' = [calls EXCEPT ![k] = next] /\ dayEnds' = dayEnds \cup {u}
        /\ UNCHANGED <<users, booked, sessions, codes, cooling, daily, sent, made, linkVars>>
    BY <1>3 DEF BeginDay, Continue
  <2>3. \A v \in Users : Guesses(v)' <= Guesses(v)
    BY <2>2, CodeTables DEF Guesses
  <2>4. cooling' \cup dayEnds' \subseteq Users
    BY <1>1, <2>2, CodeTables
  <2> HIDE DEF next
  <2> QED
    BY <1>2, <2>1, <2>2, <2>3, <2>4, CodeTables
<1>4. CASE StoreCode(k)
  <2> DEFINE next == [op |-> "deliver", user |-> u]
             new == [code |-> made + 1, attempts |-> 0]
  <2>1. next \in Call /\ next.op \in Steps /\ next.user = u
    BY <1>1 DEF Call
  <2>2. /\ calls' = [calls EXCEPT ![k] = next] /\ codes' = [codes EXCEPT ![u] = new]
        /\ made' = made + 1 /\ cooling' = cooling \cup {u}
        /\ UNCHANGED <<users, booked, sessions, daily, dayEnds, sent, linkVars>>
    BY <1>4 DEF StoreCode, Continue
  <2>3. new \in Code /\ new.code = made + 1 /\ new.attempts = 0
    BY CodeTables DEF Code
  <2> HIDE DEF next, new
  <2>4. codes' \in [Users -> {None} \cup Code] /\ codes'[u] = new
        /\ \A v \in Users : v # u => codes'[v] = codes[v]
    BY <1>1, <2>2, <2>3, CodeTables
  <2>5. \A v \in Users : codes'[v] # None => codes'[v].code <= made'
    <3>1. \A v \in Users : codes[v] # None => codes[v] \in Code
      BY CodeTables
    <3>2. \A v \in Users : codes[v] # None => codes[v].code \in Nat /\ codes[v].code <= made
      BY <3>1, CodeTables DEF Code
    <3> QED
      BY <2>2, <2>3, <2>4, <3>2, CodeTables
  <2>6. \A v \in Users : Guesses(v)' <= Guesses(v)
    <3>1. \A v \in Users : v = u => Guesses(v)' = 0
      BY <2>3, <2>4 DEF Guesses
    <3>2. \A v \in Users : v # u => Guesses(v)' = Guesses(v)
      BY <2>4 DEF Guesses
    <3> QED
      BY <3>1, <3>2, CodeTables
  <2>7. made' \in Nat /\ cooling' \cup dayEnds' \subseteq Users
    BY <1>1, <2>2, CodeTables
  <2> QED
    BY <1>2, <2>1, <2>2, <2>4, <2>5, <2>6, <2>7
<1>5. CASE DeliveryFails(k)
  <2> DEFINE next == [c EXCEPT !.op = "uncount"]
  <2>1. next \in Call /\ next.op \in Steps /\ next.user = u
    BY <1>1, <1>5, NextOfRequest DEF DeliveryFails
  <2>2. /\ calls' = [calls EXCEPT ![k] = next] /\ codes' = [codes EXCEPT ![u] = None]
        /\ cooling' = cooling \ {u} /\ UNCHANGED <<users, booked, sessions, daily, dayEnds, sent, made, linkVars>>
    BY <1>5 DEF DeliveryFails, Continue, Forgotten
  <2> HIDE DEF next
  <2>3. codes' \in [Users -> {None} \cup Code] /\ \A v \in Users : codes'[v] \in {None, codes[v]}
    BY <1>1, <2>2, CodeTables
  <2>4. \A v \in Users : Guesses(v)' <= Guesses(v)
    BY <2>3, CodeTables DEF Guesses
  <2> QED
    BY <1>2, <2>1, <2>2, <2>3, <2>4, CodeTables
<1>6. CASE Delivered(k) \/ Uncount(k)
  <2>1. /\ calls' = [calls EXCEPT ![k] = Idle]
        /\ UNCHANGED <<users, booked, sessions, codes, cooling, dayEnds, made, linkVars>>
        /\ \/ sent' = [sent EXCEPT ![u] = @ + 1] /\ daily' = daily
           \/ daily' = [daily EXCEPT ![u] = @ - 1] /\ sent' = sent
    BY <1>6 DEF Delivered, Uncount, Leave, Continue
  <2>2. \A v \in Users : /\ Guessing(Idle, v) = 0 /\ Guessing(c, v) = 0 /\ Counting(Idle, v) = 0
                         /\ Counting(c, v) = IF v = u THEN 1 ELSE 0
    BY <1>1, IdleIsCall DEF Guessing, Counting
  <2>3. \A v \in Users : Guesses(v)' = Guesses(v)
    BY <2>1 DEF Guesses
  <2>4. daily' \in [Users -> Int] /\ sent' \in [Users -> Nat]
    BY <1>1, <2>1, CodeTables
  <2>5. \A v \in Users :
          /\ sent'[v] - daily'[v] <= sent[v] - daily[v] + Counting(c, v)
          /\ sent'[v] <= sent[v] + Counting(c, v)
    BY <1>1, <2>1, <2>2, CodeTables
  <2>6. \A v \in Users :
          /\ Guesses(v)' + Guessing(Idle, v) <= Guesses(v) + Guessing(c, v)
          /\ sent'[v] - daily'[v] + Counting(Idle, v) <= sent[v] - daily[v] + Counting(c, v)
          /\ sent'[v] + Counting(Idle, v) <= sent[v] + Counting(c, v)
    BY <2>2, <2>3, <2>4, <2>5, CodeTables
  <2> QED
    BY <2>1, <2>4, <2>6, CodeTables, CodeStep, IdleIsCall
<1> QED
  BY <1>3, <1>4, <1>5, <1>6

(* A guess is let through while the code has guesses left; it is counted   *)
(* later, on whatever is there then.                                       *)
LEMMA GuessingKeeps ==
    ASSUME IndInv, NEW k \in Callers, VerifyOtp(k) \/ CountGuess(k) \/ Lock(k) \/ UseCode(k)
    PROVE  IndInv'
<1> DEFINE c == calls[k]
           Guess == [op : {"verify", "lock", "use", "wrong"}, user : Users, active : BOOLEAN, code : Nat]
<1>1. c.op \in {"verify", "lock", "use", "wrong"} /\ c \in Guess /\ TypeOK
  BY CallTyped, CodeTables DEF VerifyOtp, CountGuess, Lock, UseCode, Call, Idle
<1>2. PICK u \in Users : u = c.user
  BY <1>1
<1>3. ASSUME NEW op \in {"lock", "use", "wrong"}
      PROVE  LET next == [c EXCEPT !.op = op] IN next \in Call /\ next.op = op /\ next.user = u
  BY <1>1, <1>2 DEF Call
<1>4. ASSUME NEW next \in Call, calls' = [calls EXCEPT ![k] = next],
             next.op \in {"idle", "lock", "use", "wrong"} \/ (next.op = "issue" /\ next.from = None),
             next.op = "wrong" => Guesses(u)' < MaxAttempts /\ next.user = u,
             UNCHANGED <<users, booked, sessions, linkVars, daily, dayEnds, sent, made>>,
             codes' \in [Users -> {None} \cup Code], cooling' \subseteq Users,
             \A v \in Users : codes'[v] # None => codes'[v].code <= made,
             Guesses(u)' <= Guesses(u) + Guessing(c, u),
             \A v \in Users \ {u} : codes'[v] = codes[v]
      PROVE  IndInv'
  <2>1. \A v \in Users : /\ Counting(next, v) = 0 /\ Counting(c, v) = 0
                         /\ Guessing(next, v) \in 0..1 /\ Guessing(c, v) \in 0..1
                         /\ next.op # "wrong" => Guessing(next, v) = 0
                         /\ next.op = "wrong" /\ v # u => Guessing(next, v) = 0
    BY <1>1, <1>4 DEF Guessing, Counting
  <2>2. \A v \in Users : Guesses(v)' \in Nat /\ (v # u => Guesses(v)' = Guesses(v))
    <3>1. \A v \in Users : codes'[v] \in {None} \cup Code
      BY <1>4
    <3> QED
      BY <1>4, <3>1 DEF Guesses, Code
  <2>3. \A v \in Users : \/ Guesses(v)' + Guessing(next, v) <= Guesses(v) + Guessing(c, v)
                         \/ Guesses(v)' < MaxAttempts
    <3>1. \A v \in Users \ {u} : Guesses(v)' + Guessing(next, v) <= Guesses(v) + Guessing(c, v)
      BY <1>4, <2>1, <2>2, CodeTables
    <3>2. \A v \in Users : v = u => Guesses(v)' <= Guesses(v) + Guessing(c, v)
      BY <1>4
    <3>3. \A v \in Users : v = u /\ next.op # "wrong" =>
                Guesses(v)' + Guessing(next, v) <= Guesses(v) + Guessing(c, v)
      BY <2>1, <2>2, <3>2, CodeTables
    <3>4. \A v \in Users : v = u /\ next.op = "wrong" => Guesses(v)' < MaxAttempts
      BY <1>4
    <3> QED
      BY <3>1, <3>3, <3>4
  <2>4. \A v \in Users :
          /\ sent'[v] - daily'[v] + Counting(next, v) <= sent[v] - daily[v] + Counting(c, v)
          /\ sent'[v] + Counting(next, v) <= sent[v] + Counting(c, v)
    BY <1>4, <2>1, CodeTables
  <2>5. next.op \in {"issue", "holder"} => next.from = None
    BY <1>4
  <2>6. cooling' \cup dayEnds' \subseteq Users
    BY <1>4, CodeTables
  <2>7. /\ UNCHANGED <<users, booked, sessions, linkVars>> /\ made' \in Nat
        /\ \A v \in Users : codes'[v] # None => codes'[v].code <= made'
        /\ daily' \in [Users -> Int] /\ sent' \in [Users -> Nat]
    BY <1>4, CodeTables
  <2> QED
    BY <1>4, <2>3, <2>4, <2>5, <2>6, <2>7, CodeStep
<1>5. \A v \in Users : Guessing(c, v) \in 0..1
  BY DEF Guessing
<1>6. ASSUME codes' = [codes EXCEPT ![u] = None]
      PROVE  /\ codes' \in [Users -> {None} \cup Code] /\ Guesses(u)' <= Guesses(u) + Guessing(c, u)
             /\ \A v \in Users : codes'[v] # None => codes'[v].code <= made
             /\ \A v \in Users \ {u} : codes'[v] = codes[v]
  <2>1. codes' \in [Users -> {None} \cup Code] /\ codes'[u] = None
        /\ \A v \in Users \ {u} : codes'[v] = codes[v]
    BY <1>6, CodeTables
  <2>2. Guesses(u)' = 0
    BY <2>1 DEF Guesses
  <2> QED
    BY <1>5, <2>1, <2>2, CodeTables
<1>7. CASE VerifyOtp(k)
  <2>1. UNCHANGED <<users, booked, sessions, codes, cooling, daily, dayEnds, sent, made, linkVars, codeVars>>
    BY <1>7 DEF VerifyOtp, codeVars
  <2>2. CASE Leave(k)
    BY <2>1, <2>2, LeaveKeeps
  <2>3. ASSUME NEW op \in {"lock", "use", "wrong"}, Continue(k, [c EXCEPT !.op = op]),
               op = "wrong" => InForce(u) /\ ~Locked(u)
        PROVE  IndInv'
    <3> DEFINE next == [c EXCEPT !.op = op]
    <3>1. next \in Call /\ next.op = op /\ next.user = u
      BY <1>3
    <3>2. calls' = [calls EXCEPT ![k] = next]
      BY <2>3 DEF Continue
    <3> HIDE DEF next
    <3>3. Guesses(u)' = Guesses(u)
      BY <2>1 DEF Guesses
    <3>4. op = "wrong" => Guesses(u) < MaxAttempts
      <4>1. codes[u] # None => codes[u] \in Code
        BY CodeTables
      <4> QED
        BY <2>3, <4>1, AccountsAssumption DEF Guesses, InForce, Locked, Code
    <3>5. Guesses(u)' <= Guesses(u) + Guessing(c, u)
      BY <1>5, <3>3, CodeTables
    <3>6. next.op = "wrong" => Guesses(u)' < MaxAttempts /\ next.user = u
      BY <3>1, <3>3, <3>4
    <3>7. /\ codes' \in [Users -> {None} \cup Code] /\ cooling' \subseteq Users
          /\ \A v \in Users : codes'[v] # None => codes'[v].code <= made
          /\ \A v \in Users \ {u} : codes'[v] = codes[v]
      BY <2>1, CodeTables
    <3> QED
      BY <1>4, <2>1, <3>1, <3>2, <3>5, <3>6, <3>7
  <2> QED
    BY <1>2, <1>7, <2>2, <2>3 DEF VerifyOtp
<1>8. CASE CountGuess(k)
  <2> DEFINE record == IF codes[u] = None THEN [code |-> NoCode, attempts |-> 1]
                       ELSE [codes[u] EXCEPT !.attempts = @ + 1]
             next == [c EXCEPT !.op = "lock"]
  <2>1. /\ codes' = [codes EXCEPT ![u] = record] /\ c.op = "wrong"
        /\ calls' = [calls EXCEPT ![k] = next] \/ calls' = [calls EXCEPT ![k] = Idle]
        /\ UNCHANGED <<users, booked, sessions, linkVars, cooling, daily, dayEnds, sent, made>>
    BY <1>2, <1>8 DEF CountGuess, Continue, Leave
  <2>2. codes[u] = None => record \in Code /\ record.code <= made /\ record.attempts = 1
    BY CodeTables DEF Code, NoCode
  <2>3. codes[u] # None => record \in Code /\ record.code <= made /\ record.attempts = codes[u].attempts + 1
    <3>1. codes[u] # None => codes[u] \in Code /\ codes[u].code <= made
      BY CodeTables
    <3> QED
      BY <3>1 DEF Code
  <2>4. next \in Call /\ next.op = "lock" /\ Idle \in Call /\ Idle.op = "idle"
    BY <1>3, IdleIsCall
  <2> HIDE DEF record, next
  <2>5. /\ codes' \in [Users -> {None} \cup Code] /\ codes'[u] = record
        /\ \A v \in Users \ {u} : codes'[v] = codes[v]
        /\ \A v \in Users : codes'[v] # None => codes'[v].code <= made
    BY <2>1, <2>2, <2>3, CodeTables
  <2>6. Guesses(u)' <= Guesses(u) + Guessing(c, u)
    <3>1. record \in Code => record.attempts \in Nat
      BY DEF Code
    <3>2. Guessing(c, u) = 1
      BY <1>2, <2>1 DEF Guessing
    <3>3. codes'[u] # None => Guesses(u)' = record.attempts
      BY <2>5 DEF Guesses
    <3>4. codes'[u] = None => Guesses(u)' = 0
      BY DEF Guesses
    <3>5. record.attempts = Guesses(u) + 1
      BY <2>2, <2>3 DEF Guesses
    <3> QED
      BY <3>2, <3>3, <3>4, <3>5, CodeTables
  <2>7. cooling' \subseteq Users
    BY <2>1, CodeTables
  <2> QED
    BY <1>4, <2>1, <2>4, <2>5, <2>6, <2>7
<1>9. CASE Lock(k)
  <2>1. /\ codes' = [codes EXCEPT ![u] = None] /\ calls' = [calls EXCEPT ![k] = Idle]
        /\ UNCHANGED <<users, booked, sessions, linkVars, cooling, daily, dayEnds, sent, made>>
    BY <1>2, <1>9 DEF Lock, Continue, Leave
  <2>2. cooling' \subseteq Users
    BY <2>1, CodeTables
  <2> QED
    BY <1>4, <1>6, <2>1, <2>2, IdleIsCall
<1>10. CASE UseCode(k)
  <2>1. /\ codes' = [codes EXCEPT ![u] = None] /\ cooling' = cooling \ {u}
        /\ \/ calls' = [calls EXCEPT ![k] = Idle]
           \/ calls' = [calls EXCEPT ![k] = Issuing(u, None)]
        /\ UNCHANGED <<users, booked, sessions, linkVars, daily, dayEnds, sent, made>>
    BY <1>2, <1>10 DEF UseCode, Forgotten, Continue, Leave
  <2>2. Issuing(u, None) \in Call /\ Issuing(u, None).op = "issue" /\ Issuing(u, None).from = None
    BY DEF Issuing, Call
  <2>3. cooling' \subseteq Users
    BY <2>1, CodeTables
  <2> QED
    BY <1>4, <1>6, <2>1, <2>2, <2>3, IdleIsCall
<1> QED
  BY <1>1, <1>7, <1>8, <1>9, <1>10

(* Codes, the wait between them and their day run out. *)
LEMMA EndsKeep ==
    ASSUME IndInv, NEW u \in Users, CodeExpires(u) \/ CooldownEnds(u) \/ DayEnds(u)
    PROVE  IndInv'
<1>1. /\ UNCHANGED <<users, booked, sessions, links, linkOf, made, calls>>
      /\ codes' = codes \/ codes' = [codes EXCEPT ![u] = None]
      /\ cooling' \subseteq cooling /\ dayEnds' \subseteq dayEnds
      /\ \/ sent' = sent /\ daily' = daily
         \/ sent' = [sent EXCEPT ![u] = 0] /\ daily' = [daily EXCEPT ![u] = 0]
  BY DEF CodeExpires, CooldownEnds, DayEnds, linkVars
<1>2. TypeOK /\ SessionInv /\ CodeInv
  BY DEF IndInv, HistoryKept
<1>3. codes' \in [Users -> {None} \cup Code] /\ \A v \in Users : codes'[v] \in {None, codes[v]}
      /\ daily' \in [Users -> Int] /\ sent' \in [Users -> Nat]
  BY <1>1, CodeTables
<1>4. TypeOK' /\ HistoryKept'
  BY <1>1, <1>3, CodeTables DEF IndInv, HistoryKept, TypeOK, Issued, Link, Account
<1>5. SessionInv'
  BY <1>1, <1>2 DEF SessionInv, RotatedOnce, Rotating, Issued
<1>6. CodeInv'
  <2> SUFFICES ASSUME NEW v \in Users
               PROVE  /\ Guesses(v)' + Cardinality(Wrong(v)') < MaxAttempts + Cardinality(Callers)
                      /\ sent'[v] + Cardinality(Sending(v)') <= daily'[v] + Cardinality(Callers)
                      /\ sent'[v] + Cardinality(Sending(v)') <= MaxPerDay + Cardinality(Callers)
    BY DEF CodeInv
  <2>1. Wrong(v)' = Wrong(v) /\ Sending(v)' = Sending(v)
    BY <1>1 DEF Wrong, Sending
  <2>2. Guesses(v)' \in {0, Guesses(v)}
    BY <1>3 DEF Guesses
  <2>3. (sent'[v] = sent[v] /\ daily'[v] = daily[v]) \/ (sent'[v] = 0 /\ daily'[v] = 0)
    BY <1>1, CodeTables
  <2>4. /\ Guesses(v) + Cardinality(Wrong(v)) < MaxAttempts + Cardinality(Callers)
        /\ sent[v] + Cardinality(Sending(v)) <= daily[v] + Cardinality(Callers)
        /\ sent[v] + Cardinality(Sending(v)) <= MaxPerDay + Cardinality(Callers)
    BY <1>2 DEF CodeInv
  <2>5. /\ Cardinality(Wrong(v)) \in Nat /\ Cardinality(Sending(v)) \in Nat
        /\ Cardinality(Callers) \in Nat /\ MaxAttempts \in Nat /\ MaxPerDay \in Nat
        /\ Cardinality(Wrong(v)) <= Cardinality(Callers) /\ Cardinality(Sending(v)) <= Cardinality(Callers)
        /\ Guesses(v) \in Nat /\ sent[v] \in Nat /\ daily[v] \in Int
    BY CallersFinite, AccountsAssumption, CodeTables
  <2> QED
    BY <2>1, <2>2, <2>3, <2>4, <2>5
<1> QED
  BY <1>4, <1>5, <1>6 DEF IndInv

-----------------------------------------------------------------------------
LEMMA Initially == Init => IndInv
<1> SUFFICES ASSUME Init PROVE IndInv
  OBVIOUS
<1>1. PICK o \in Opening :
        /\ users = o.users /\ booked = o.booked /\ sessions = o.sessions
        /\ codes = o.codes /\ made = o.made
        /\ sent = [u \in Users |-> IF o.codes[u] = None THEN 0 ELSE o.made]
        /\ daily = sent /\ dayEnds = {u \in Users : sent[u] > 0}
  BY DEF Init
<1>2. Sound(o) /\ None \notin Nat /\ MaxPerDay \in Nat /\ MaxAttempts \in Nat \ {0}
  BY AccountsAssumption
<1>3. /\ cooling = {} /\ links = <<>> /\ linkOf = [u \in Users |-> None]
      /\ calls = [k \in Callers |-> Idle]
  BY DEF Init
<1>4. sent \in [Users -> 0..MaxPerDay]
  BY <1>1, <1>2 DEF Sound
<1>5. \A t \in Issued : sessions[t].from = None
  <2>1. sessions \in Seq(SessionRow) /\ \A t \in DOMAIN sessions : sessions[t].from = None
    BY <1>1, <1>2 DEF Sound
  <2> QED
    BY <2>1 DEF Issued
<1>6. calls \in [Callers -> Call] /\ \A k \in Callers : calls[k].op = "idle"
  BY <1>3, IdleIsCall
<1>7. HistoryKept
  <2>1. \A u \in Users : codes[u] # None => codes[u].code <= made
    BY <1>1, <1>2 DEF Sound
  <2>2. daily \in [Users -> Int] /\ sent \in [Users -> Nat] /\ dayEnds \subseteq Users
    BY <1>1, <1>2, <1>4
  <2>3. links \in Seq(Users \cup {None}) /\ linkOf \in [Users -> Link \cup {None}]
    BY <1>3
  <2> QED
    BY <1>1, <1>2, <1>3, <1>5, <1>6, <2>1, <2>2, <2>3 DEF HistoryKept, TypeOK, Sound, Account
<1>8. SessionInv
  BY <1>2, <1>5, <1>6 DEF SessionInv, RotatedOnce, Rotating, Issued
<1>9. CodeInv
  <2> SUFFICES ASSUME NEW u \in Users
               PROVE  /\ Guesses(u) + Cardinality(Wrong(u)) < MaxAttempts + Cardinality(Callers)
                      /\ sent[u] + Cardinality(Sending(u)) <= daily[u] + Cardinality(Callers)
                      /\ sent[u] + Cardinality(Sending(u)) <= MaxPerDay + Cardinality(Callers)
    BY DEF CodeInv
  <2>1. Wrong(u) = {} /\ Sending(u) = {}
    BY <1>6 DEF Wrong, Sending
  <2>2. Guesses(u) = 0
    BY <1>1, <1>2 DEF Guesses, Sound
  <2>3. Cardinality({}) = 0 /\ Cardinality(Callers) \in Nat
    BY FS_EmptySet, CallersFinite
  <2> QED
    BY <1>1, <1>2, <1>4, <2>1, <2>2, <2>3
<1> QED
  BY <1>7, <1>8, <1>9 DEF IndInv

LEMMA StepKeeps == IndInv /\ [Next]_vars => IndInv'
<1> SUFFICES ASSUME IndInv, [Next]_vars PROVE IndInv'
  OBVIOUS
<1>1. ASSUME NEW k \in Callers, NEW u \in Users, SignIns(k, u) PROVE IndInv'
  BY <1>1, ReadsKeep, RegisterKeeps DEF SignIns
<1>2. ASSUME NEW k \in Callers, Progress(k) PROVE IndInv'
  <2>1. CASE IssueTokens(k)
    BY <2>1, IssueKeeps
  <2>2. CASE LogoutAll(k)
    BY <2>2, RevocationKeeps
  <2>3. CASE Close(k)
    BY <2>3, CloseKeeps
  <2>4. CASE CountRequest(k)
    BY <2>4, CountRequestKeeps
  <2>5. CASE BeginDay(k) \/ StoreCode(k) \/ Delivered(k) \/ DeliveryFails(k) \/ Uncount(k)
    BY <2>5, SendingKeeps
  <2>6. CASE VerifyOtp(k) \/ CountGuess(k) \/ Lock(k) \/ UseCode(k)
    BY <2>6, GuessingKeeps
  <2>7. CASE DeletePrevious(k) \/ StoreLink(k) \/ MailFails(k) \/ ConsumeLink(k)
    BY <2>7, LinkStepsKeep
  <2>8. CASE SavePassword(k) \/ ResolveCustomer(k) \/ SaveEdit(k)
    BY <2>8, AccountWritesKeep
  <2>9. CASE ReadHolder(k) \/ ReadPrevious(k) \/ MailSent(k) \/ ReadForReset(k) \/ Crash(k)
    BY <2>9, ProgressReads
  <2> QED
    BY <1>2, <2>1, <2>2, <2>3, <2>4, <2>5, <2>6, <2>7, <2>8, <2>9 DEF Progress
<1>3. ASSUME NEW u \in Users,
             CodeExpires(u) \/ CooldownEnds(u) \/ DayEnds(u) \/ Book(u) \/ EndTrip(u)
      PROVE  IndInv'
  BY <1>3, EndsKeep, BookingsKeep
<1>4. CASE UNCHANGED vars
  <2>1. /\ UNCHANGED <<users, booked, sessions, codes, cooling, daily, dayEnds, sent, made>>
        /\ UNCHANGED <<links, linkOf, calls>>
    BY <1>4 DEF vars, codeVars, linkVars
  <2>2. TypeOK' /\ HistoryKept'
    BY <2>1 DEF IndInv, HistoryKept, TypeOK, Account, Issued, Link
  <2>3. SessionInv'
    BY <2>1 DEF IndInv, SessionInv, RotatedOnce, Rotating, Issued
  <2>4. CodeInv'
    BY <2>1 DEF IndInv, CodeInv, Guesses, Wrong, Sending
  <2> QED
    BY <2>2, <2>3, <2>4 DEF IndInv
<1> QED
  BY <1>1, <1>2, <1>3, <1>4, OversightKeeps, RefreshKeeps, ResetKeeps, RevocationKeeps,
     LinkExpiresKeeps, CreateKeeps DEF Next

THEOREM Inductive == Spec => []IndInv
BY Initially, StepKeeps, PTL DEF Spec

(* A refresh token is exchanged for at most one other (auth.refresh).      *)
THEOREM RotatesOnce == Spec => []RotatedOnce
<1>1. IndInv => RotatedOnce
  BY DEF IndInv, SessionInv
<1> QED
  BY <1>1, Inductive, PTL

(* Codes are guessed at and sent no more often than their limits and the   *)
(* requests under way allow (otp.requestOtp, otp.verifyOtp).               *)
THEOREM CodesStayBounded == Spec => []CodesBounded
<1>1. IndInv => CodesBounded
  <2> SUFFICES ASSUME IndInv, NEW u \in Users
               PROVE  /\ codes[u] # None => codes[u].attempts < MaxAttempts + Cardinality(Callers)
                      /\ sent[u] <= MaxPerDay + Cardinality(Callers)
    BY DEF CodesBounded
  <2>1. /\ Guesses(u) + Cardinality(Wrong(u)) < MaxAttempts + Cardinality(Callers)
        /\ sent[u] + Cardinality(Sending(u)) <= MaxPerDay + Cardinality(Callers)
    BY DEF IndInv, CodeInv
  <2>2. /\ Cardinality(Wrong(u)) \in Nat /\ Cardinality(Sending(u)) \in Nat
        /\ Cardinality(Callers) \in Nat /\ MaxAttempts \in Nat /\ MaxPerDay \in Nat
        /\ Guesses(u) \in Nat /\ sent[u] \in Nat
    BY CallersFinite, AccountsAssumption, CodeTables
  <2>3. codes[u] # None => codes[u].attempts = Guesses(u)
    BY DEF Guesses
  <2> QED
    BY <2>1, <2>2, <2>3
<1> QED
  BY <1>1, Inductive, PTL

(* Tables keep their types, and a customer with a booking keeps a row,     *)
(* whoever closes accounts meanwhile (user.remove).                        *)
THEOREM HistoryIsKept == Spec => []HistoryKept
<1>1. IndInv => HistoryKept
  BY DEF IndInv
<1> QED
  BY <1>1, Inductive, PTL

-----------------------------------------------------------------------------
(* Addresses.                                                              *)

AddressRows == [id : Nat, default : BOOLEAN]

Calls ==
    [op : {"create"}, default : BOOLEAN]
    \cup [op : {"update"}, id : Nat, wanted : {"yes", "no", "as is"}]
    \cup [op : {"choose"}, id : Nat]
    \cup [op : {"remove"}, id : Nat, default : BOOLEAN]

(* A request has found what it demotes only if it makes a default.         *)
Visits ==
    {v \in [alone : BOOLEAN, call : Calls, found : SUBSET SUBSET Nat] :
        ~Chooses(v.call) => v.found = {}}

(* The rows have one default. *)
OneOf(rows) == \E d \in rows : d.default /\ \A a \in rows : a.default => a = d

(* A request no other has crossed goes by the rows there are now.          *)
Fresh(v) ==
    /\ v.found \subseteq {{a.id : a \in Defaults}}
    /\ v.call.op = "create" /\ ~v.call.default => addresses # {}
    /\ v.call.op = "remove" => \E a \in addresses : a.id = v.call.id /\ a.default = v.call.default

Creating == {k \in Devices : \E v \in visits[k] : v.call.op = "create"}

AddressInv ==
    /\ addresses \subseteq AddressRows /\ saved \in Nat /\ unsettled \in BOOLEAN
    /\ \A a \in addresses : a.id <= saved
    /\ \A a, c \in addresses : a.id = c.id => a = c
    /\ visits \in [Devices -> SUBSET Visits]
    /\ \A k \in Devices : \A v \in visits[k] : visits[k] = {v} /\ (v.alone => Fresh(v))
    /\ IsFiniteSet(addresses)
    /\ Cardinality(addresses) + Cardinality(Creating) < MaxAddresses + Cardinality(Devices)
    /\ unsettled \/ addresses = {} \/ OneOf(addresses)

(* What a request found does not change what it asks for. *)
LEMMA Crossed ==
    ASSUME NEW v \in Visits
    PROVE  /\ [v EXCEPT !.alone = FALSE] \in Visits
           /\ [v EXCEPT !.alone = FALSE].alone = FALSE
           /\ [v EXCEPT !.alone = FALSE].call = v.call
<1> HIDE DEF Calls, Chooses
<1> QED
  BY DEF Visits

(* As many requests create addresses as there are requests, at most. *)
LEMMA FewCreate ==
    ASSUME NEW S \in SUBSET Devices
    PROVE  IsFiniteSet(S) /\ Cardinality(S) \in Nat /\ Cardinality(S) <= Cardinality(Devices)
<1>1. IsFiniteSet(Devices)
  BY AddressAssumption
<1>2. IsFiniteSet(S) /\ Cardinality(S) <= Cardinality(Devices)
  BY <1>1, FS_Subset
<1> QED
  BY <1>2, FS_CardinalityType

(* A request that only looks, or fails, leaves the addresses as they are. *)
LEMMA VisitStep ==
    ASSUME AddressInv, NEW k \in Devices, NEW S \in SUBSET Visits,
           visits' = [visits EXCEPT ![k] = S], UNCHANGED <<addresses, saved, unsettled>>,
           \A v \in S : S = {v} /\ (v.alone => Fresh(v)),
           \A v \in S : v.call.op = "create" =>
               k \in Creating \/ Cardinality(addresses) < MaxAddresses
    PROVE  AddressInv'
<1>1. visits' \in [Devices -> SUBSET Visits]
  BY DEF AddressInv
<1>2. ASSUME NEW j \in Devices, NEW v \in visits'[j]
      PROVE  visits'[j] = {v} /\ (v.alone => Fresh(v)')
  <2>1. visits'[j] = {v} /\ (v.alone => Fresh(v))
    BY <1>2 DEF AddressInv
  <2> QED
    BY <2>1 DEF Fresh, Defaults
<1>3. Cardinality(addresses) \in Nat /\ Cardinality(Devices) \in Nat
      /\ MaxAddresses \in Nat
  BY AddressAssumption, FS_CardinalityType DEF AddressInv
<1>4. Creating \in SUBSET Devices /\ Creating' \in SUBSET Devices
  BY DEF Creating
<1>5. /\ IsFiniteSet(Creating) /\ Cardinality(Creating) \in Nat
      /\ Cardinality(Creating') \in Nat /\ Cardinality(Creating') <= Cardinality(Devices)
  BY <1>4, FewCreate
<1>6. Cardinality(addresses) + Cardinality(Creating') < MaxAddresses + Cardinality(Devices)
  <2>1. CASE Cardinality(addresses) < MaxAddresses
    BY <2>1, <1>3, <1>5
  <2>2. CASE ~(Cardinality(addresses) < MaxAddresses)
    <3>1. Creating' \subseteq Creating
      <4>1. SUFFICES ASSUME NEW j \in Creating' PROVE j \in Creating
        OBVIOUS
      <4>2. j \in Devices /\ \E v \in visits'[j] : v.call.op = "create"
        BY <4>1 DEF Creating
      <4>3. CASE j = k
        BY <4>2, <4>3, <2>2 DEF AddressInv
      <4>4. CASE j # k
        <5>1. visits'[j] = visits[j]
          BY <4>4, <4>2 DEF AddressInv
        <5> QED
          BY <5>1, <4>2 DEF Creating
      <4> QED
        BY <4>3, <4>4
    <3>2. Cardinality(Creating') <= Cardinality(Creating)
      BY <3>1, <1>5, FS_Subset
    <3>3. Cardinality(addresses) + Cardinality(Creating) < MaxAddresses + Cardinality(Devices)
      BY DEF AddressInv
    <3> QED
      BY <3>2, <3>3, <1>3, <1>5
  <2> QED
    BY <2>1, <2>2
<1>7. (Cardinality(addresses) + Cardinality(Creating) < MaxAddresses + Cardinality(Devices))'
  BY <1>6
<1> QED
  BY <1>1, <1>2, <1>7 DEF AddressInv, OneOf

(* A transaction that commits: every other request under way is crossed.   *)
LEMMA CommitStep ==
    ASSUME AddressInv, NEW k \in Devices, NEW visit \in visits[k], NEW rows,
           Commits(k, rows), rows \subseteq AddressRows, IsFiniteSet(rows),
           saved' \in Nat, \A a \in rows : a.id <= saved',
           \A a, c \in rows : a.id = c.id => a = c,
           Cardinality(rows) <= Cardinality(addresses)
               \/ (visit.call.op = "create" /\ Cardinality(rows) <= Cardinality(addresses) + 1),
           unsettled' \in BOOLEAN,
           unsettled' \/ rows = {} \/ OneOf(rows)
    PROVE  AddressInv'
<1> DEFINE Cross(v) == [v EXCEPT !.alone = FALSE]
<1>1. addresses' = rows
      /\ visits' = [j \in Devices |-> IF j = k THEN {} ELSE {Cross(v) : v \in visits[j]}]
  BY DEF Commits
<1>2. \A j \in Devices : visits[j] \subseteq Visits
  BY DEF AddressInv
<1>0. \A v \in Visits :
          Cross(v) \in Visits /\ Cross(v).alone = FALSE /\ Cross(v).call = v.call
  BY Crossed
<1> HIDE DEF Cross
<1>3. \A j \in Devices : \A v \in visits[j] :
          Cross(v) \in Visits /\ Cross(v).alone = FALSE /\ Cross(v).call = v.call
  BY <1>0, <1>2
<1>4. visits' \in [Devices -> SUBSET Visits]
  BY <1>1, <1>3
<1>5. ASSUME NEW j \in Devices, NEW w \in visits'[j]
      PROVE  visits'[j] = {w} /\ w.alone = FALSE
  <2>1. j # k /\ visits'[j] = {Cross(v) : v \in visits[j]}
    BY <1>1, <1>5
  <2>2. PICK v \in visits[j] : w = Cross(v)
    BY <2>1, <1>5
  <2>3. visits[j] = {v}
    BY <2>2 DEF AddressInv
  <2> QED
    BY <2>1, <2>2, <2>3, <1>3
<1>6. /\ Cardinality(addresses) \in Nat /\ Cardinality(rows) \in Nat
      /\ Cardinality(Devices) \in Nat /\ MaxAddresses \in Nat
  BY AddressAssumption, FS_CardinalityType DEF AddressInv
<1>7. Creating \in SUBSET Devices
  BY DEF Creating
<1>8. IsFiniteSet(Creating) /\ Cardinality(Creating) \in Nat
  BY <1>7, FewCreate
<1>9. Creating' \in SUBSET (Creating \ {k})
  <2>1. SUFFICES ASSUME NEW j \in Creating' PROVE j \in Creating \ {k}
    OBVIOUS
  <2>2. j \in Devices /\ \E w \in visits'[j] : w.call.op = "create"
    BY <2>1 DEF Creating
  <2>3. PICK w \in visits'[j] : w.call.op = "create"
    BY <2>2
  <2>4. j # k /\ \E v \in visits[j] : w = Cross(v)
    BY <2>2, <2>3, <1>1
  <2> QED
    BY <2>2, <2>3, <2>4, <1>3 DEF Creating
<1>10. /\ IsFiniteSet(Creating \ {k})
       /\ Cardinality(Creating \ {k}) =
             IF k \in Creating THEN Cardinality(Creating) - 1 ELSE Cardinality(Creating)
  BY <1>8, FS_RemoveElement
<1>11. Cardinality(Creating') \in Nat /\ Cardinality(Creating') <= Cardinality(Creating \ {k})
  BY <1>9, <1>10, FS_Subset, FS_CardinalityType
<1>12. visit.call.op = "create" => k \in Creating
  BY DEF Creating
<1>13. Cardinality(addresses) + Cardinality(Creating) < MaxAddresses + Cardinality(Devices)
  BY DEF AddressInv
<1>14. Cardinality(rows) + Cardinality(Creating') < MaxAddresses + Cardinality(Devices)
  BY <1>6, <1>8, <1>10, <1>11, <1>12, <1>13
<1>15. (Cardinality(addresses) + Cardinality(Creating) < MaxAddresses + Cardinality(Devices))'
  BY <1>14, <1>1
<1>16. \A a, c \in addresses' : a.id = c.id => a = c
  BY <1>1
<1>17. (unsettled \/ addresses = {} \/ OneOf(addresses))'
  BY <1>1 DEF OneOf
<1> QED
  BY <1>1, <1>4, <1>5, <1>15, <1>16, <1>17 DEF AddressInv

(* Demotion keeps the rows and their ids, and leaves as defaults those     *)
(* that were not found.                                                    *)
LEMMA DemotedRows ==
    ASSUME NEW rows \in SUBSET AddressRows, NEW found, IsFiniteSet(rows)
    PROVE  /\ Demoted(rows, found) \subseteq AddressRows
           /\ IsFiniteSet(Demoted(rows, found))
           /\ Cardinality(Demoted(rows, found)) <= Cardinality(rows)
           /\ \A b \in Demoted(rows, found) : \E a \in rows :
                 b.id = a.id /\ b.default = (a.default /\ a.id \notin UNION found)
           /\ (\A a, c \in rows : a.id = c.id => a = c) =>
                 \A b, c \in Demoted(rows, found) : b.id = c.id => b = c
<1> DEFINE g == [a \in rows |-> [a EXCEPT !.default = @ /\ a.id \notin UNION found]]
<1>1. \A a \in rows : g[a] \in AddressRows /\ g[a].id = a.id
                      /\ g[a].default = (a.default /\ a.id \notin UNION found)
  BY DEF AddressRows
<1>2. Demoted(rows, found) = {g[a] : a \in rows}
  BY DEF Demoted
<1>3. g \in Surjection(rows, Demoted(rows, found))
  <2> HIDE DEF g
  <2>1. g = [a \in rows |-> g[a]]
    BY DEF g
  <2> QED
    BY <1>2, <2>1 DEF Surjection
<1> HIDE DEF g
<1>4. /\ IsFiniteSet(Demoted(rows, found))
      /\ Cardinality(Demoted(rows, found)) <= Cardinality(rows)
  BY <1>3, FS_Surjection
<1>5. ASSUME \A a, c \in rows : a.id = c.id => a = c
      PROVE  \A b, c \in Demoted(rows, found) : b.id = c.id => b = c
  BY <1>1, <1>2, <1>5
<1> QED
  BY <1>1, <1>2, <1>4, <1>5

LEMMA NewestExists ==
    ASSUME NEW rows \in SUBSET AddressRows, IsFiniteSet(rows), rows # {}
    PROVE  \E d \in rows : \A b \in rows : b.id <= d.id
<1> DEFINE Above(a) == {b \in rows : b.id >= a.id}
           Tops == {Above(a) : a \in rows}
<1>1. \A a \in rows : a.id \in Nat
  BY DEF AddressRows
<1>2. Tops \in SUBSET SUBSET rows /\ Tops # {}
  OBVIOUS
<1> HIDE DEF Tops
<1>3. PICK s \in Tops : \A t \in Tops : t \subseteq s => t = s
  BY <1>2, MinimalSubset
<1>4. PICK d \in rows : s = Above(d)
  BY DEF Tops
<1>5. ASSUME NEW b \in rows, ~(b.id <= d.id) PROVE FALSE
  <2>1. Above(b) \subseteq Above(d)
    BY <1>1, <1>5
  <2>2. Above(b) = Above(d)
    BY <1>3, <1>4, <2>1 DEF Tops
  <2> QED
    BY <1>1, <1>5, <2>2
<1> QED
  BY <1>5

(* Where no default is left, the newest row becomes the only one. *)
LEMMA PromotedRows ==
    ASSUME NEW rows \in SUBSET AddressRows, IsFiniteSet(rows),
           \A a, c \in rows : a.id = c.id => a = c
    PROVE  /\ Promoted(rows) \subseteq AddressRows
           /\ IsFiniteSet(Promoted(rows))
           /\ Cardinality(Promoted(rows)) <= Cardinality(rows)
           /\ \A b \in Promoted(rows) : \E a \in rows : b.id = a.id
           /\ \A b, c \in Promoted(rows) : b.id = c.id => b = c
           /\ (\A a \in rows : ~a.default) => rows = {} \/ OneOf(Promoted(rows))
<1> DEFINE Newest(a) == \A b \in rows : b.id <= a.id
           g == [a \in rows |-> [a EXCEPT !.default = @ \/ Newest(a)]]
<1>1. \A a \in rows : g[a] \in AddressRows /\ g[a].id = a.id
                      /\ g[a].default = (a.default \/ Newest(a))
  BY DEF AddressRows
<1>2. Promoted(rows) = {g[a] : a \in rows}
  BY DEF Promoted
<1>3. g \in Surjection(rows, Promoted(rows))
  <2> HIDE DEF g
  <2>1. g = [a \in rows |-> g[a]]
    BY DEF g
  <2> QED
    BY <1>2, <2>1 DEF Surjection
<1> HIDE DEF g
<1>4. /\ IsFiniteSet(Promoted(rows))
      /\ Cardinality(Promoted(rows)) <= Cardinality(rows)
  BY <1>3, FS_Surjection
<1>5. ASSUME \A a \in rows : ~a.default, rows # {} PROVE OneOf(Promoted(rows))
  <2>1. PICK d \in rows : Newest(d)
    BY <1>5, NewestExists
  <2>2. \A a \in rows : Newest(a) => a = d
    <3>1. \A a \in rows : a.id \in Nat
      BY DEF AddressRows
    <3> QED
      BY <2>1, <3>1
  <2>3. g[d] \in Promoted(rows) /\ g[d].default
    BY <1>1, <1>2, <2>1
  <2>4. \A b \in Promoted(rows) : b.default => b = g[d]
    <3>1. SUFFICES ASSUME NEW a \in rows, g[a].default PROVE g[a] = g[d]
      BY <1>2
    <3>2. \A b \in rows : b.id <= a.id
      BY <1>1, <1>5, <3>1
    <3> QED
      BY <2>2, <3>2
  <2> QED
    BY <2>3, <2>4 DEF OneOf
<1>6. \A b, c \in Promoted(rows) : b.id = c.id => b = c
  BY <1>1, <1>2
<1> QED
  BY <1>1, <1>2, <1>4, <1>5, <1>6

(* The row of an id, and the others. *)
LEMMA RowOf ==
    ASSUME AddressInv, NEW id \in Ids, NEW default \in BOOLEAN
    PROVE  /\ AddressRow(id) \in addresses /\ AddressRow(id).id = id
           /\ [id |-> id, default |-> default] \in AddressRows
           /\ IsFiniteSet(addresses \ {AddressRow(id)})
           /\ Cardinality(addresses \ {AddressRow(id)}) = Cardinality(addresses) - 1
           /\ \A a \in addresses \ {AddressRow(id)} : a.id # id
<1>1. AddressRow(id) \in addresses /\ AddressRow(id).id = id
  BY DEF Ids, AddressRow
<1>2. id \in Nat
  BY <1>1 DEF AddressInv, AddressRows
<1> QED
  BY <1>1, <1>2, FS_RemoveElement DEF AddressInv, AddressRows

(* A row is put in the place of another, the default or not. *)
Replacement(row, found) == Demoted(addresses \ {AddressRow(row.id)}, found) \cup {row}

LEMMA Replaced ==
    ASSUME AddressInv, NEW row \in AddressRows, row.id \in Ids, NEW found,
           NEW rows, rows = Replacement(row, found)
    PROVE  /\ rows \subseteq AddressRows /\ IsFiniteSet(rows)
           /\ Cardinality(rows) <= Cardinality(addresses)
           /\ \A a \in rows : a.id <= saved
           /\ \A a, c \in rows : a.id = c.id => a = c
<1> DEFINE others == addresses \ {AddressRow(row.id)}
<1>1. /\ AddressRow(row.id) \in addresses /\ AddressRow(row.id).id = row.id
      /\ IsFiniteSet(others) /\ Cardinality(others) = Cardinality(addresses) - 1
      /\ \A a \in others : a.id # row.id
  BY RowOf
<1>3. others \in SUBSET AddressRows /\ others \subseteq addresses
  BY DEF AddressInv
<1> HIDE DEF others
<1>4. rows = Demoted(others, found) \cup {row}
  BY DEF others, Replacement
<1>5. /\ Demoted(others, found) \subseteq AddressRows
      /\ IsFiniteSet(Demoted(others, found))
      /\ Cardinality(Demoted(others, found)) <= Cardinality(others)
      /\ \A b \in Demoted(others, found) : \E a \in others :
            b.id = a.id /\ b.default = (a.default /\ a.id \notin UNION found)
      /\ (\A a, c \in others : a.id = c.id => a = c) =>
            \A b, c \in Demoted(others, found) : b.id = c.id => b = c
  BY <1>1, <1>3, DemotedRows
<1>6. /\ Cardinality(addresses) \in Nat /\ Cardinality(others) \in Nat
      /\ Cardinality(Demoted(others, found)) \in Nat
  BY <1>1, <1>5, FS_CardinalityType DEF AddressInv
<1>7. /\ IsFiniteSet(rows)
      /\ Cardinality(rows) <= Cardinality(Demoted(others, found)) + 1
  <2>1. /\ IsFiniteSet(Demoted(others, found) \cup {row})
        /\ Cardinality(Demoted(others, found) \cup {row}) =
              IF row \in Demoted(others, found) THEN Cardinality(Demoted(others, found))
                                               ELSE Cardinality(Demoted(others, found)) + 1
    BY <1>5, FS_AddElement
  <2>2. IsFiniteSet(rows)
    BY <1>4, <2>1
  <2>3. \/ Cardinality(rows) = Cardinality(Demoted(others, found))
        \/ Cardinality(rows) = Cardinality(Demoted(others, found)) + 1
    BY <1>4, <2>1
  <2> QED
    BY <1>6, <2>2, <2>3
<1>8. Cardinality(rows) \in Nat /\ Cardinality(rows) <= Cardinality(addresses)
  BY <1>1, <1>5, <1>6, <1>7, FS_CardinalityType
<1>9. \A a \in rows : a.id <= saved
  BY <1>1, <1>3, <1>4, <1>5 DEF AddressInv
<1>10. \A a, c \in rows : a.id = c.id => a = c
  <2>1. \A a, c \in Demoted(others, found) : a.id = c.id => a = c
    BY <1>3, <1>5 DEF AddressInv
  <2>2. \A a \in Demoted(others, found) : a.id # row.id
    BY <1>1, <1>5
  <2> QED
    BY <1>4, <2>1, <2>2
<1> QED
  BY <1>1, <1>4, <1>5, <1>7, <1>8, <1>9, <1>10

LEMMA RowsTyped ==
    ASSUME AddressInv
    PROVE  /\ addresses \in SUBSET AddressRows /\ IsFiniteSet(addresses)
           /\ Cardinality(addresses) \in Nat /\ saved \in Nat
           /\ visits \in [Devices -> SUBSET Visits]
           /\ \A k \in Devices : \A v \in visits[k] :
                 v \in Visits /\ visits[k] = {v} /\ (v.alone => Fresh(v))
BY FS_CardinalityType DEF AddressInv

(* What a request alone has found is the default, which it demotes.        *)
LEMMA AllDemoted ==
    ASSUME AddressInv, NEW k \in Devices, NEW visit \in Due(k), visit.alone,
           Chooses(visit.call), NEW a \in addresses, a.default
    PROVE  a.id \in UNION visit.found
<1>1. visit \in visits[k] /\ visit.found # {}
  BY DEF Due
<1>2. visit.found \subseteq {{b.id : b \in Defaults}}
  BY <1>1, RowsTyped DEF Fresh
<1>3. {b.id : b \in Defaults} \in visit.found
  BY <1>1, <1>2
<1>4. a.id \in {b.id : b \in Defaults}
  BY DEF Defaults
<1> QED
  BY <1>3, <1>4

(* A row is chosen as the default. *)
LEMMA ChosenStep ==
    ASSUME AddressInv, NEW k \in Devices, NEW visit \in Due(k), Chooses(visit.call),
           visit.call.id \in Ids,
           Commits(k, Chosen(visit.call.id, visit.found)), Settles(visit), UNCHANGED saved
    PROVE  AddressInv'
<1> DEFINE id == visit.call.id
           others == addresses \ {AddressRow(id)}
           row == [id |-> id, default |-> TRUE]
           rows == Chosen(id, visit.found)
<1>1. visit \in visits[k] /\ visit \in Visits /\ (visit.alone => Fresh(visit))
  BY RowsTyped DEF Due
<1>2. rows = Demoted(others, visit.found) \cup {row}
  BY DEF Chosen
<1>3. id \in Ids /\ Commits(k, rows)
  OBVIOUS
<1>4. others \in SUBSET AddressRows /\ others \subseteq addresses /\ IsFiniteSet(others)
  BY <1>3, RowOf, RowsTyped
<1>5. rows = Replacement(row, visit.found)
  BY DEF Chosen, Replacement
<1>6. row \in AddressRows /\ row.id = id /\ row.default = TRUE
  BY <1>3, RowOf
<1> HIDE DEF rows, row, id, others
<1>7. /\ rows \subseteq AddressRows /\ IsFiniteSet(rows)
      /\ Cardinality(rows) <= Cardinality(addresses)
      /\ \A a \in rows : a.id <= saved
      /\ \A a, c \in rows : a.id = c.id => a = c
  BY <1>3, <1>5, <1>6, Replaced
<1>8. visit.alone => OneOf(rows)
  <2>1. SUFFICES ASSUME visit.alone PROVE OneOf(rows)
    OBVIOUS
  <2>2. \A a \in others : a.default => a.id \in UNION visit.found
    BY <1>4, <2>1, AllDemoted
  <2>a. \A b \in Demoted(others, visit.found) : \E a \in others :
            b.id = a.id /\ b.default = (a.default /\ a.id \notin UNION visit.found)
    BY <1>4, DemotedRows
  <2>3. \A b \in Demoted(others, visit.found) : ~b.default
    BY <2>2, <2>a
  <2> QED
    BY <1>2, <1>6, <2>3 DEF OneOf
<1>9. unsettled' \in BOOLEAN /\ (unsettled' \/ OneOf(rows))
  BY <1>8 DEF Settles
<1> QED
  BY <1>1, <1>3, <1>7, <1>9, RowsTyped, CommitStep

LEMMA UnchosenStep ==
    ASSUME AddressInv, NEW k \in Devices, NEW visit \in Due(k), visit.call.id \in Ids,
           Commits(k, Unchosen(visit.call.id)), unsettled' = TRUE, UNCHANGED saved
    PROVE  AddressInv'
<1> DEFINE id == visit.call.id
           others == addresses \ {AddressRow(id)}
           row == [id |-> id, default |-> FALSE]
           rows == Unchosen(id)
<1>1. visit \in visits[k] /\ id \in Ids /\ Commits(k, rows)
  BY DEF Due
<1>2. row \in AddressRows /\ row.id = id
  BY <1>1, RowOf
<1>3. rows = others \cup {row}
  BY DEF Unchosen
<1> HIDE DEF rows, row, id
<1>4. /\ IsFiniteSet(others) /\ Cardinality(others) = Cardinality(addresses) - 1
      /\ others \subseteq addresses /\ \A a \in others : a.id # id
  BY <1>1, RowOf
<1>5. Cardinality(addresses) \in Nat /\ Cardinality(others) \in Nat
  BY <1>4, RowsTyped, FS_CardinalityType
<1>6. \E a \in addresses : a.id = id
  BY <1>1 DEF Ids
<1> HIDE DEF others
<1>7. IsFiniteSet(others \cup {row})
      /\ Cardinality(others \cup {row}) =
            IF row \in others THEN Cardinality(others) ELSE Cardinality(others) + 1
  BY <1>4, FS_AddElement
<1>8. \/ Cardinality(rows) = Cardinality(others)
      \/ Cardinality(rows) = Cardinality(others) + 1
  BY <1>3, <1>7
<1>9. Cardinality(rows) <= Cardinality(addresses)
  BY <1>4, <1>5, <1>8
<1>10. rows \subseteq AddressRows /\ IsFiniteSet(rows)
  BY <1>2, <1>3, <1>4, <1>7, RowsTyped
<1>11. \A a \in rows : a.id <= saved
  BY <1>2, <1>3, <1>4, <1>6 DEF AddressInv
<1>12. \A a, c \in rows : a.id = c.id => a = c
  BY <1>2, <1>3, <1>4 DEF AddressInv
<1> QED
  BY <1>1, <1>9, <1>10, <1>11, <1>12, RowsTyped, CommitStep

LEMMA CreateStep ==
    ASSUME AddressInv, NEW k \in Devices, CreateAddress(k)
    PROVE  AddressInv'
<1>1. PICK visit \in Due(k) :
          /\ visit.call.op = "create" /\ saved < MaxSaved
          /\ Commits(k, Demoted(addresses, visit.found)
                        \cup {[id |-> saved + 1, default |-> visit.call.default]})
          /\ saved' = saved + 1
          /\ IF visit.call.default THEN Settles(visit) ELSE Disturbs(visit)
  BY DEF CreateAddress
<1> DEFINE row == [id |-> saved + 1, default |-> visit.call.default]
           kept == Demoted(addresses, visit.found)
           rows == kept \cup {row}
<1>2. visit \in visits[k] /\ visit \in Visits /\ (visit.alone => Fresh(visit))
  BY RowsTyped DEF Due
<1>3. visit.call.default \in BOOLEAN /\ visit.alone \in BOOLEAN
      /\ (~Chooses(visit.call) => visit.found = {})
  BY <1>1, <1>2 DEF Visits, Calls
<1>4. row \in AddressRows /\ row.id = saved + 1 /\ row.default = visit.call.default
  BY <1>3, RowsTyped DEF AddressRows
<1>5. Commits(k, rows)
  BY <1>1
<1> HIDE DEF row
<1>6. /\ kept \subseteq AddressRows /\ IsFiniteSet(kept)
      /\ Cardinality(kept) <= Cardinality(addresses)
      /\ \A b \in kept : \E a \in addresses :
            b.id = a.id /\ b.default = (a.default /\ a.id \notin UNION visit.found)
      /\ (\A a, c \in addresses : a.id = c.id => a = c) =>
            \A b, c \in kept : b.id = c.id => b = c
  BY RowsTyped, DemotedRows
<1> HIDE DEF kept
<1>7. Cardinality(kept) \in Nat /\ Cardinality(addresses) \in Nat /\ saved \in Nat
  BY <1>6, RowsTyped, FS_CardinalityType
<1>8. IsFiniteSet(kept \cup {row})
      /\ Cardinality(kept \cup {row}) =
            IF row \in kept THEN Cardinality(kept) ELSE Cardinality(kept) + 1
  BY <1>6, FS_AddElement
<1>9. \/ Cardinality(rows) = Cardinality(kept)
      \/ Cardinality(rows) = Cardinality(kept) + 1
  BY <1>8
<1>10. IsFiniteSet(rows)
  BY <1>8
<1>11. \A a \in kept : a.id \in Nat /\ a.id <= saved
  BY <1>6 DEF AddressInv, AddressRows
<1>12. \A a \in rows : a.id <= saved'
  BY <1>1, <1>4, <1>7, <1>11
<1>13. \A a, c \in rows : a.id = c.id => a = c
  <2>1. \A a \in kept : a.id # row.id
    BY <1>4, <1>7, <1>11
  <2>2. \A a, c \in kept : a.id = c.id => a = c
    BY <1>6 DEF AddressInv
  <2> QED
    BY <2>1, <2>2
<1>14. ASSUME ~unsettled' PROVE OneOf(rows)
  <2>1. visit.alone
    BY <1>1, <1>14 DEF Settles, Disturbs
  <2>2. CASE visit.call.default
    <3>1. \A a \in addresses : a.default => a.id \in UNION visit.found
      BY <1>1, <2>1, <2>2, AllDemoted DEF Chooses
    <3>2. \A b \in kept : ~b.default
      BY <1>6, <3>1
    <3> QED
      BY <1>4, <2>2, <3>2 DEF OneOf
  <2>3. CASE ~visit.call.default
    <3>1. ~unsettled /\ visit.found = {} /\ addresses # {}
      BY <1>1, <1>2, <1>3, <1>14, <2>1, <2>3 DEF Disturbs, Fresh, Chooses
    <3>2. PICK d \in addresses : d.default /\ \A a \in addresses : a.default => a = d
      BY <3>1 DEF AddressInv, OneOf
    <3>3. kept = addresses
      <4>1. \A a \in addresses : [a EXCEPT !.default = @ /\ a.id \notin UNION {}] = a
        BY RowsTyped DEF AddressRows
      <4> QED
        BY <3>1, <4>1 DEF kept, Demoted
    <3> QED
      BY <1>4, <2>3, <3>2, <3>3 DEF OneOf
  <2> QED
    BY <2>2, <2>3, <1>3
<1>15. unsettled' \in BOOLEAN
  BY <1>1, <1>3 DEF Settles, Disturbs, AddressInv
<1>16. rows \subseteq AddressRows /\ saved' \in Nat
       /\ Cardinality(rows) <= Cardinality(addresses) + 1
  BY <1>1, <1>4, <1>6, <1>7, <1>9
<1> HIDE DEF rows
<1> QED
  BY <1>1, <1>2, <1>5, <1>10, <1>12, <1>13, <1>14, <1>15, <1>16, CommitStep

LEMMA RemoveStep ==
    ASSUME AddressInv, NEW k \in Devices, NEW visit \in Due(k),
           visit.call.op = "remove", visit.call.id \in Ids,
           NEW rows, Commits(k, rows), Disturbs(visit), UNCHANGED saved,
           rows = IF visit.call.default THEN Promoted({a \in addresses : a.id # visit.call.id})
                                        ELSE {a \in addresses : a.id # visit.call.id}
    PROVE  AddressInv'
<1> DEFINE rest == {a \in addresses : a.id # visit.call.id}
<1>1. visit \in visits[k] /\ visit \in Visits /\ (visit.alone => Fresh(visit))
  BY RowsTyped DEF Due
<1>2. visit.call.default \in BOOLEAN /\ visit.alone \in BOOLEAN
  BY <1>1 DEF Visits, Calls
<1>3. rows = IF visit.call.default THEN Promoted(rest) ELSE rest
  OBVIOUS
<1>4. rest \in SUBSET addresses /\ rest \in SUBSET AddressRows
  BY RowsTyped
<1>5. /\ IsFiniteSet(rest) /\ Cardinality(rest) \in Nat
      /\ Cardinality(rest) <= Cardinality(addresses) /\ Cardinality(addresses) \in Nat
  BY <1>4, RowsTyped, FS_Subset, FS_CardinalityType
<1>6. /\ \A a, c \in rest : a.id = c.id => a = c
      /\ \A a \in rest : a.id <= saved
  BY <1>4 DEF AddressInv
<1>7. ASSUME visit.alone, ~unsettled, addresses # {}
      PROVE  rows = {} \/ OneOf(rows)
  <2>1. PICK d \in addresses : d.default /\ \A a \in addresses : a.default => a = d
    BY <1>7 DEF AddressInv, OneOf
  <2>2. PICK r \in addresses : r.id = visit.call.id /\ r.default = visit.call.default
    BY <1>1, <1>7 DEF Fresh
  <2>3. \A a \in rest : a # r
    BY <2>2
  <2>4. CASE visit.call.default
    <3>1. \A a \in rest : ~a.default
      BY <1>4, <2>1, <2>2, <2>3, <2>4
    <3> HIDE DEF rest
    <3>2. rest = {} \/ OneOf(Promoted(rest))
      BY <1>4, <1>5, <1>6, <3>1, PromotedRows
    <3>3. rest = {} => Promoted(rest) = {}
      BY DEF Promoted
    <3> QED
      BY <1>3, <2>4, <3>2, <3>3
  <2>5. CASE ~visit.call.default
    <3>1. d # r /\ r.id = visit.call.id
      BY <2>1, <2>2, <2>5
    <3>2. d.id # visit.call.id
      BY <3>1 DEF AddressInv
    <3>3. d \in rest
      BY <3>2
    <3> QED
      BY <1>3, <1>4, <2>1, <2>5, <3>3 DEF OneOf
  <2> QED
    BY <1>2, <2>4, <2>5
<1>8. addresses # {}
  BY DEF Ids
<1>9. unsettled' \in BOOLEAN /\ (unsettled' \/ rows = {} \/ OneOf(rows))
  BY <1>2, <1>7, <1>8 DEF Disturbs, AddressInv
<1> HIDE DEF rest
<1>10. /\ rows \subseteq AddressRows /\ IsFiniteSet(rows)
       /\ Cardinality(rows) <= Cardinality(addresses)
       /\ \A a, c \in rows : a.id = c.id => a = c
       /\ \A a \in rows : a.id <= saved
  <2>1. CASE visit.call.default
    <3>1. /\ Promoted(rest) \subseteq AddressRows
          /\ IsFiniteSet(Promoted(rest))
          /\ Cardinality(Promoted(rest)) <= Cardinality(rest)
          /\ \A b \in Promoted(rest) : \E a \in rest : b.id = a.id
          /\ \A b, c \in Promoted(rest) : b.id = c.id => b = c
      BY <1>4, <1>5, <1>6, PromotedRows
    <3>2. Cardinality(Promoted(rest)) \in Nat
      BY <3>1, FS_CardinalityType
    <3>3. rows = Promoted(rest)
      BY <1>3, <2>1
    <3>4. Cardinality(rows) <= Cardinality(addresses)
      <4>1. Cardinality(Promoted(rest)) <= Cardinality(addresses)
        BY <1>5, <3>1, <3>2
      <4> QED
        BY <3>3, <4>1
    <3>5. \A a \in rows : a.id <= saved
      BY <1>6, <3>1, <3>3
    <3> QED
      BY <3>1, <3>3, <3>4, <3>5
  <2>2. CASE ~visit.call.default
    BY <1>3, <1>4, <1>5, <1>6, <2>2
  <2> QED
    BY <1>2, <2>1, <2>2
<1> QED
  BY <1>1, <1>9, <1>10, RowsTyped, CommitStep

LEMMA FailStep ==
    ASSUME AddressInv, NEW k \in Devices, Fails(k)
    PROVE  AddressInv'
<1>1. visits' = [visits EXCEPT ![k] = {}] /\ UNCHANGED <<addresses, saved, unsettled>>
  BY DEF Fails
<1>2. {} \in SUBSET Visits
  OBVIOUS
<1> QED
  BY <1>1, <1>2, VisitStep

(* A request begins, by the list or the row it has looked at. *)
LEMMA AskStep ==
    ASSUME AddressInv, NEW k \in Devices, NEW call \in Calls, Visit(k, call),
           call.op = "create" => Cardinality(addresses) < MaxAddresses,
           call.op = "create" /\ ~call.default => addresses # {},
           call.op = "remove" =>
               \E a \in addresses : a.id = call.id /\ a.default = call.default
    PROVE  AddressInv'
<1> DEFINE visit == [alone |-> TRUE, call |-> call, found |-> {}]
<1>1. visit \in Visits /\ visit.call = call /\ visit.found = {} /\ visit.alone
  BY DEF Visits
<1>2. Fresh(visit)
  BY <1>1 DEF Fresh
<1>3. visits' = [visits EXCEPT ![k] = {visit}] /\ UNCHANGED <<addresses, saved, unsettled>>
  BY DEF Visit
<1> HIDE DEF visit
<1>4. {visit} \in SUBSET Visits
  BY <1>1
<1>5. \A v \in {visit} : {visit} = {v} /\ (v.alone => Fresh(v))
  BY <1>2
<1>6. \A v \in {visit} : v.call.op = "create" =>
          k \in Creating \/ Cardinality(addresses) < MaxAddresses
  BY <1>1
<1> QED
  BY <1>3, <1>4, <1>5, <1>6, VisitStep

LEMMA FindStep ==
    ASSUME AddressInv, NEW k \in Devices, Find(k)
    PROVE  AddressInv'
<1>1. PICK v \in visits[k] :
          /\ Chooses(v.call) /\ v.found = {}
          /\ visits' = [visits EXCEPT ![k] = {[v EXCEPT !.found = {{a.id : a \in Defaults}}]}]
  BY DEF Find
<1> DEFINE f == {a.id : a \in Defaults}
           w == [v EXCEPT !.found = {f}]
<1>2. v \in Visits /\ visits[k] = {v} /\ (v.alone => Fresh(v))
  BY RowsTyped
<1>3. f \in SUBSET Nat
  BY RowsTyped DEF Defaults, AddressRows
<1> HIDE DEF f
<1>4. w \in Visits /\ w.call = v.call /\ w.alone = v.alone /\ w.found = {f}
  <2> HIDE DEF Calls, Chooses
  <2> QED
    BY <1>1, <1>2, <1>3 DEF Visits
<1>5. w.alone => Fresh(w)
  BY <1>2, <1>4 DEF Fresh, f
<1>6. visits' = [visits EXCEPT ![k] = {w}] /\ UNCHANGED <<addresses, saved, unsettled>>
  BY <1>1 DEF Find, f
<1>7. w.call.op = "create" => k \in Creating
  BY <1>4 DEF Creating
<1> HIDE DEF w
<1>8. {w} \in SUBSET Visits
  BY <1>4
<1> QED
  BY <1>5, <1>6, <1>7, <1>8, VisitStep

LEMMA UpdateStep ==
    ASSUME AddressInv, NEW k \in Devices, UpdateAddress(k)
    PROVE  AddressInv'
<1>1. PICK visit \in Due(k) :
          /\ visit.call.op = "update"
          /\ IF visit.call.id \notin Ids THEN Fails(k)
             ELSE /\ CASE visit.call.wanted = "yes" ->
                                Commits(k, Chosen(visit.call.id, visit.found)) /\ Settles(visit)
                       [] visit.call.wanted = "no" ->
                                Commits(k, Unchosen(visit.call.id)) /\ unsettled' = TRUE
                       [] OTHER -> Commits(k, addresses) /\ Disturbs(visit)
                  /\ UNCHANGED saved
  BY DEF UpdateAddress
<1>2. CASE visit.call.id \notin Ids
  BY <1>1, <1>2, FailStep
<1>3. CASE visit.call.id \in Ids /\ visit.call.wanted = "yes"
  BY <1>1, <1>3, ChosenStep DEF Chooses
<1>4. CASE visit.call.id \in Ids /\ visit.call.wanted = "no"
  BY <1>1, <1>4, UnchosenStep
<1>5. CASE visit.call.id \in Ids /\ visit.call.wanted \notin {"yes", "no"}
  <2>1. Commits(k, addresses) /\ Disturbs(visit) /\ UNCHANGED saved
    BY <1>1, <1>5
  <2>2. visit \in visits[k] /\ visit.alone \in BOOLEAN
    BY RowsTyped DEF Due, Visits
  <2>3. unsettled' \in BOOLEAN /\ (unsettled' \/ addresses = {} \/ OneOf(addresses))
    BY <2>1, <2>2 DEF Disturbs, AddressInv
  <2>4. /\ \A a \in addresses : a.id <= saved'
        /\ \A a, c \in addresses : a.id = c.id => a = c
    BY <2>1 DEF AddressInv
  <2>5. Cardinality(addresses) <= Cardinality(addresses)
    BY RowsTyped
  <2> QED
    BY <2>1, <2>2, <2>3, <2>4, <2>5, RowsTyped, CommitStep
<1> QED
  BY <1>2, <1>3, <1>4, <1>5

LEMMA AddressStep ==
    ASSUME AddressInv, AddressNext
    PROVE  AddressInv'
<1>1. PICK k \in Devices :
        \/ \E wanted \in BOOLEAN : AskCreate(k, wanted)
        \/ \E a \in addresses : \/ \E wanted \in {"yes", "no", "as is"} : AskUpdate(k, a, wanted)
                                \/ AskSetDefault(k, a) \/ AskRemove(k, a)
        \/ Find(k) \/ CreateAddress(k) \/ UpdateAddress(k) \/ SetDefault(k) \/ RemoveAddress(k)
        \/ GiveUp(k)
  BY DEF AddressNext
<1>2. \A a \in addresses : a.id \in Nat /\ a.default \in BOOLEAN
  BY DEF AddressInv, AddressRows
<1>3. ASSUME NEW wanted \in BOOLEAN, AskCreate(k, wanted) PROVE AddressInv'
  <2> DEFINE call == [op |-> "create", default |-> wanted \/ addresses = {}]
  <2>1. Visit(k, call) /\ Cardinality(addresses) < MaxAddresses
    BY <1>3 DEF AskCreate
  <2>2. call \in Calls /\ call.op = "create" /\ (~call.default => addresses # {})
    BY DEF Calls
  <2> HIDE DEF call
  <2> QED
    BY <2>1, <2>2, AskStep
<1>4. ASSUME NEW a \in addresses, NEW wanted \in {"yes", "no", "as is"}, AskUpdate(k, a, wanted)
      PROVE  AddressInv'
  <2> DEFINE call == [op |-> "update", id |-> a.id, wanted |-> wanted]
  <2>1. Visit(k, call)
    BY <1>4 DEF AskUpdate
  <2>2. call \in Calls /\ call.op = "update"
    BY <1>2 DEF Calls
  <2> HIDE DEF call
  <2> QED
    BY <2>1, <2>2, AskStep
<1>5. ASSUME NEW a \in addresses, AskSetDefault(k, a) PROVE AddressInv'
  <2> DEFINE call == [op |-> "choose", id |-> a.id]
  <2>1. Visit(k, call)
    BY <1>5 DEF AskSetDefault
  <2>2. call \in Calls /\ call.op = "choose"
    BY <1>2 DEF Calls
  <2> HIDE DEF call
  <2> QED
    BY <2>1, <2>2, AskStep
<1>6. ASSUME NEW a \in addresses, AskRemove(k, a) PROVE AddressInv'
  <2> DEFINE call == [op |-> "remove", id |-> a.id, default |-> a.default]
  <2>1. Visit(k, call)
    BY <1>6 DEF AskRemove
  <2>2. call \in Calls /\ call.op = "remove" /\ call.id = a.id /\ call.default = a.default
    BY <1>2 DEF Calls
  <2> HIDE DEF call
  <2> QED
    BY <2>1, <2>2, AskStep
<1>7. CASE SetDefault(k)
  <2>1. PICK visit \in Due(k) :
            /\ visit.call.op = "choose"
            /\ IF visit.call.id \notin Ids THEN Fails(k)
               ELSE Commits(k, Chosen(visit.call.id, visit.found)) /\ Settles(visit) /\ UNCHANGED saved
    BY <1>7 DEF SetDefault
  <2>2. CASE visit.call.id \notin Ids
    BY <2>1, <2>2, FailStep
  <2>3. CASE visit.call.id \in Ids
    BY <2>1, <2>3, ChosenStep DEF Chooses
  <2> QED
    BY <2>2, <2>3
<1>8. CASE RemoveAddress(k)
  <2> DEFINE rest(call) == {a \in addresses : a.id # call.id}
             rows(call) == IF call.default THEN Promoted(rest(call)) ELSE rest(call)
  <2>1. PICK visit \in Due(k) :
            /\ visit.call.op = "remove"
            /\ IF visit.call.id \notin Ids THEN Fails(k)
               ELSE Commits(k, rows(visit.call)) /\ Disturbs(visit) /\ UNCHANGED saved
    BY <1>8 DEF RemoveAddress
  <2>2. CASE visit.call.id \notin Ids
    BY <2>1, <2>2, FailStep
  <2>3. CASE visit.call.id \in Ids
    BY <2>1, <2>3, RemoveStep
  <2> QED
    BY <2>2, <2>3
<1>9. CASE GiveUp(k)
  BY <1>9, FailStep DEF GiveUp
<1> QED
  BY <1>1, <1>3, <1>4, <1>5, <1>6, <1>7, <1>8, <1>9, FindStep, CreateStep, UpdateStep

(* A customer's addresses are not over the limit by more than the requests *)
(* at a time, and while requests have not crossed nor the default been     *)
(* unset, one of them is the default, whatever the limit and however many  *)
(* devices.                                                                *)
THEOREM DefaultStaysOne ==
    AddressInit /\ [][AddressNext]_addressVars => []OneDefault
<1>1. AddressInit => AddressInv
  <2>1. ASSUME AddressInit PROVE AddressInv
    <3>1. /\ addresses = {} /\ saved = 0 /\ visits = [k \in Devices |-> {}] /\ unsettled = FALSE
      BY <2>1 DEF AddressInit
    <3>2. Creating = {}
      BY <3>1 DEF Creating
    <3>3. Cardinality(Devices) \in Nat /\ MaxAddresses \in Nat \ {0}
      BY AddressAssumption, FS_CardinalityType
    <3>4. IsFiniteSet(addresses) /\ Cardinality(addresses) = 0 /\ Cardinality(Creating) = 0
      BY <3>1, <3>2, FS_EmptySet
    <3>5. Cardinality(addresses) + Cardinality(Creating) < MaxAddresses + Cardinality(Devices)
      BY <3>3, <3>4
    <3> QED
      BY <3>1, <3>4, <3>5 DEF AddressInv
  <2> QED
    BY <2>1
<1>2. AddressInv /\ [AddressNext]_addressVars => AddressInv'
  <2>1. ASSUME AddressInv, UNCHANGED addressVars PROVE AddressInv'
    BY <2>1 DEF addressVars, AddressInv, OneOf, Creating, Fresh, Defaults
  <2> QED
    BY <2>1, AddressStep
<1>3. AddressInv => OneDefault
  <2>1. ASSUME AddressInv PROVE OneDefault
    <3>1. /\ Cardinality(addresses) \in Nat /\ Cardinality(Devices) \in Nat
          /\ MaxAddresses \in Nat
      BY <2>1, AddressAssumption, RowsTyped, FS_CardinalityType
    <3>2. Creating \in SUBSET Devices
      BY DEF Creating
    <3>3. Cardinality(Creating) \in Nat
      BY <3>2, FewCreate
    <3>4. Cardinality(addresses) + Cardinality(Creating) < MaxAddresses + Cardinality(Devices)
      BY <2>1 DEF AddressInv
    <3>5. Cardinality(addresses) < MaxAddresses + Cardinality(Devices)
      BY <3>1, <3>3, <3>4
    <3>6. ASSUME OneOf(addresses) PROVE Cardinality(Defaults) = 1
      <4>1. PICK d \in addresses : d.default /\ \A a \in addresses : a.default => a = d
        BY <3>6 DEF OneOf
      <4>2. Defaults = {d}
        BY <4>1 DEF Defaults
      <4> QED
        BY <4>2, FS_Singleton
    <3> QED
      BY <2>1, <3>5, <3>6 DEF OneDefault, AddressInv
  <2> QED
    BY <2>1
<1> QED
  BY <1>1, <1>2, <1>3, PTL
=============================================================================
