------------------------------ MODULE MCSignIn ------------------------------
(***************************************************************************)
(* SignIn on two users who share a display name: any two requests beside   *)
(* each other, and three where the third can tell.                         *)
(***************************************************************************)
EXTENDS SignIn

CONSTANTS r1, r2, r3, u1, u2, t1, t2, a1, mail1, mail2, mail3, nick, p1, p2, before, none

MCReq == {r1, r2, r3}
MCOldUsers == {u1, u2}
MCOldTokens == {t1, t2}
MCOldAttempts == {a1}
MCIdents == {mail1, mail2, mail3, nick}
MCPasswords == {p1, p2}

U(email, active) == [email |-> email, name |-> nick, password |-> p1, active |-> active]
T(t) == [user |-> u1, revoked |-> FALSE, age |-> "fresh", from |-> t]

\* u1 has two sessions, a pending code and a failure in the window; u2 is deactivated.
MCDatabases ==
  {[users |-> [u \in UserIds |->
      CASE u = u1 -> U(mail1, TRUE) [] u = u2 -> U(mail2, FALSE) [] OTHER -> none],
    tokens |-> [t \in TokenIds |-> IF t \in MCOldTokens THEN T(t) ELSE none],
    attempts |-> [a \in MCOldAttempts \cup MCReq |->
      IF a = a1 THEN [who |-> mail1, action |-> action, success |-> FALSE, recent |-> TRUE, code |-> none]
      ELSE none],
    codes |-> [u \in UserIds |-> IF u = u1 THEN PendingCode(before) ELSE none]] :
     action \in {"login", "change_password"}}

MCAsks ==
  {[kind |-> "login", ident |-> i, password |-> p] : i \in {mail1, nick}, p \in MCPasswords}
  \cup {[kind |-> "login", ident |-> mail3, password |-> p1]}
  \cup {[kind |-> "verify", user |-> u1, code |-> c] : c \in {before, r1, none}}
  \cup {[kind |-> k, token |-> t] : k \in {"refresh", "logout"}, t \in {t1, r1, r2, none}}
  \cup {[kind |-> "change", user |-> u1, password |-> p, new |-> p2] : p \in MCPasswords}
  \cup {[kind |-> "update", user |-> u1, field |-> "active", value |-> FALSE],
        [kind |-> "update", user |-> u2, field |-> "active", value |-> TRUE],
        [kind |-> "update", user |-> u2, field |-> "name", value |-> mail1]}
  \cup {[kind |-> "deactivate", user |-> u] : u \in {u1, u2}}
  \cup {[kind |-> "create", email |-> e, name |-> nick, password |-> p1] : e \in {mail1, mail3}}

Arrive(a, b, c) == [r \in MCReq |-> IF r = r1 THEN a ELSE IF r = r2 THEN b ELSE c]
Order == <<"login", "verify", "refresh", "logout", "change", "deactivate", "update", "create">>

MCLoads ==
  {Arrive(Order[p[1]], Order[p[2]], "none") : p \in {q \in (1 .. 8) \X (1 .. 8) : q[1] <= q[2]}}
  \cup {Arrive("verify", "verify", "verify"),
        Arrive("login", "verify", "refresh"), Arrive("verify", "refresh", "change"),
        Arrive("login", "verify", "deactivate"), Arrive("refresh", "logout", "change")}
=============================================================================
