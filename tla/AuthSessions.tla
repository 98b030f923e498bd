---------------------------- MODULE AuthSessions ----------------------------
(* The auth service: accounts and refresh tokens in Postgres, the cookie in *)
(* each browser, and the requests in flight, which interleave at every     *)
(* await.  Each request has a database session of its own; a statement and *)
(* the commit that follows it are one step.                                *)
(*                                                                         *)
(* A refresh token is a JWT of the user and an expiry in whole seconds,    *)
(* without an id: the same user gets the same token from two calls in one  *)
(* second.  It is modelled as that pair.                                   *)
EXTENDS Naturals, FiniteSets

CONSTANTS
  Names, Emails,  \* what an account is registered under
  Browsers,
  Slots,          \* bound: the requests that may be in flight
  Nothing,        \* no cookie, no account, no token
  Life,           \* seconds a refresh token lives
  MaxTime,        \* bound: seconds
  MaxLogins       \* bound: sessions opened

ASSUME AuthAssumption ==
  /\ Life \in Nat \ {0} /\ MaxTime \in Nat /\ MaxLogins \in Nat
  /\ Nothing \notin Names \cup Emails
  /\ Nothing \notin [token  : [user : Emails, at : 0 .. MaxTime],
                     session : 1 .. MaxLogins]

VARIABLES
  users,     \* the rows of users
  tokens,    \* the rows of refresh_tokens, with the session each belongs to
  clock,     \* seconds
  cookie,    \* browser -> the refresh token it holds
  request,   \* slot -> the request it is serving
  logins,    \* sessions opened: history
  ended,     \* sessions a logout has answered for: history
  tangled    \* sessions with overlapping or failed requests: history

vars == <<users, tokens, clock, cookie, request, logins, ended, tangled>>
history == <<logins, ended, tangled>>

Accounts == [name : Names, email : Emails]
Tokens   == [user : Emails, at : 0 .. MaxTime]
Sessions == 1 .. MaxLogins
\* A token, and the login it descends from.
Grants   == [token : Tokens, session : Sessions]

Free == [kind |-> "none", pc |-> "done", browser |-> Nothing,
         name |-> Nothing, email |-> Nothing, cookie |-> Nothing,
         grant |-> Nothing, answer |-> 0]

Usable(t) == clock < t.at + Life
Stored(t) == \E g \in tokens : g.token = t

\* Mutant: the issue time is filled with the expiry.
MintedExpiry(user) == [user |-> user, at |-> clock + Life]

\* create_refresh_token.
Minted(user) == [user |-> user, at |-> clock]

-----------------------------------------------------------------------------
(* What a browser sends.                                                   *)

Send(r, kind, b, name, email) ==
  /\ request[r] = Free
  /\ request' = [request EXCEPT ![r] =
                   [Free EXCEPT !.kind = kind, !.pc = "check", !.browser = b,
                                !.name = name, !.email = email,
                                !.cookie = IF kind \in {"refresh", "logout"}
                                           THEN cookie[b] ELSE Nothing]]

\* Requests of one session that overlap tangle it.
Overlapped(b) ==
  {s \in Sessions : /\ cookie[b] # Nothing /\ cookie[b].session = s
                    /\ \E q \in Slots : /\ request[q].cookie # Nothing
                                        /\ request[q].cookie.session = s}

\* Its answer changes nothing in the browser.
SendRegister(r, name, email) ==
  /\ Send(r, "register", Nothing, name, email)
  /\ UNCHANGED <<users, tokens, clock, cookie, history>>

SendLogin(r, b, email) ==
  /\ Send(r, "login", b, Nothing, email)
  /\ UNCHANGED <<users, tokens, clock, cookie, history>>

SendWithCookie(r, b, kind) ==
  /\ Send(r, kind, b, Nothing, Nothing)
  /\ tangled' = tangled \cup Overlapped(b)
  /\ UNCHANGED <<users, tokens, clock, cookie, logins, ended>>

-----------------------------------------------------------------------------
(* Handlers.                                                               *)

At(r, kind, pc) == request[r].kind = kind /\ request[r].pc = pc

Goto(r, pc) == request' = [request EXCEPT ![r].pc = pc]

Answer(r, code) ==
  request' = [request EXCEPT ![r].pc = "reply", ![r].answer = code]

\* register_user: two selects, then the insert.
RegisterEmail(r) ==
  /\ At(r, "register", "check")
  /\ IF \E u \in users : u.email = request[r].email
     THEN Answer(r, 409) ELSE Goto(r, "name")
  /\ UNCHANGED <<users, tokens, clock, cookie, history>>

RegisterName(r) ==
  /\ At(r, "register", "name")
  /\ IF \E u \in users : u.name = request[r].name
     THEN Answer(r, 409) ELSE Goto(r, "insert")
  /\ UNCHANGED <<users, tokens, clock, cookie, history>>

\* Mutant: the table has no unique constraint on the e-mail.
TakenName(name, email) == \E u \in users : u.name = name

\* The unique constraints of the table users.
Taken(name, email) == \E u \in users : u.email = email \/ u.name = name

RegisterInsert(r) ==
  /\ At(r, "register", "insert")
  /\ LET name == request[r].name  email == request[r].email
     IN  IF Taken(name, email)
         THEN Answer(r, 500) /\ UNCHANGED users
         ELSE /\ Answer(r, 201)
              /\ users' = users \cup {[name |-> name, email |-> email]}
  /\ UNCHANGED <<tokens, clock, cookie, history>>

\* login_user: 401 for an unknown e-mail or a wrong password.
LoginRefused(r) ==
  /\ At(r, "login", "check")
  /\ Answer(r, 401)
  /\ UNCHANGED <<users, tokens, clock, cookie, history>>

LoginMint(r) ==
  /\ At(r, "login", "check")
  /\ \E u \in users : u.email = request[r].email
  /\ logins < MaxLogins
  /\ logins' = logins + 1
  /\ request' = [request EXCEPT
       ![r].pc = "save",
       ![r].grant = [token |-> Minted(request[r].email), session |-> logins + 1]]
  /\ UNCHANGED <<users, tokens, clock, cookie, ended, tangled>>

\* The tokens browsers hold, have sent, or are about to be sent.
Held ==
  ({cookie[b] : b \in Browsers} \cup {request[q].cookie : q \in Slots}
    \cup {request[q].grant : q \in {p \in Slots : request[p].pc = "reply"}})
  \ {Nothing}

\* Two sessions that come to share one token are tangled.
Sharing(g) ==
  LET others == {h \in Held : h.token = g.token /\ h.session # g.session}
  IN  IF others = {} THEN {} ELSE {h.session : h \in others \cup {g}}

\* Mutant: the reply is sent though the row was never committed.
SaveForgotten(r) ==
  /\ request[r].pc = "save"
  /\ Answer(r, 200)
  /\ UNCHANGED <<users, tokens, clock, cookie, history>>

\* save_refresh_token.  The cap of two tokens is never kept: db.delete is a
\* coroutine that nothing awaits.
Save(r) ==
  LET g == request[r].grant
  IN  /\ request[r].pc = "save"
      /\ ~Stored(g.token)
      /\ tokens' = tokens \cup {g}
      /\ tangled' = tangled \cup Sharing(g)
      /\ Answer(r, 200)
      /\ UNCHANGED <<users, clock, cookie, logins, ended>>

\* The database raises, as it does when the token is stored already.  A
\* refresh has deleted the old token by then.
SaveFails(r) ==
  /\ request[r].pc = "save"
  /\ request' = [request EXCEPT ![r].pc = "reply", ![r].answer = 500,
                                ![r].grant = Nothing]
  /\ tangled' = tangled \cup {request[r].grant.session}
  /\ UNCHANGED <<users, tokens, clock, cookie, logins, ended>>

\* verify_refresh_token: the cookie is there, has not expired and is stored.
Acceptable(c) == c # Nothing /\ Usable(c.token) /\ Stored(c.token)

RefreshRefused(r) ==
  /\ At(r, "refresh", "check")
  /\ ~Acceptable(request[r].cookie)
  /\ Answer(r, 401)
  /\ UNCHANGED <<users, tokens, clock, cookie, history>>

RefreshVerify(r) ==
  /\ At(r, "refresh", "check")
  /\ Acceptable(request[r].cookie)
  /\ Goto(r, "delete")
  /\ UNCHANGED <<users, tokens, clock, cookie, history>>

\* The token has expired since it was verified.
RefreshTooLate(r) ==
  /\ At(r, "refresh", "delete")
  /\ ~Usable(request[r].cookie.token)
  /\ Answer(r, 401)
  /\ UNCHANGED <<users, tokens, clock, cookie, history>>

\* delete_refresh_token: nothing is deleted for a token that no longer decodes.
Without(t) == IF Usable(t) THEN {g \in tokens : g.token # t} ELSE tokens

\* Mutant: the old token stays.
RefreshKeeps(r) ==
  /\ At(r, "refresh", "delete")
  /\ Goto(r, "mint")
  /\ UNCHANGED <<users, tokens, clock, cookie, history>>

RefreshDelete(r) ==
  /\ At(r, "refresh", "delete")
  /\ tokens' = Without(request[r].cookie.token)
  /\ Goto(r, "mint")
  /\ UNCHANGED <<users, clock, cookie, history>>

RefreshMint(r) ==
  LET c == request[r].cookie
  IN  /\ At(r, "refresh", "mint")
      /\ request' = [request EXCEPT
           ![r].pc = "save",
           ![r].grant = [token |-> Minted(c.token.user), session |-> c.session]]
      /\ UNCHANGED <<users, tokens, clock, cookie, history>>

\* logout: get_current_user refuses a bad or expired access token.
LogoutRefused(r) ==
  /\ At(r, "logout", "check")
  /\ Answer(r, 401)
  /\ UNCHANGED <<users, tokens, clock, cookie, history>>

\* Mutant: the cookie is cleared and the token is left in the table.
LogoutKeeps(r) ==
  /\ At(r, "logout", "check")
  /\ ended' = IF request[r].cookie = Nothing THEN ended
              ELSE ended \cup {request[r].cookie.session}
  /\ Answer(r, 200)
  /\ UNCHANGED <<users, tokens, clock, cookie, logins, tangled>>

LogoutDelete(r) ==
  LET c == request[r].cookie
  IN  /\ At(r, "logout", "check")
      /\ tokens' = IF c = Nothing THEN tokens ELSE Without(c.token)
      /\ ended' = IF c = Nothing THEN ended ELSE ended \cup {c.session}
      /\ Answer(r, 200)
      /\ UNCHANGED <<users, clock, cookie, logins, tangled>>

-----------------------------------------------------------------------------
(* The answer reaches the browser, or it does not.                         *)

Deliver(r) ==
  LET q == request[r]
  IN  /\ q.pc = "reply"
      /\ cookie' = IF q.answer # 200 THEN cookie
                   ELSE [cookie EXCEPT ![q.browser] =
                           IF q.kind = "logout" THEN Nothing ELSE q.grant]
      /\ request' = [request EXCEPT ![r] = Free]
      /\ UNCHANGED <<users, tokens, clock, history>>

\* A lost answer tangles the sessions whose token it changed.
LoseAnswer(r) ==
  LET q == request[r]
  IN  /\ q.pc = "reply"
      /\ tangled' = tangled \cup
           (IF q.answer # 200 THEN {}
            ELSE {g.session : g \in {q.cookie, q.grant} \ {Nothing}})
      /\ request' = [request EXCEPT ![r] = Free]
      /\ UNCHANGED <<users, tokens, clock, cookie, logins, ended>>

Tick ==
  /\ clock < MaxTime
  /\ clock' = clock + 1
  /\ UNCHANGED <<users, tokens, cookie, request, history>>

-----------------------------------------------------------------------------

Init ==
  /\ users = {} /\ tokens = {} /\ clock = 0
  /\ cookie = [b \in Browsers |-> Nothing]
  /\ request = [r \in Slots |-> Free]
  /\ logins = 0 /\ ended = {} /\ tangled = {}

Arrive(r) ==
  \/ \E name \in Names, email \in Emails : SendRegister(r, name, email)
  \/ \E b \in Browsers :
    \/ \E email \in Emails : SendLogin(r, b, email)
    \/ \E kind \in {"refresh", "logout"} : SendWithCookie(r, b, kind)

Register(r) == RegisterEmail(r) \/ RegisterName(r) \/ RegisterInsert(r)
Login(r)    == LoginRefused(r) \/ LoginMint(r)
Refresh(r)  == \/ RefreshRefused(r) \/ RefreshVerify(r) \/ RefreshTooLate(r)
               \/ RefreshDelete(r) \/ RefreshMint(r)
Logout(r)   == LogoutRefused(r) \/ LogoutDelete(r)

Serve(r) ==
  \/ Register(r) \/ Login(r) \/ Refresh(r) \/ Logout(r)
  \/ Save(r) \/ SaveFails(r) \/ Deliver(r) \/ LoseAnswer(r)

Next == Tick \/ \E r \in Slots : Arrive(r) \/ Serve(r)

Spec == Init /\ [][Next]_vars

-----------------------------------------------------------------------------
(* Properties.                                                             *)

RequestTypes ==
  [kind    : {"none", "register", "login", "refresh", "logout"},
   pc      : {"done", "check", "name", "insert", "delete", "mint", "save",
              "reply"},
   browser : Browsers \cup {Nothing},
   name    : Names \cup {Nothing},
   email   : Emails \cup {Nothing},
   cookie  : Grants \cup {Nothing},
   grant   : Grants \cup {Nothing},
   answer  : {0, 200, 201, 401, 409, 500}]

\* Every variable has its type.
TypeOK ==
  /\ users \subseteq Accounts
  /\ tokens \subseteq Grants
  /\ clock \in 0 .. MaxTime
  /\ cookie \in [Browsers -> Grants \cup {Nothing}]
  /\ request \in [Slots -> RequestTypes]
  /\ logins \in 0 .. MaxLogins
  /\ ended \subseteq Sessions
  /\ tangled \subseteq Sessions

\* However registrations overlap between their selects and their insert, no
\* two accounts share a name or an e-mail.
OneAccountEach ==
  \A u, v \in users : u.name = v.name \/ u.email = v.email => u = v

\* Rotation keeps one token per session: at most one stored token of it can
\* still be used.  Sessions are excepted once they are tangled: two of their
\* requests overlapped, a save of theirs failed, an answer to them was lost, or
\* another session was given the same token.
OneTokenPerSession ==
  \A g, h \in {k \in tokens : Usable(k.token)} :
    g.session = h.session /\ g.session \notin tangled => g = h

\* After a logout that overlapped no other request of its session, no refresh
\* token of the session can be used, whatever other sessions of the same user
\* do meanwhile.  Tangled sessions are excepted: a refresh that was verified
\* before the logout saves a new token after it, and the session lives on.
LogoutEndsSession ==
  \A g \in tokens : Usable(g.token) => g.session \notin ended \ tangled

\* The cookie of a browser with nothing in flight can be refreshed as long as
\* it has not expired: the logins, refreshes and logouts of other sessions take
\* no token of this one.  Tangled sessions are excepted: a refresh whose save
\* fails or that overlaps another leaves the browser with a dead cookie.
CookieBacked ==
  \A b \in Browsers :
    LET c == cookie[b]
    IN  \/ c = Nothing
        \/ c.session \in tangled
        \/ ~Usable(c.token)
        \/ \E r \in Slots : /\ request[r].cookie # Nothing
                            /\ request[r].cookie.session = c.session
        \/ c \in tokens
=============================================================================
