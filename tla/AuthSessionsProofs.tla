------------------------- MODULE AuthSessionsProofs -------------------------
(***************************************************************************)
(* Accounts and sessions for any number of browsers, requests, names and   *)
(* logins, and any clock.                                                  *)
(***************************************************************************)
EXTENDS AuthSessions, TLAPS

\* What a request carries at each point.
Proper(q) ==
  /\ q.cookie # Nothing => q.kind \in {"refresh", "logout"}
  /\ q.grant # Nothing =>
       /\ q.kind \in {"login", "refresh"}
       /\ q.pc = "save" \/ (q.pc = "reply" /\ q.answer = 200)
       /\ q.kind = "refresh" =>
            q.cookie # Nothing /\ q.grant.session = q.cookie.session
  /\ q.kind = "register" => q.name \in Names /\ q.email \in Emails
  /\ q.kind = "login" => q.email \in Emails
  /\ q.kind \in {"login", "refresh", "logout"} => q.browser \in Browsers
  /\ q.pc \in {"delete", "mint"} => q.kind = "refresh" /\ q.cookie # Nothing
  /\ q.pc = "save" => q.grant # Nothing
  /\ q.pc = "reply" /\ q.answer = 200 => q.grant # Nothing \/ q.kind = "logout"
Carries == \A r \in Slots : Proper(request[r])

Typed == TypeOK /\ Carries

\* The tokens of a session that can be used.
Live(s)        == {g \in tokens : g.session = s /\ Usable(g.token)}
Holds(b, s)    == cookie[b] # Nothing /\ cookie[b].session = s
Carrying(r, s) == request[r].cookie # Nothing /\ request[r].cookie.session = s
Granted(r, s)  == request[r].grant # Nothing /\ request[r].grant.session = s
Works(r, s)    == Carrying(r, s) \/ Granted(r, s)

\* Sessions that are yet to come.
Unseen(s) ==
  /\ s \notin ended /\ s \notin tangled
  /\ \A g \in tokens : g.session # s
  /\ \A b \in Browsers : ~Holds(b, s)
  /\ \A r \in Slots : ~Works(r, s)
Fresh == \A s \in Sessions : s > logins => Unseen(s)

\* A session is in one browser and one request at a time.
Alone(s) ==
  /\ \A r, q \in Slots : Works(r, s) /\ Works(q, s) => r = q
  /\ \A a, b \in Browsers : Holds(a, s) /\ Holds(b, s) => a = b
  /\ \A r \in Slots, b \in Browsers : Works(r, s) /\ Holds(b, s) =>
       /\ Carrying(r, s)
       /\ b = request[r].browser /\ cookie[b] = request[r].cookie

\* What the browser will hold if the answer is delivered as things are.
Expected(r) ==
  LET q == request[r]
  IN  IF q.pc \in {"check", "delete"} \/ (q.pc = "reply" /\ q.answer # 200)
      THEN {q.cookie}
      ELSE IF q.pc = "reply" /\ q.kind \in {"login", "refresh"} THEN {q.grant}
      ELSE {}

Safe(c) == Usable(c.token) => c \in tokens

\* The token of the session is the one its browser holds or will be given.
Rotated(s) ==
  /\ \A g, h \in Live(s) : g = h
  /\ \A b \in Browsers : Holds(b, s) /\ (\A r \in Slots : ~Works(r, s)) =>
       Live(s) \subseteq {cookie[b]} /\ Safe(cookie[b])
  /\ \A r \in Slots : Works(r, s) =>
       Live(s) \subseteq Expected(r) /\ \A c \in Expected(r) : Safe(c)

\* A session that was logged out is waiting for its answer at most.
Closing(r, s) ==
  /\ Carrying(r, s)
  /\ request[r].kind = "logout" /\ request[r].pc = "reply" /\ request[r].answer = 200
Over(s) ==
  s \in ended =>
    /\ Live(s) = {}
    /\ \A r \in Slots : Works(r, s) => Closing(r, s)
    /\ \A b \in Browsers : Holds(b, s) => \E r \in Slots : Works(r, s)

\* No other session has a token like one of this session.
Apart(s) == \A g, h \in Held : g.token = h.token /\ g.session = s => h.session = s

Ordered(s) == Alone(s) /\ Rotated(s) /\ Over(s)
Untangled  == Sessions \ tangled
IInv == /\ Typed /\ Fresh
        /\ \A s \in Untangled : Ordered(s) /\ Apart(s)

-----------------------------------------------------------------------------
(* Types.                                                                  *)

\* The grants that are made are well formed, and none is Nothing.
LEMMA GrantFacts ==
  ASSUME Typed
  PROVE  /\ Nothing \notin Grants
         /\ \A g \in Grants : g.token \in Tokens /\ g.session \in Sessions
         /\ \A t \in Tokens : t.user \in Emails /\ t.at \in Nat
         /\ \A u \in Emails : Minted(u) \in Tokens
         /\ \A t \in Tokens, s \in Sessions :
              /\ [token |-> t, session |-> s] \in Grants
              /\ [token |-> t, session |-> s] # Nothing
BY AuthAssumption DEF Grants, Tokens, Sessions, Minted, Typed, TypeOK

\* A step that leaves one request proper keeps the types of all.
LEMMA RequestTyped ==
  ASSUME Typed, NEW r \in Slots, NEW q \in RequestTypes, Proper(q),
         request' = [request EXCEPT ![r] = q]
  PROVE  request' \in [Slots -> RequestTypes] /\ Carries'
BY DEF Typed, TypeOK, Carries, Proper

\* What a browser sends is well formed.
LEMMA ArriveTyped ==
  ASSUME Typed, NEW r \in Slots, Arrive(r)
  PROVE  Typed'
<1> USE AuthAssumption DEF history
<1>1. ASSUME NEW name \in Names, NEW email \in Emails, SendRegister(r, name, email)
      PROVE  Typed'
  <2> DEFINE q == [Free EXCEPT !.kind = "register", !.pc = "check", !.browser = Nothing,
                               !.name = name, !.email = email, !.cookie = Nothing]
  <2>1. q \in RequestTypes /\ Proper(q)
    BY DEF Free, RequestTypes, Proper
  <2>2. request' = [request EXCEPT ![r] = q]
    BY <1>1 DEF SendRegister, Send
  <2> HIDE DEF q
  <2> QED
    BY <1>1, <2>1, <2>2, RequestTyped DEF SendRegister, Typed, TypeOK
<1>2. ASSUME NEW b \in Browsers, NEW email \in Emails, SendLogin(r, b, email)
      PROVE  Typed'
  <2> DEFINE q == [Free EXCEPT !.kind = "login", !.pc = "check", !.browser = b,
                               !.name = Nothing, !.email = email, !.cookie = Nothing]
  <2>1. q \in RequestTypes /\ Proper(q)
    BY DEF Free, RequestTypes, Proper
  <2>2. request' = [request EXCEPT ![r] = q]
    BY <1>2 DEF SendLogin, Send
  <2> HIDE DEF q
  <2> QED
    BY <1>2, <2>1, <2>2, RequestTyped DEF SendLogin, Typed, TypeOK
<1>3. ASSUME NEW b \in Browsers, NEW kind \in {"refresh", "logout"},
             SendWithCookie(r, b, kind)
      PROVE  Typed'
  <2> DEFINE q == [Free EXCEPT !.kind = kind, !.pc = "check", !.browser = b,
                               !.name = Nothing, !.email = Nothing, !.cookie = cookie[b]]
  <2>0. cookie[b] \in Grants \cup {Nothing}
    BY DEF Typed, TypeOK
  <2>1. q \in RequestTypes /\ Proper(q)
    BY <2>0 DEF Free, RequestTypes, Proper
  <2>2. request' = [request EXCEPT ![r] = q]
    BY <1>3 DEF SendWithCookie, Send
  <2> HIDE DEF q
  <2>3. tangled' \subseteq Sessions
    BY <1>3 DEF SendWithCookie, Overlapped, Typed, TypeOK
  <2> QED
    BY <1>3, <2>1, <2>2, <2>3, RequestTyped DEF SendWithCookie, Typed, TypeOK
<1> QED
  BY <1>1, <1>2, <1>3 DEF Arrive

\* What a step of a handler writes into a request.
SetPc(x, pc) == [x EXCEPT !.pc = pc]
SetAnswer(x, answer) == [x EXCEPT !.pc = "reply", !.answer = answer]
SetGrant(x, grant) == [x EXCEPT !.pc = "save", !.grant = grant]
SetFailed(x) == [x EXCEPT !.pc = "reply", !.answer = 500, !.grant = Nothing]
Changed(x, pc, answer, grant) ==
  [kind |-> x.kind, pc |-> pc, browser |-> x.browser, name |-> x.name,
   email |-> x.email, cookie |-> x.cookie, grant |-> grant, answer |-> answer]

\* A step writes these fields, and leaves the others.
LEMMA Changes ==
  ASSUME NEW x \in RequestTypes, NEW pc, NEW answer, NEW grant
  PROVE  /\ SetPc(x, pc) = Changed(x, pc, x.answer, x.grant)
         /\ SetAnswer(x, answer) = Changed(x, "reply", answer, x.grant)
         /\ SetGrant(x, grant) = Changed(x, "save", x.answer, grant)
         /\ SetFailed(x) = Changed(x, "reply", 500, Nothing)
<1>1. \A p : [x EXCEPT !.pc = p] = Changed(x, p, x.answer, x.grant)
  BY DEF Changed, RequestTypes
<1>2. \A p, a : [Changed(x, p, x.answer, x.grant) EXCEPT !.answer = a]
                  = Changed(x, p, a, x.grant)
  BY DEF Changed
<1>4. SetPc(x, pc) = Changed(x, pc, x.answer, x.grant)
  BY <1>1 DEF SetPc
<1>5. SetAnswer(x, answer) = Changed(x, "reply", answer, x.grant)
  <2>1. SetAnswer(x, answer) = [[x EXCEPT !.pc = "reply"] EXCEPT !.answer = answer]
    BY DEF SetAnswer
  <2> QED
    BY <1>1, <1>2, <2>1
<1>6. SetGrant(x, grant) = Changed(x, "save", x.answer, grant)
  <2>1. SetGrant(x, grant) = [[x EXCEPT !.pc = "save"] EXCEPT !.grant = grant]
    BY DEF SetGrant
  <2>2. [Changed(x, "save", x.answer, x.grant) EXCEPT !.grant = grant]
          = Changed(x, "save", x.answer, grant)
    BY DEF Changed
  <2> QED
    BY <1>1, <2>1, <2>2
<1>7. SetFailed(x) = Changed(x, "reply", 500, Nothing)
  <2>1. SetFailed(x)
          = [[[x EXCEPT !.pc = "reply"] EXCEPT !.answer = 500] EXCEPT !.grant = Nothing]
    BY DEF SetFailed
  <2>2. [Changed(x, "reply", x.answer, x.grant) EXCEPT !.answer = 500]
          = Changed(x, "reply", 500, x.grant)
    BY DEF Changed
  <2>3. [Changed(x, "reply", 500, x.grant) EXCEPT !.grant = Nothing]
          = Changed(x, "reply", 500, Nothing)
    BY DEF Changed
  <2>4. SetFailed(x)
          = [[Changed(x, "reply", x.answer, x.grant) EXCEPT !.answer = 500]
               EXCEPT !.grant = Nothing]
    BY <1>1, <2>1, Zenon
  <2> QED
    BY <2>2, <2>3, <2>4, Zenon
<1> QED
  BY <1>4, <1>5, <1>6, <1>7

\* What a request is after a step.
Becomes(x, y, pc, answer, grant) ==
  /\ y.kind = x.kind /\ y.browser = x.browser
  /\ y.name = x.name /\ y.email = x.email /\ y.cookie = x.cookie
  /\ y.pc = pc /\ y.answer = answer /\ y.grant = grant

\* What a step writes is a request again.
LEMMA Fields ==
  ASSUME NEW x \in RequestTypes
  PROVE  /\ \A pc \in {"name", "insert", "delete", "mint"} :
              /\ SetPc(x, pc) \in RequestTypes
              /\ Becomes(x, SetPc(x, pc), pc, x.answer, x.grant)
         /\ \A code \in {0, 200, 201, 401, 409, 500} :
              /\ SetAnswer(x, code) \in RequestTypes
              /\ Becomes(x, SetAnswer(x, code), "reply", code, x.grant)
         /\ \A g \in Grants :
              /\ SetGrant(x, g) \in RequestTypes
              /\ Becomes(x, SetGrant(x, g), "save", x.answer, g)
         /\ SetFailed(x) \in RequestTypes
         /\ Becomes(x, SetFailed(x), "reply", 500, Nothing)
<1>1. ASSUME NEW pc \in {"name", "insert", "delete", "mint", "save", "reply"},
             NEW answer \in {0, 200, 201, 401, 409, 500},
             NEW grant \in Grants \cup {Nothing},
             NEW y, y = Changed(x, pc, answer, grant)
      PROVE  y \in RequestTypes /\ Becomes(x, y, pc, answer, grant)
  BY <1>1 DEF Changed, RequestTypes, Becomes
<1>2. x.answer \in {0, 200, 201, 401, 409, 500} /\ x.grant \in Grants \cup {Nothing}
  BY DEF RequestTypes
<1>3. /\ \A pc : SetPc(x, pc) = Changed(x, pc, x.answer, x.grant)
      /\ \A answer : SetAnswer(x, answer) = Changed(x, "reply", answer, x.grant)
      /\ \A grant : SetGrant(x, grant) = Changed(x, "save", x.answer, grant)
      /\ SetFailed(x) = Changed(x, "reply", 500, Nothing)
  BY Changes
<1> QED
  BY <1>1, <1>2, <1>3

\* A step of a handler changes its own request only.
LEMMA Writes ==
  ASSUME Typed, NEW r \in Slots
  PROVE  /\ \A pc : Goto(r, pc) => request'[r] = SetPc(request[r], pc)
         /\ LoginMint(r) => request'[r] = SetGrant(request[r],
              [token |-> Minted(request[r].email), session |-> logins + 1])
         /\ RefreshMint(r) => request'[r] = SetGrant(request[r],
              [token   |-> Minted(request[r].cookie.token.user),
               session |-> request[r].cookie.session])
         /\ SaveFails(r) => request'[r] = SetFailed(request[r])
         /\ Deliver(r) \/ LoseAnswer(r) => request'[r] = Free
<1> USE DEF Typed, TypeOK
<1>2. \A pc : Goto(r, pc) => request'[r] = SetPc(request[r], pc)
  BY DEF Goto, SetPc
<1>3. LoginMint(r) => request'[r] = SetGrant(request[r],
        [token |-> Minted(request[r].email), session |-> logins + 1])
  BY DEF LoginMint, SetGrant
<1>4. RefreshMint(r) => request'[r] = SetGrant(request[r],
        [token   |-> Minted(request[r].cookie.token.user),
         session |-> request[r].cookie.session])
  BY DEF RefreshMint, SetGrant
<1>5. ASSUME SaveFails(r) PROVE request'[r] = SetFailed(request[r])
  <2> DEFINE f == [request EXCEPT ![r].pc = "reply", ![r].answer = 500]
  <2>1. /\ f = [q \in Slots |-> f[q]]
        /\ f[r] = [request[r] EXCEPT !.pc = "reply", !.answer = 500]
    OBVIOUS
  <2>2. request' = [f EXCEPT ![r].grant = Nothing]
    BY <1>5 DEF SaveFails
  <2> HIDE DEF f
  <2>3. SetFailed(request[r])
          = [[request[r] EXCEPT !.pc = "reply", !.answer = 500] EXCEPT !.grant = Nothing]
    BY DEF SetFailed
  <2>4. request'[r] = [f[r] EXCEPT !.grant = Nothing]
    BY <2>1, <2>2
  <2> QED
    BY <2>1, <2>3, <2>4
<1>6. Deliver(r) \/ LoseAnswer(r) => request'[r] = Free
  BY DEF Deliver, LoseAnswer
<1> QED
  BY <1>2, <1>3, <1>4, <1>5, <1>6

\* A step of a handler leaves the other requests alone.
LEMMA OthersStay ==
  ASSUME Typed, NEW r \in Slots, Serve(r)
  PROVE  /\ request' = [q \in Slots |-> request'[q]]
         /\ \A q \in Slots : q # r => request'[q] = request[q]
<1> USE DEF Typed, TypeOK
<1>1. ASSUME NEW code, Answer(r, code)
      PROVE  /\ request' = [q \in Slots |-> request'[q]]
             /\ \A q \in Slots : q # r => request'[q] = request[q]
  BY <1>1 DEF Answer
<1>2. ASSUME NEW pc, Goto(r, pc)
      PROVE  /\ request' = [q \in Slots |-> request'[q]]
             /\ \A q \in Slots : q # r => request'[q] = request[q]
  BY <1>2 DEF Goto
<1>3. ASSUME LoginMint(r) \/ RefreshMint(r)
      PROVE  /\ request' = [q \in Slots |-> request'[q]]
             /\ \A q \in Slots : q # r => request'[q] = request[q]
  BY <1>3 DEF LoginMint, RefreshMint
<1>4. ASSUME Deliver(r) \/ LoseAnswer(r)
      PROVE  /\ request' = [q \in Slots |-> request'[q]]
             /\ \A q \in Slots : q # r => request'[q] = request[q]
  BY <1>4 DEF Deliver, LoseAnswer
<1>5. ASSUME SaveFails(r)
      PROVE  /\ request' = [q \in Slots |-> request'[q]]
             /\ \A q \in Slots : q # r => request'[q] = request[q]
  <2> DEFINE f == [request EXCEPT ![r].pc = "reply", ![r].answer = 500]
  <2>1. /\ f = [q \in Slots |-> f[q]]
        /\ \A q \in Slots : q # r => f[q] = request[q]
    OBVIOUS
  <2>2. request' = [f EXCEPT ![r].grant = Nothing]
    BY <1>5 DEF SaveFails
  <2> HIDE DEF f
  <2> QED
    BY <2>1, <2>2
<1> QED
  BY <1>1, <1>2, <1>3, <1>4, <1>5
     DEF Serve, Register, Login, Refresh, Logout, RegisterEmail, RegisterName,
         RegisterInsert, LoginRefused, RefreshRefused, RefreshVerify, RefreshTooLate,
         RefreshDelete, LogoutRefused, LogoutDelete, Save

\* The two facts together, for each kind of step.
LEMMA Steps ==
  ASSUME Typed, NEW r \in Slots
  PROVE  /\ \A code \in {0, 200, 201, 401, 409, 500} : Answer(r, code) =>
              /\ request'[r] \in RequestTypes
              /\ Becomes(request[r], request'[r], "reply", code, request[r].grant)
         /\ \A pc \in {"name", "insert", "delete", "mint"} : Goto(r, pc) =>
              /\ request'[r] \in RequestTypes
              /\ Becomes(request[r], request'[r], pc, request[r].answer, request[r].grant)
         /\ LoginMint(r) =>
              \E g \in Grants :
                /\ g.session = logins + 1
                /\ request'[r] \in RequestTypes
                /\ Becomes(request[r], request'[r], "save", request[r].answer, g)
         /\ RefreshMint(r) =>
              \E g \in Grants :
                /\ g.session = request[r].cookie.session
                /\ request'[r] \in RequestTypes
                /\ Becomes(request[r], request'[r], "save", request[r].answer, g)
         /\ SaveFails(r) =>
              /\ request'[r] \in RequestTypes
              /\ Becomes(request[r], request'[r], "reply", 500, Nothing)
<1>0. request[r] \in RequestTypes /\ Proper(request[r])
  BY DEF Typed, TypeOK, Carries
<1>1. ASSUME NEW code \in {0, 200, 201, 401, 409, 500}, Answer(r, code)
      PROVE  /\ request'[r] \in RequestTypes
             /\ Becomes(request[r], request'[r], "reply", code, request[r].grant)
  <2>1. request'[r] = SetAnswer(request[r], code)
    BY <1>1 DEF Answer, SetAnswer, Typed, TypeOK
  <2>2. /\ SetAnswer(request[r], code) \in RequestTypes
        /\ Becomes(request[r], SetAnswer(request[r], code), "reply", code, request[r].grant)
    BY <1>0, Fields
  <2> QED
    BY <2>1, <2>2
<1>2. ASSUME NEW pc \in {"name", "insert", "delete", "mint"}, Goto(r, pc)
      PROVE  /\ request'[r] \in RequestTypes
             /\ Becomes(request[r], request'[r], pc, request[r].answer, request[r].grant)
  <2>1. request'[r] = SetPc(request[r], pc)
    BY <1>2, Writes
  <2>2. /\ SetPc(request[r], pc) \in RequestTypes
        /\ Becomes(request[r], SetPc(request[r], pc), pc, request[r].answer, request[r].grant)
    BY <1>0, Fields
  <2> QED
    BY <2>1, <2>2
<1>3. ASSUME LoginMint(r)
      PROVE  \E g \in Grants :
               /\ g.session = logins + 1
               /\ request'[r] \in RequestTypes
               /\ Becomes(request[r], request'[r], "save", request[r].answer, g)
  <2> DEFINE g == [token |-> Minted(request[r].email), session |-> logins + 1]
  <2>1. g \in Grants /\ g.session = logins + 1
    BY <1>0, <1>3, AuthAssumption, GrantFacts
       DEF LoginMint, At, Proper, Typed, TypeOK, Sessions
  <2>2. request'[r] = SetGrant(request[r], g)
    BY <1>3, Writes
  <2> HIDE DEF g
  <2>3. /\ SetGrant(request[r], g) \in RequestTypes
        /\ Becomes(request[r], SetGrant(request[r], g), "save", request[r].answer, g)
    BY <1>0, <2>1, Fields
  <2> QED
    BY <2>1, <2>2, <2>3
<1>4. ASSUME RefreshMint(r)
      PROVE  \E g \in Grants :
               /\ g.session = request[r].cookie.session
               /\ request'[r] \in RequestTypes
               /\ Becomes(request[r], request'[r], "save", request[r].answer, g)
  <2> DEFINE c == request[r].cookie
             g == [token |-> Minted(c.token.user), session |-> c.session]
  <2>1. c \in Grants
    BY <1>0, <1>4 DEF RefreshMint, At, Proper, RequestTypes
  <2>2. g \in Grants /\ g.session = request[r].cookie.session
    BY <2>1, GrantFacts
  <2>3. request'[r] = SetGrant(request[r], g)
    BY <1>4, Writes
  <2> HIDE DEF g
  <2> QED
    BY <1>0, <2>2, <2>3, Fields
<1>5. ASSUME SaveFails(r)
      PROVE  /\ request'[r] \in RequestTypes
             /\ Becomes(request[r], request'[r], "reply", 500, Nothing)
  <2>1. request'[r] = SetFailed(request[r])
    BY <1>5, Writes
  <2>2. /\ SetFailed(request[r]) \in RequestTypes
        /\ Becomes(request[r], SetFailed(request[r]), "reply", 500, Nothing)
    BY <1>0, Fields
  <2> QED
    BY <2>1, <2>2
<1> QED
  BY <1>1, <1>2, <1>3, <1>4, <1>5

\* A step that leaves its request proper keeps the types of all requests.
LEMMA MoveTyped ==
  ASSUME Typed, NEW r \in Slots, Serve(r), request'[r] \in RequestTypes,
         Proper(request'[r])
  PROVE  request' \in [Slots -> RequestTypes] /\ Carries'
BY OthersStay DEF Typed, TypeOK, Carries

\* Every step of a handler, and the delivery of its answer, keeps the types.
LEMMA ServeTyped ==
  ASSUME Typed, NEW r \in Slots, Serve(r)
  PROVE  Typed'
<1> USE DEF history, At
<1>0. request[r] \in RequestTypes /\ Proper(request[r])
  BY DEF Typed, TypeOK, Carries
<1>f. Free \in RequestTypes /\ Proper(Free)
  BY DEF Free, RequestTypes, Proper
<1>t. /\ request[r].grant \in Grants \cup {Nothing}
      /\ request[r].cookie \in Grants \cup {Nothing}
      /\ request[r].answer \in {0, 200, 201, 401, 409, 500}
  BY <1>0 DEF RequestTypes
\* A request moves on, or is answered, without a grant.
<1>a. ASSUME NEW code \in {0, 200, 201, 401, 409, 500}, Answer(r, code),
             request[r].grant = Nothing, code = 200 => request[r].kind = "logout"
      PROVE  request' \in [Slots -> RequestTypes] /\ Carries'
  <2>1. /\ request'[r] \in RequestTypes
        /\ Becomes(request[r], request'[r], "reply", code, Nothing)
    BY <1>a, Steps
  <2> QED
    BY <1>0, <1>a, <2>1, MoveTyped DEF Becomes, Proper
<1>g. ASSUME NEW pc \in {"name", "insert", "delete", "mint"}, Goto(r, pc),
             request[r].grant = Nothing,
             pc \in {"delete", "mint"} =>
               request[r].kind = "refresh" /\ request[r].cookie # Nothing
      PROVE  request' \in [Slots -> RequestTypes] /\ Carries'
  <2>1. /\ request'[r] \in RequestTypes
        /\ Becomes(request[r], request'[r], pc, request[r].answer, Nothing)
    BY <1>g, Steps
  <2> QED
    BY <1>0, <1>g, <2>1, MoveTyped DEF Becomes, Proper
<1>1. CASE Register(r)
  <2>1. CASE RegisterEmail(r)
    BY <1>0, <2>1, <1>a, <1>g DEF RegisterEmail, Typed, TypeOK, Proper
  <2>2. CASE RegisterName(r)
    BY <1>0, <2>2, <1>a, <1>g DEF RegisterName, Typed, TypeOK, Proper
  <2>3. CASE RegisterInsert(r)
    <3>1. request' \in [Slots -> RequestTypes] /\ Carries'
      BY <1>0, <2>3, <1>a DEF RegisterInsert, Proper
    <3>2. users' \subseteq Accounts
      BY <1>0, <2>3 DEF RegisterInsert, Proper, Typed, TypeOK, Accounts
    <3> QED
      BY <2>3, <3>1, <3>2 DEF RegisterInsert, Typed, TypeOK
  <2> QED
    BY <1>1, <2>1, <2>2, <2>3 DEF Register
<1>2. CASE LoginRefused(r) \/ LogoutRefused(r)
  BY <1>0, <1>2, <1>a DEF LoginRefused, LogoutRefused, Typed, TypeOK, Proper
<1>3. CASE LoginMint(r)
  <2>1. PICK g \in Grants : /\ request'[r] \in RequestTypes
                            /\ Becomes(request[r], request'[r], "save", request[r].answer, g)
    BY <1>3, Steps
  <2>2. g # Nothing
    BY GrantFacts
  <2>3. request' \in [Slots -> RequestTypes] /\ Carries'
    BY <1>0, <1>3, <2>1, <2>2, MoveTyped DEF LoginMint, Becomes, Proper
  <2>4. logins' \in 0 .. MaxLogins
    BY <1>3, AuthAssumption DEF LoginMint, Typed, TypeOK
  <2> QED
    BY <1>3, <2>3, <2>4 DEF LoginMint, Typed, TypeOK
<1>4. CASE RefreshRefused(r) \/ RefreshVerify(r) \/ RefreshTooLate(r)
  BY <1>0, <1>4, <1>a, <1>g
     DEF RefreshRefused, RefreshVerify, RefreshTooLate, Acceptable, Typed, TypeOK, Proper
<1>5. CASE RefreshDelete(r)
  BY <1>0, <1>5, <1>g DEF RefreshDelete, Without, Typed, TypeOK, Proper
<1>6. CASE RefreshMint(r)
  <2>1. PICK g \in Grants : /\ g.session = request[r].cookie.session
                            /\ request'[r] \in RequestTypes
                            /\ Becomes(request[r], request'[r], "save", request[r].answer, g)
    BY <1>6, Steps
  <2>2. g # Nothing
    BY GrantFacts
  <2>3. request' \in [Slots -> RequestTypes] /\ Carries'
    BY <1>0, <1>6, <2>1, <2>2, MoveTyped DEF RefreshMint, Becomes, Proper
  <2> QED
    BY <1>6, <2>3 DEF RefreshMint, Typed, TypeOK
<1>8. CASE LogoutDelete(r)
  <2>1. request' \in [Slots -> RequestTypes] /\ Carries'
    BY <1>0, <1>8, <1>a DEF LogoutDelete, Proper
  <2>2. tokens' \subseteq Grants /\ ended' \subseteq Sessions
    BY <1>t, <1>8, GrantFacts DEF LogoutDelete, Without, Typed, TypeOK
  <2> QED
    BY <1>8, <2>1, <2>2 DEF LogoutDelete, Typed, TypeOK
<1>9. CASE Save(r)
  <2>1. request[r].grant \in Grants /\ request[r].grant # Nothing
    BY <1>0, <1>t, <1>9 DEF Save, Proper
  <2>2. /\ request'[r] \in RequestTypes
        /\ Becomes(request[r], request'[r], "reply", 200, request[r].grant)
    BY <1>9, Steps DEF Save
  <2>3. request' \in [Slots -> RequestTypes] /\ Carries'
    BY <1>0, <1>9, <2>1, <2>2, MoveTyped DEF Becomes, Proper
  <2>4. \A h \in Held : h \in Grants
    BY DEF Held, Typed, TypeOK, RequestTypes
  <2>5. tangled' \subseteq Sessions
    BY <1>9, <2>1, <2>4, GrantFacts DEF Save, Sharing, Typed, TypeOK
  <2> QED
    BY <1>9, <2>1, <2>3, <2>5 DEF Save, Typed, TypeOK
<1>10. CASE SaveFails(r)
  <2>1. request[r].grant.session \in Sessions
    BY <1>0, <1>t, <1>10, GrantFacts DEF SaveFails, Proper
  <2>2. request' \in [Slots -> RequestTypes] /\ Carries'
    BY <1>0, <1>10, Steps, MoveTyped DEF Becomes, Proper
  <2> QED
    BY <1>10, <2>1, <2>2 DEF SaveFails, Typed, TypeOK
<1>11. CASE Deliver(r)
  <2>1. cookie' \in [Browsers -> Grants \cup {Nothing}]
    BY <1>t, <1>11 DEF Deliver, Typed, TypeOK
  <2> QED
    BY <1>11, <1>f, <2>1, Writes, MoveTyped DEF Deliver, Typed, TypeOK
<1>12. CASE LoseAnswer(r)
  <2>1. tangled' \subseteq Sessions
    BY <1>t, <1>12, GrantFacts DEF LoseAnswer, Typed, TypeOK
  <2> QED
    BY <1>12, <1>f, <2>1, Writes, MoveTyped DEF LoseAnswer, Typed, TypeOK
<1> QED
  BY <1>1, <1>2, <1>3, <1>4, <1>5, <1>6, <1>8, <1>9, <1>10, <1>11, <1>12
     DEF Serve, Login, Refresh, Logout

\* Time passes within its bound.
LEMMA TickTyped ==
  ASSUME Typed, Tick
  PROVE  Typed'
BY AuthAssumption DEF Tick, Typed, TypeOK, Carries, Proper, history

-----------------------------------------------------------------------------
(* One session.                                                            *)

\* The tokens in the hands of browsers and requests.
LEMMA HeldIs ==
  ASSUME NEW c
  PROVE  c \in Held <=>
           /\ c # Nothing
           /\ \/ \E b \in Browsers : c = cookie[b]
              \/ \E q \in Slots : c = request[q].cookie
              \/ \E q \in Slots : request[q].pc = "reply" /\ c = request[q].grant
BY DEF Held

\* They are well formed.
LEMMA HeldTyped ==
  ASSUME Typed, NEW c \in Held
  PROVE  c \in Grants
BY HeldIs DEF Typed, TypeOK, RequestTypes

\* What a session's request is about to hand over belongs to the session.
LEMMA Whose ==
  ASSUME Typed, NEW r \in Slots, NEW s, Works(r, s), NEW c \in Expected(r)
  PROVE  c \in Held /\ c.session = s
<1>1. Proper(request[r])
  BY DEF Typed, Carries
<1> QED
  BY <1>1, HeldIs DEF Works, Carrying, Granted, Expected, Proper

\* A step that has nothing to do with a session.
LEMMA Elsewhere ==
  ASSUME Typed, NEW s, Ordered(s),
         \A q \in Slots : Works(q, s) \/ Works(q, s)' => request'[q] = request[q],
         \A b \in Browsers : cookie'[b] = cookie[b] \/ ~Holds(b, s)',
         Live(s)' \subseteq Live(s),
         \A c \in Held : c.session = s /\ Safe(c) => Safe(c)',
         s \in ended' => s \in ended
  PROVE  Ordered(s)'
<1>1. /\ \A q \in Slots : Works(q, s)' <=> Works(q, s)
      /\ \A q \in Slots : Carrying(q, s)' /\ Works(q, s) <=> Carrying(q, s)
      /\ \A b \in Browsers : Holds(b, s)' => Holds(b, s) /\ cookie'[b] = cookie[b]
      /\ \A q \in Slots : Works(q, s) => request'[q] = request[q]
  BY DEF Works, Carrying, Granted, Holds
<1>2. Alone(s)'
  BY <1>1 DEF Ordered, Alone, Works, Carrying, Granted
<1>3. Rotated(s)'
  <2>1. \A g, h \in Live(s)' : g = h
    BY DEF Ordered, Rotated
  <2>2. ASSUME NEW b \in Browsers, Holds(b, s)', \A q \in Slots : ~Works(q, s)'
        PROVE  Live(s)' \subseteq {cookie'[b]} /\ Safe(cookie[b])'
    <3>1. Live(s) \subseteq {cookie[b]} /\ Safe(cookie[b])
      BY <1>1, <2>2 DEF Ordered, Rotated
    <3>2. cookie[b] \in Held /\ cookie[b].session = s
      BY <1>1, <2>2, HeldIs DEF Holds
    <3>3. ASSUME NEW c, c = cookie[b] PROVE Safe(c)'
      BY <3>1, <3>2, <3>3
    <3> QED
      BY <1>1, <2>2, <3>1, <3>3 DEF Safe
  <2>3. ASSUME NEW q \in Slots, Works(q, s)'
        PROVE  Live(s)' \subseteq Expected(q)' /\ \A c \in Expected(q)' : Safe(c)'
    <3>1. Live(s) \subseteq Expected(q) /\ \A c \in Expected(q) : Safe(c)
      BY <1>1, <2>3 DEF Ordered, Rotated
    <3>2. Expected(q)' = Expected(q)
      BY <1>1, <2>3 DEF Expected
    <3> QED
      BY <1>1, <2>3, <3>1, <3>2, Whose
  <2> QED
    BY <2>1, <2>2, <2>3 DEF Rotated
<1>4. Over(s)'
  BY <1>1 DEF Ordered, Over, Closing, Carrying, Works
<1> QED
  BY <1>2, <1>3, <1>4 DEF Ordered

\* A step of the request that works on a session, before its answer.
LEMMA Own ==
  ASSUME Typed, NEW r \in Slots, NEW s, Ordered(s), Works(r, s),
         request[r].pc # "reply", cookie' = cookie,
         \A q \in Slots : q # r => request'[q] = request[q],
         Works(r, s)', request'[r].cookie = request[r].cookie,
         request'[r].browser = request[r].browser,
         Live(s)' \subseteq Expected(r)', \A c \in Expected(r)' : Safe(c)',
         s \in ended' /\ s \notin ended => Live(s)' = {} /\ Closing(r, s)'
  PROVE  Ordered(s)'
<1>1. /\ \A q \in Slots : Works(q, s) => q = r
      /\ \A q \in Slots : Works(q, s)' => q = r
      /\ \A b \in Browsers : Holds(b, s)' <=> Holds(b, s)
      /\ Carrying(r, s)' <=> Carrying(r, s)
      /\ s \notin ended
  BY DEF Ordered, Alone, Over, Closing, Works, Carrying, Granted, Holds
<1>2. Alone(s)'
  BY <1>1 DEF Ordered, Alone
<1>3. Rotated(s)'
  BY <1>1 DEF Ordered, Rotated, Expected
<1>4. Over(s)'
  BY <1>1 DEF Over
<1> QED
  BY <1>2, <1>3, <1>4 DEF Ordered

\* The request of a session is over, and the browser holds what was expected.
LEMMA Handed ==
  ASSUME Typed, NEW r \in Slots, NEW s, Ordered(s), Works(r, s),
         \A q \in Slots : q # r => request'[q] = request[q],
         request'[r] = Free, UNCHANGED <<tokens, clock, ended>>,
         \A b \in Browsers : Holds(b, s)' =>
           b = request[r].browser /\ cookie'[b] \in Expected(r),
         Closing(r, s) => \A b \in Browsers : ~Holds(b, s)'
  PROVE  Ordered(s)'
<1>1. /\ \A q \in Slots : Works(q, s) => q = r
      /\ \A q \in Slots : ~Works(q, s)'
      /\ Live(s)' = Live(s) /\ \A c : Safe(c)' = Safe(c)
  BY DEF Ordered, Alone, Works, Carrying, Granted, Free, Live, Safe, Usable
<1>2. Alone(s)'
  BY <1>1 DEF Alone
<1>3. Rotated(s)'
  <2>1. \A g, h \in Live(s)' : g = h
    BY <1>1 DEF Ordered, Rotated
  <2>2. ASSUME NEW b \in Browsers, Holds(b, s)'
        PROVE  Live(s)' \subseteq {cookie'[b]} /\ Safe(cookie[b])'
    <3>1. Live(s) \subseteq Expected(r) /\ \A c \in Expected(r) : Safe(c)
      BY DEF Ordered, Rotated
    <3>2. cookie'[b] \in Expected(r) /\ Expected(r) = {cookie'[b]}
      BY <2>2 DEF Expected
    <3>3. ASSUME NEW c, c = cookie'[b] PROVE Safe(c)'
      BY <1>1, <3>1, <3>2, <3>3
    <3> QED
      BY <1>1, <3>1, <3>2, <3>3 DEF Safe
  <2> QED
    BY <1>1, <2>1, <2>2 DEF Rotated
<1>4. Over(s)'
  BY <1>1 DEF Ordered, Over
<1> QED
  BY <1>2, <1>3, <1>4 DEF Ordered

\* What a deletion does to a session: it takes the token of the request that
\* deletes, and no token of a session that this request does not work on.
LEMMA Withdrawn ==
  ASSUME Typed, NEW r \in Slots, NEW s, Apart(s), request[r].cookie # Nothing,
         tokens' = Without(request[r].cookie.token), clock' = clock
  PROVE  /\ Live(s)' \subseteq Live(s)
         /\ ~Carrying(r, s) => \A d \in Held : d.session = s /\ Safe(d) => Safe(d)'
         /\ Live(s) \subseteq {request[r].cookie} => Live(s)' = {}
<1>1. request[r].cookie \in Held
  BY HeldIs
<1>2. ASSUME ~Carrying(r, s), NEW d \in Held, d.session = s, Safe(d) PROVE Safe(d)'
  BY <1>1, <1>2 DEF Apart, Carrying, Safe, Without, Usable
<1>3. Live(s)' \subseteq Live(s)
  BY DEF Live, Without, Usable
<1>4. Live(s) \subseteq {request[r].cookie} => Live(s)' = {}
  BY DEF Live, Without, Usable
<1> QED
  BY <1>2, <1>3, <1>4

\* Nothing is stored or withdrawn.
LEMMA TokensStay ==
  ASSUME UNCHANGED <<tokens, clock>>, NEW s
  PROVE  Live(s)' = Live(s) /\ \A c : Safe(c)' = Safe(c)
BY DEF Live, Safe, Usable

\* The request before it has a grant.
LEMMA HandlerOrdered ==
  ASSUME IInv, NEW r \in Slots, NEW s \in Untangled,
         Register(r) \/ LoginRefused(r) \/ Refresh(r) \/ Logout(r)
  PROVE  Ordered(s)'
<1> USE DEF At, history
<1>0. /\ Proper(request[r]) /\ Ordered(s) /\ Apart(s) /\ Typed
      /\ \A q \in Slots : q # r => request'[q] = request[q]
  <2>1. Serve(r)
    BY DEF Serve, Login
  <2> QED
    BY <2>1, OthersStay DEF IInv, Typed, Carries
<1>1. /\ cookie' = cookie /\ clock' = clock
      /\ request[r].pc \in {"check", "name", "insert", "delete", "mint"}
      /\ request[r].grant = Nothing
  BY <1>0 DEF Register, Refresh, Logout, RegisterEmail, RegisterName, RegisterInsert,
     LoginRefused, RefreshRefused, RefreshVerify, RefreshTooLate, RefreshDelete,
     RefreshMint, LogoutRefused, LogoutDelete, Proper
<1>e. ASSUME ~Carrying(r, s), ~Works(r, s)', Live(s)' \subseteq Live(s),
             \A c \in Held : c.session = s /\ Safe(c) => Safe(c)',
             s \in ended' => s \in ended
      PROVE  Ordered(s)'
  <2>1. ~Works(r, s)
    BY <1>1, <1>e DEF Works, Granted
  <2> QED
    BY <1>0, <1>1, <1>e, <2>1, Elsewhere
<1>m. ASSUME NEW pc, NEW code, NEW g, Becomes(request[r], request'[r], pc, code, g)
      PROVE  /\ request'[r].cookie = request[r].cookie /\ request'[r].grant = g
             /\ request'[r].browser = request[r].browser /\ request'[r].kind = request[r].kind
             /\ request'[r].pc = pc /\ request'[r].answer = code
             /\ Carrying(r, s)' <=> Carrying(r, s)
             /\ g = Nothing => (Works(r, s)' <=> Carrying(r, s))
  BY <1>m DEF Becomes, Works, Carrying, Granted
\* A step without a grant.
<1>s. ASSUME NEW pc \in {"name", "insert", "delete", "mint", "reply"},
             NEW code, Becomes(request[r], request'[r], pc, code, Nothing)
      PROVE  /\ request'[r].cookie = request[r].cookie
             /\ request'[r].browser = request[r].browser /\ request'[r].kind = request[r].kind
             /\ request'[r].pc = pc /\ request'[r].answer = code
             /\ Works(r, s)' <=> Carrying(r, s)
             /\ Carrying(r, s)' <=> Carrying(r, s)
  BY <1>s, <1>m
<1>a. ASSUME NEW code \in {0, 200, 201, 401, 409, 500}, Answer(r, code)
      PROVE  Becomes(request[r], request'[r], "reply", code, Nothing)
  BY <1>0, <1>1, <1>a, Steps
<1>g. ASSUME NEW pc \in {"name", "insert", "delete", "mint"}, Goto(r, pc)
      PROVE  Becomes(request[r], request'[r], pc, request[r].answer, Nothing)
  BY <1>0, <1>1, <1>g, Steps
<1>2. CASE Register(r) \/ LoginRefused(r)
  <2>1. ~Carrying(r, s) /\ UNCHANGED <<tokens, ended>>
    BY <1>0, <1>2 DEF Register, RegisterEmail, RegisterName, RegisterInsert, LoginRefused,
       Proper, Carrying
  <2>2. \E pc \in {"name", "insert", "reply"} : \E code :
          Becomes(request[r], request'[r], pc, code, Nothing)
    BY <1>2, <1>a, <1>g
       DEF Register, RegisterEmail, RegisterName, RegisterInsert, LoginRefused
  <2>3. ~Works(r, s)'
    BY <1>s, <2>1, <2>2
  <2> QED
    BY <1>1, <1>e, <2>1, <2>3, TokensStay
<1>3. CASE RefreshRefused(r) \/ RefreshVerify(r) \/ RefreshTooLate(r) \/ LogoutRefused(r)
  <2>1. UNCHANGED <<tokens, ended>>
    BY <1>3 DEF RefreshRefused, RefreshVerify, RefreshTooLate, LogoutRefused
  <2>2. \/ Becomes(request[r], request'[r], "reply", 401, Nothing)
        \/ Becomes(request[r], request'[r], "delete", request[r].answer, Nothing)
    BY <1>3, <1>a, <1>g DEF RefreshRefused, RefreshVerify, RefreshTooLate, LogoutRefused
  <2>3. CASE Carrying(r, s)
    <3>1. Expected(r) = {request[r].cookie} /\ Expected(r)' = {request[r].cookie}
      BY <1>3, <1>s, <2>2
         DEF Expected, RefreshRefused, RefreshVerify, RefreshTooLate, LogoutRefused
    <3>2. Live(s) \subseteq Expected(r) /\ \A c \in Expected(r) : Safe(c)
      BY <1>0, <2>3 DEF Ordered, Rotated, Works
    <3> QED
      BY <1>0, <1>1, <1>s, <2>1, <2>2, <2>3, <3>1, <3>2, Own, TokensStay DEF Works
  <2>4. CASE ~Carrying(r, s)
    BY <1>1, <1>e, <1>s, <2>1, <2>2, <2>4, TokensStay
  <2> QED
    BY <2>3, <2>4
<1>4. CASE RefreshDelete(r)
  <2>1. /\ ended' = ended /\ request[r].cookie # Nothing
        /\ tokens' = Without(request[r].cookie.token)
        /\ Becomes(request[r], request'[r], "mint", request[r].answer, Nothing)
    BY <1>0, <1>4, <1>g DEF RefreshDelete, Proper
  <2>2. CASE Carrying(r, s)
    <3>1. Expected(r) = {request[r].cookie} /\ Expected(r)' = {}
      BY <1>4, <1>s, <2>1 DEF Expected, RefreshDelete
    <3>2. Live(s) \subseteq {request[r].cookie}
      BY <1>0, <2>2, <3>1 DEF Ordered, Rotated, Works
    <3>3. Live(s)' = {}
      BY <1>0, <1>1, <2>1, <3>2, Withdrawn
    <3> QED
      BY <1>0, <1>1, <1>s, <2>1, <2>2, <3>1, <3>3, Own DEF Works
  <2>3. CASE ~Carrying(r, s)
    BY <1>0, <1>1, <1>e, <1>s, <2>1, <2>3, Withdrawn
  <2> QED
    BY <2>2, <2>3
<1>5. CASE RefreshMint(r)
  <2>1. UNCHANGED <<tokens, ended>>
    BY <1>5 DEF RefreshMint
  <2>2. PICK g \in Grants : /\ g.session = request[r].cookie.session
                            /\ Becomes(request[r], request'[r], "save", request[r].answer, g)
    BY <1>0, <1>5, Steps
  <2>3. request[r].pc = "mint" /\ request[r].cookie # Nothing
    BY <1>0, <1>5 DEF RefreshMint, Proper
  <2>4. CASE Carrying(r, s)
    <3>1. Expected(r) = {} /\ Expected(r)' = {}
      BY <1>m, <2>2, <2>3 DEF Expected
    <3>2. Live(s) = {}
      BY <1>0, <2>4, <3>1 DEF Ordered, Rotated, Works
    <3> QED
      BY <1>0, <1>1, <1>m, <2>1, <2>2, <2>4, <3>1, <3>2, Own, TokensStay DEF Works
  <2>5. CASE ~Carrying(r, s)
    <3>1. ~Works(r, s)'
      BY <2>2, <2>3, <2>5 DEF Becomes, Works, Carrying, Granted
    <3> QED
      BY <1>1, <1>e, <2>1, <2>5, <3>1, TokensStay
  <2> QED
    BY <2>4, <2>5
<1>6. CASE LogoutDelete(r)
  <2>1. Becomes(request[r], request'[r], "reply", 200, Nothing)
    BY <1>6, <1>a DEF LogoutDelete
  <2>2. CASE request[r].cookie = Nothing
    <3>1. UNCHANGED <<tokens, ended>> /\ ~Carrying(r, s)
      BY <1>6, <2>2 DEF LogoutDelete, Carrying
    <3> QED
      BY <1>1, <1>e, <1>s, <2>1, <3>1, TokensStay
  <2>3. CASE request[r].cookie # Nothing /\ Carrying(r, s)
    <3>1. Expected(r) = {request[r].cookie} /\ Expected(r)' = {}
      BY <1>6, <1>s, <2>1 DEF Expected, LogoutDelete
    <3>2. Live(s) \subseteq {request[r].cookie}
      BY <1>0, <2>3, <3>1 DEF Ordered, Rotated, Works
    <3>3. Live(s)' = {}
      BY <1>0, <1>1, <1>6, <2>3, <3>2, Withdrawn DEF LogoutDelete
    <3>4. Closing(r, s)'
      BY <1>6, <1>s, <2>1, <2>3 DEF LogoutDelete, Closing
    <3> QED
      BY <1>0, <1>1, <1>s, <2>1, <2>3, <3>1, <3>3, <3>4, Own DEF Works
  <2>4. CASE request[r].cookie # Nothing /\ ~Carrying(r, s)
    <3>1. s \in ended' => s \in ended
      BY <1>6, <2>4 DEF LogoutDelete, Carrying
    <3>2. tokens' = Without(request[r].cookie.token)
      BY <1>6, <2>4 DEF LogoutDelete
    <3> QED
      BY <1>0, <1>1, <1>e, <1>s, <2>1, <2>4, <3>1, <3>2, Withdrawn
  <2> QED
    BY <2>2, <2>3, <2>4
<1> QED
  BY <1>2, <1>3, <1>4, <1>5, <1>6 DEF Refresh, Logout

\* A login begins a session that nobody has seen; other sessions go on.
LEMMA LoginOrdered ==
  ASSUME IInv, NEW r \in Slots, NEW s \in Untangled, LoginMint(r)
  PROVE  Ordered(s)'
<1>0. /\ Proper(request[r]) /\ Ordered(s) /\ Typed
      /\ \A q \in Slots : q # r => request'[q] = request[q]
  <2>1. Serve(r)
    BY DEF Serve, Login
  <2> QED
    BY <2>1, OthersStay DEF IInv, Typed, Carries
<1>1. /\ UNCHANGED <<cookie, clock, tokens, ended>>
      /\ request[r].cookie = Nothing /\ request[r].grant = Nothing
  BY <1>0 DEF LoginMint, At, Proper
<1>2. PICK g \in Grants : /\ g.session = logins + 1
                          /\ Becomes(request[r], request'[r], "save", request[r].answer, g)
  BY <1>0, Steps
<1>3. CASE s # logins + 1
  <2>1. ~Works(r, s) /\ ~Works(r, s)'
    BY <1>1, <1>2, <1>3 DEF Works, Carrying, Granted, Becomes
  <2> QED
    BY <1>0, <1>1, <2>1, Elsewhere, TokensStay
<1>4. CASE s = logins + 1
  <2>1. Unseen(s)
    BY <1>4, AuthAssumption DEF IInv, Fresh, Untangled, Typed, TypeOK, Sessions
  <2>2. /\ Live(s)' = {} /\ s \notin ended'
        /\ \A b \in Browsers : ~Holds(b, s)'
        /\ \A q \in Slots : Works(q, s)' => q = r
    BY <1>0, <1>1, <2>1 DEF Unseen, Holds, Live, Works, Carrying, Granted
  <2>3. \A q \in Slots : Works(q, s)' => Expected(q)' = {}
    BY <1>2, <2>2 DEF Expected, Becomes
  <2>4. Alone(s)'
    BY <2>2 DEF Alone
  <2>5. Rotated(s)'
    BY <2>2, <2>3 DEF Rotated
  <2>6. Over(s)'
    BY <2>2 DEF Over
  <2> QED
    BY <2>4, <2>5, <2>6 DEF Ordered
<1> QED
  BY <1>3, <1>4

\* The grant is stored: the session has no other usable token at this point.
LEMMA SaveOrdered ==
  ASSUME IInv, NEW r \in Slots, NEW s \in Untangled, Save(r)
  PROVE  Ordered(s)'
<1>0. /\ Proper(request[r]) /\ Ordered(s) /\ Typed
      /\ \A q \in Slots : q # r => request'[q] = request[q]
  <2>1. Serve(r)
    BY DEF Serve
  <2> QED
    BY <2>1, OthersStay DEF IInv, Typed, Carries
<1>1. /\ UNCHANGED <<cookie, clock, ended>> /\ request[r].grant # Nothing
      /\ tokens' = tokens \cup {request[r].grant} /\ request[r].pc = "save"
      /\ request[r].kind \in {"login", "refresh"}
      /\ request[r].kind = "login" => request[r].cookie = Nothing
      /\ request[r].kind = "refresh" =>
           request[r].cookie # Nothing /\ request[r].grant.session = request[r].cookie.session
  BY <1>0 DEF Save, Proper
<1>2. Becomes(request[r], request'[r], "reply", 200, request[r].grant)
  BY <1>0, Steps DEF Save
<1>3. CASE Granted(r, s)
  <2>1. Expected(r) = {} /\ Expected(r)' = {request[r].grant}
    BY <1>1, <1>2 DEF Expected, Becomes
  <2>2. Live(s) = {}
    BY <1>0, <1>3, <2>1 DEF Ordered, Rotated, Works
  <2>3. Live(s)' \subseteq {request[r].grant}
    BY <1>1, <2>2 DEF Live, Usable
  <2>4. \A c \in Expected(r)' : Safe(c)'
    BY <1>1, <2>1 DEF Safe
  <2>5. /\ Works(r, s) /\ Works(r, s)' /\ request'[r].cookie = request[r].cookie
        /\ request'[r].browser = request[r].browser
    BY <1>2, <1>3 DEF Becomes, Works, Granted, Carrying
  <2> QED
    BY <1>0, <1>1, <2>1, <2>3, <2>4, <2>5, Own
<1>4. CASE ~Granted(r, s)
  <2>1. ~Works(r, s) /\ ~Works(r, s)'
    BY <1>1, <1>2, <1>4 DEF Works, Carrying, Granted, Becomes
  <2>2. Live(s)' \subseteq Live(s) /\ \A c \in Held : Safe(c) => Safe(c)'
    BY <1>1, <1>4 DEF Live, Usable, Safe, Granted
  <2> QED
    BY <1>0, <1>1, <2>1, <2>2, Elsewhere
<1> QED
  BY <1>3, <1>4

\* A grant that is not stored tangles its session, and no other.
LEMMA FailOrdered ==
  ASSUME IInv, NEW r \in Slots, NEW s \in Untangled, s \notin tangled', SaveFails(r)
  PROVE  Ordered(s)'
<1>0. /\ Proper(request[r]) /\ Ordered(s) /\ Typed
      /\ \A q \in Slots : q # r => request'[q] = request[q]
  <2>1. Serve(r)
    BY DEF Serve
  <2> QED
    BY <2>1, OthersStay DEF IInv, Typed, Carries
<1>1. /\ UNCHANGED <<cookie, clock, ended, tokens>>
      /\ request[r].grant # Nothing /\ request[r].grant.session # s
      /\ request[r].kind \in {"login", "refresh"}
      /\ request[r].kind = "login" => request[r].cookie = Nothing
      /\ request[r].kind = "refresh" => request[r].grant.session = request[r].cookie.session
  BY <1>0 DEF SaveFails, Proper
<1>2. Becomes(request[r], request'[r], "reply", 500, Nothing)
  BY <1>0, Steps
<1>3. ~Works(r, s) /\ ~Works(r, s)'
  BY <1>1, <1>2 DEF Works, Carrying, Granted, Becomes
<1> QED
  BY <1>0, <1>1, <1>3, Elsewhere, TokensStay

\* The answer of the session's request arrives, or a refusal is lost.
LEMMA ReplyOrdered ==
  ASSUME IInv, NEW r \in Slots, NEW s \in Untangled, s \notin tangled',
         Deliver(r) \/ LoseAnswer(r)
  PROVE  Ordered(s)'
<1>0. /\ Proper(request[r]) /\ Ordered(s) /\ Typed /\ request'[r] = Free
      /\ \A q \in Slots : q # r => request'[q] = request[q]
  <2>1. Serve(r)
    BY DEF Serve
  <2> QED
    BY <2>1, OthersStay, Writes DEF IInv, Typed, Carries
<1>1. UNCHANGED <<tokens, clock, ended>> /\ request[r].pc = "reply" /\ ~Works(r, s)'
  BY <1>0 DEF Deliver, LoseAnswer, history, Free, Works, Carrying, Granted
<1>2. CASE request[r].answer # 200
  <2>1. cookie' = cookie /\ request[r].grant = Nothing
    BY <1>0, <1>1, <1>2 DEF Deliver, LoseAnswer, Proper
  <2>2. CASE Works(r, s)
    <3>1. Expected(r) = {request[r].cookie}
      BY <1>1, <1>2 DEF Expected
    <3>2. \A b \in Browsers : Holds(b, s)' =>
            b = request[r].browser /\ cookie'[b] = request[r].cookie
      BY <1>0, <2>1, <2>2 DEF Ordered, Alone, Holds
    <3> QED
      BY <1>0, <1>1, <1>2, <2>2, <3>1, <3>2, Handed DEF Closing
  <2>3. CASE ~Works(r, s)
    BY <1>0, <1>1, <2>1, <2>3, Elsewhere, TokensStay
  <2> QED
    BY <2>2, <2>3
<1>3. CASE LoseAnswer(r) /\ request[r].answer = 200
  <2>1. cookie' = cookie /\ ~Works(r, s)
    BY <1>3 DEF LoseAnswer, Works, Carrying, Granted
  <2> QED
    BY <1>0, <1>1, <2>1, Elsewhere, TokensStay
<1>4. CASE Deliver(r) /\ request[r].answer = 200 /\ request[r].kind = "logout"
  <2>1. cookie' = [cookie EXCEPT ![request[r].browser] = Nothing] /\ request[r].grant = Nothing
    BY <1>0, <1>4 DEF Deliver, Proper
  <2>2. \A b \in Browsers : \/ cookie'[b] = cookie[b] /\ b # request[r].browser
                            \/ ~Holds(b, s)'
    BY <1>0, <2>1 DEF Holds, Typed, TypeOK
  <2>3. CASE Works(r, s)
    <3>1. \A b \in Browsers : ~Holds(b, s)'
      BY <1>0, <2>2, <2>3 DEF Ordered, Alone, Holds
    <3> QED
      BY <1>0, <1>1, <2>3, <3>1, Handed
  <2>4. CASE ~Works(r, s)
    BY <1>0, <1>1, <2>2, <2>4, Elsewhere, TokensStay
  <2> QED
    BY <2>3, <2>4
<1>5. CASE Deliver(r) /\ request[r].answer = 200 /\ request[r].kind # "logout"
  <2>1. /\ cookie' = [cookie EXCEPT ![request[r].browser] = request[r].grant]
        /\ request[r].grant # Nothing /\ request[r].kind \in {"login", "refresh"}
        /\ request[r].kind = "login" => request[r].cookie = Nothing
        /\ request[r].kind = "refresh" => request[r].grant.session = request[r].cookie.session
    BY <1>0, <1>1, <1>5 DEF Deliver, Proper
  <2>2. CASE Granted(r, s)
    <3>1. Expected(r) = {request[r].grant}
      BY <1>1, <1>5, <2>1 DEF Expected
    <3>2. \A b \in Browsers : Holds(b, s)' =>
            b = request[r].browser /\ cookie'[b] = request[r].grant
      BY <1>0, <2>1, <2>2 DEF Ordered, Alone, Holds, Works, Typed, TypeOK
    <3> QED
      BY <1>0, <1>1, <1>5, <2>2, <3>1, <3>2, Handed DEF Works, Closing
  <2>3. CASE ~Granted(r, s)
    <3>1. ~Works(r, s)
      BY <2>1, <2>3 DEF Works, Carrying, Granted
    <3>2. \A b \in Browsers : cookie'[b] = cookie[b] \/ ~Holds(b, s)'
      BY <1>0, <2>1, <2>3 DEF Holds, Granted, Typed, TypeOK
    <3> QED
      BY <1>0, <1>1, <3>1, <3>2, Elsewhere, TokensStay
  <2> QED
    BY <2>2, <2>3
<1> QED
  BY <1>2, <1>3, <1>4, <1>5

\* What a browser sends is the token it holds.
LEMMA Sent ==
  ASSUME Typed, NEW r \in Slots, Arrive(r)
  PROVE  /\ UNCHANGED <<tokens, clock, cookie, ended, logins>> /\ request[r] = Free
         /\ \A q \in Slots : q # r => request'[q] = request[q]
         /\ request'[r].grant = Nothing /\ request'[r].pc = "check"
         /\ \/ request'[r].cookie = Nothing /\ tangled' = tangled
            \/ \E b \in Browsers : /\ request'[r].cookie = cookie[b]
                                   /\ request'[r].browser = b
                                   /\ tangled' = tangled \cup Overlapped(b)
<1> USE DEF Typed, TypeOK, history, Send, Free
<1>1. ASSUME NEW name \in Names, NEW email \in Emails, SendRegister(r, name, email)
      PROVE  /\ UNCHANGED <<tokens, clock, cookie, ended, logins, tangled>>
             /\ request[r] = Free /\ \A q \in Slots : q # r => request'[q] = request[q]
             /\ request'[r].grant = Nothing /\ request'[r].pc = "check"
             /\ request'[r].cookie = Nothing
  BY <1>1 DEF SendRegister
<1>2. ASSUME NEW b \in Browsers, NEW email \in Emails, SendLogin(r, b, email)
      PROVE  /\ UNCHANGED <<tokens, clock, cookie, ended, logins, tangled>>
             /\ request[r] = Free /\ \A q \in Slots : q # r => request'[q] = request[q]
             /\ request'[r].grant = Nothing /\ request'[r].pc = "check"
             /\ request'[r].cookie = Nothing
  BY <1>2 DEF SendLogin
<1>3. ASSUME NEW b \in Browsers, NEW kind \in {"refresh", "logout"},
             SendWithCookie(r, b, kind)
      PROVE  /\ UNCHANGED <<tokens, clock, cookie, ended, logins>>
             /\ request[r] = Free /\ \A q \in Slots : q # r => request'[q] = request[q]
             /\ request'[r].grant = Nothing /\ request'[r].pc = "check"
             /\ request'[r].cookie = cookie[b] /\ request'[r].browser = b
             /\ tangled' = tangled \cup Overlapped(b)
  BY <1>3 DEF SendWithCookie
<1> QED
  BY <1>1, <1>2, <1>3 DEF Arrive

\* A browser sends its cookie: nobody works on the session yet.
LEMMA ArriveOrdered ==
  ASSUME IInv, NEW r \in Slots, NEW s \in Untangled, s \notin tangled', Arrive(r)
  PROVE  Ordered(s)'
<1>0. Ordered(s) /\ Typed
  BY DEF IInv
<1>1. /\ UNCHANGED <<tokens, clock, cookie, ended>> /\ request[r] = Free
      /\ \A q \in Slots : q # r => request'[q] = request[q]
      /\ request'[r].grant = Nothing /\ request'[r].pc = "check"
      /\ \/ request'[r].cookie = Nothing
         \/ \E b \in Browsers : /\ request'[r].cookie = cookie[b]
                                /\ request'[r].browser = b
                                /\ tangled' = tangled \cup Overlapped(b)
  BY <1>0, Sent
<1>2. ~Works(r, s)
  BY <1>1 DEF Free, Works, Carrying, Granted
<1>3. CASE ~Works(r, s)'
  BY <1>0, <1>1, <1>2, <1>3, Elsewhere, TokensStay
<1>4. CASE Works(r, s)'
  <2>1. PICK b \in Browsers : /\ request'[r].cookie = cookie[b]
                              /\ request'[r].browser = b
                              /\ tangled' = tangled \cup Overlapped(b)
    BY <1>1, <1>4 DEF Works, Carrying, Granted
  <2>2. Holds(b, s) /\ Carrying(r, s)'
    BY <1>1, <1>4, <2>1 DEF Works, Carrying, Granted, Holds
  <2>3. \A q \in Slots : ~Carrying(q, s)
    BY <2>1, <2>2 DEF Overlapped, Carrying, Holds, Untangled
  <2>4. \A q \in Slots : ~Works(q, s)
    BY <1>0, <2>2, <2>3 DEF Ordered, Alone
  <2>5. /\ \A q \in Slots : Works(q, s)' => q = r
        /\ \A a \in Browsers : Holds(a, s)' => a = b
    BY <1>0, <1>1, <2>2, <2>4 DEF Ordered, Alone, Works, Carrying, Granted, Holds
  <2>6. Expected(r)' = {cookie[b]}
    BY <1>1, <2>1 DEF Expected
  <2>7. /\ Live(s)' \subseteq {cookie[b]} /\ Live(s)' = Live(s)
        /\ \A c \in {cookie[b]} : Safe(c)'
    BY <1>0, <1>1, <2>2, <2>4, TokensStay DEF Ordered, Rotated
  <2>8. Alone(s)'
    BY <1>1, <2>1, <2>2, <2>5 DEF Alone
  <2>9. Rotated(s)'
    BY <1>0, <1>4, <2>5, <2>6, <2>7 DEF Ordered, Rotated
  <2>10. Over(s)'
    BY <1>0, <1>1, <2>2, <2>4 DEF Ordered, Over
  <2> QED
    BY <2>8, <2>9, <2>10 DEF Ordered
<1> QED
  BY <1>3, <1>4

\* A token expires.
LEMMA TickOrdered ==
  ASSUME IInv, NEW s \in Untangled, Tick
  PROVE  Ordered(s)'
<1>1. UNCHANGED <<request, cookie, tokens, ended>> /\ clock' = clock + 1
  BY DEF Tick, history
<1>2. \A c \in Grants : Usable(c.token)' => Usable(c.token)
  BY <1>1, AuthAssumption, GrantFacts DEF Usable, IInv, Typed, TypeOK
<1>3. Live(s)' \subseteq Live(s) /\ \A c \in Held : Safe(c) => Safe(c)'
  BY <1>1, <1>2, HeldTyped DEF Live, Safe, IInv, Typed, TypeOK
<1> QED
  BY <1>1, <1>3, Elsewhere DEF IInv

-----------------------------------------------------------------------------
(* All sessions.                                                           *)

\* Where the tokens of browsers and requests come from.
LEMMA Sources ==
  ASSUME Typed, NEW r \in Slots, Serve(r)
  PROVE  /\ \A q \in Slots : q # r => request'[q] = request[q]
         /\ request'[r].cookie \in {request[r].cookie, Nothing}
         /\ \/ request'[r].grant \in {request[r].grant, Nothing}
            \/ LoginMint(r) /\ request'[r].grant.session = logins + 1
            \/ /\ RefreshMint(r) /\ request[r].cookie # Nothing
               /\ request'[r].grant.session = request[r].cookie.session
         /\ request'[r].pc = "reply" /\ request'[r].grant # Nothing =>
              Save(r) /\ request'[r].grant = request[r].grant
         /\ \A b \in Browsers : \/ cookie'[b] \in {cookie[b], Nothing}
                                \/ request[r].pc = "reply" /\ cookie'[b] = request[r].grant
<1> USE DEF At, history
<1>0. Proper(request[r]) /\ \A q \in Slots : q # r => request'[q] = request[q]
  BY OthersStay DEF Typed, Carries
<1>a. ASSUME NEW code \in {0, 200, 201, 401, 409, 500}, Answer(r, code)
      PROVE  /\ request'[r].cookie = request[r].cookie /\ request'[r].pc = "reply"
             /\ request'[r].grant = request[r].grant
  BY <1>a, Steps DEF Becomes
<1>g. ASSUME NEW pc \in {"name", "insert", "delete", "mint"}, Goto(r, pc)
      PROVE  /\ request'[r].cookie = request[r].cookie /\ request'[r].pc # "reply"
             /\ request'[r].grant = request[r].grant
  BY <1>g, Steps DEF Becomes
<1>1. CASE Register(r) \/ LoginRefused(r)
  BY <1>0, <1>1, <1>a, <1>g
     DEF Register, RegisterEmail, RegisterName, RegisterInsert, LoginRefused, Proper
<1>2. CASE RefreshRefused(r) \/ RefreshVerify(r) \/ RefreshTooLate(r) \/ RefreshDelete(r)
  BY <1>0, <1>2, <1>a, <1>g
     DEF RefreshRefused, RefreshVerify, RefreshTooLate, RefreshDelete, Proper
<1>3. CASE Logout(r)
  BY <1>0, <1>3, <1>a DEF Logout, LogoutRefused, LogoutDelete, Proper
<1>4. CASE LoginMint(r)
  <2>1. PICK g \in Grants : /\ g.session = logins + 1
                            /\ Becomes(request[r], request'[r], "save", request[r].answer, g)
    BY <1>4, Steps
  <2> QED
    BY <1>0, <1>4, <2>1 DEF LoginMint, Becomes
<1>5. CASE RefreshMint(r)
  <2>1. PICK g \in Grants : /\ g.session = request[r].cookie.session
                            /\ Becomes(request[r], request'[r], "save", request[r].answer, g)
    BY <1>5, Steps
  <2> QED
    BY <1>0, <1>5, <2>1 DEF RefreshMint, Becomes, Proper
<1>6. CASE Save(r)
  BY <1>0, <1>6, <1>a DEF Save
<1>7. CASE SaveFails(r)
  BY <1>0, <1>7, Steps DEF SaveFails, Becomes
<1>8. CASE Deliver(r) \/ LoseAnswer(r)
  <2>1. request'[r] = Free /\ request[r].pc = "reply"
    BY <1>8, Writes DEF Deliver, LoseAnswer
  <2>2. \A b \in Browsers : cookie'[b] \in {cookie[b], Nothing, request[r].grant}
    BY <1>8 DEF Deliver, LoseAnswer, Typed, TypeOK
  <2> QED
    BY <1>0, <2>1, <2>2 DEF Free
<1> QED
  BY <1>1, <1>2, <1>3, <1>4, <1>5, <1>6, <1>7, <1>8 DEF Serve, Login, Refresh

\* The tokens in the hands of browsers and requests, after a step.
LEMMA HeldKept ==
  ASSUME Typed, NEW r \in Slots, Serve(r) \/ Arrive(r), NEW c \in Held'
  PROVE  c \in Held \/ (Save(r) /\ c = request[r].grant)
<1>1. /\ c # Nothing
      /\ \/ \E b \in Browsers : c = cookie'[b]
         \/ \E q \in Slots : c = request'[q].cookie
         \/ \E q \in Slots : request'[q].pc = "reply" /\ c = request'[q].grant
  BY DEF Held
<1>2. CASE Serve(r)
  BY <1>1, <1>2, Sources, HeldIs
<1>3. CASE Arrive(r)
  BY <1>1, <1>3, Sent, HeldIs
<1> QED
  BY <1>2, <1>3

\* Sessions that come to have one token are tangled.
LEMMA ApartKept ==
  ASSUME IInv, NEW s \in Untangled, s \notin tangled', Next
  PROVE  Apart(s)'
<1>0. Typed /\ Apart(s)
  BY DEF IInv
<1>1. CASE Tick
  BY <1>0, <1>1 DEF Tick, Apart, Held
<1>2. ASSUME NEW r \in Slots, Serve(r) \/ Arrive(r) PROVE Apart(s)'
  <2> SUFFICES ASSUME NEW g \in Held', NEW h \in Held', g.token = h.token, g.session = s
               PROVE  h.session = s
    BY DEF Apart
  <2>1. CASE g \in Held /\ h \in Held
    BY <1>0, <2>1 DEF Apart
  <2>2. CASE Save(r) /\ g = request[r].grant /\ h \in Held
    BY <2>2 DEF Save, Sharing
  <2>3. CASE Save(r) /\ h = request[r].grant /\ g \in Held
    BY <2>3 DEF Save, Sharing
  <2> QED
    BY <1>0, <1>2, <2>1, <2>2, <2>3, HeldKept
<1> QED
  BY <1>1, <1>2 DEF Next

\* Nothing but a login begins a session.
LEMMA FreshKept ==
  ASSUME IInv, Next
  PROVE  Fresh'
<1>0. Typed /\ logins \in Nat
  BY AuthAssumption DEF IInv, Typed, TypeOK
<1>1. logins' \in {logins, logins + 1}
  BY DEF Next, Tick, Arrive, Serve, Register, Login, Refresh, Logout, SendRegister,
     SendLogin, SendWithCookie, RegisterEmail, RegisterName, RegisterInsert, LoginRefused,
     LoginMint, RefreshRefused, RefreshVerify, RefreshTooLate, RefreshDelete, RefreshMint,
     LogoutRefused, LogoutDelete, Save, SaveFails, Deliver, LoseAnswer, history
<1> SUFFICES ASSUME NEW s \in Sessions, s > logins' PROVE Unseen(s)'
  BY DEF Fresh
<1>2. Unseen(s) /\ s > logins
  BY <1>0, <1>1 DEF IInv, Fresh, Sessions
<1>3. \A c \in Held : c.session # s
  BY <1>2, HeldIs DEF Unseen, Holds, Works, Carrying, Granted
<1>4. CASE Tick
  BY <1>2, <1>4 DEF Tick, history, Unseen, Holds, Works, Carrying, Granted
<1>5. ASSUME NEW r \in Slots, Arrive(r) PROVE Unseen(s)'
  <2>1. \A b \in Browsers : s \notin Overlapped(b)
    BY <1>2 DEF Overlapped, Unseen, Holds
  <2> QED
    BY <1>0, <1>2, <1>5, <2>1, Sent DEF Unseen, Holds, Works, Carrying, Granted
<1>6. ASSUME NEW r \in Slots, Serve(r) PROVE Unseen(s)'
  <2>1. /\ request[r].grant # Nothing => request[r].grant.session # s
        /\ request[r].cookie # Nothing => request[r].cookie.session # s
    BY <1>2 DEF Unseen, Works, Carrying, Granted
  <2>2. \A b \in Browsers : ~Holds(b, s)'
    BY <1>0, <1>2, <1>6, <2>1, Sources DEF Unseen, Holds
  <2>3. \A q \in Slots : ~Carrying(q, s)'
    BY <1>0, <1>2, <1>6, <2>1, Sources DEF Unseen, Works, Carrying
  <2>4. LoginMint(r) => logins' = logins + 1
    BY DEF LoginMint
  <2>5. \A q \in Slots : ~Granted(q, s)'
    BY <1>0, <1>2, <1>6, <2>1, <2>4, Sources DEF Unseen, Works, Granted
  <2>6. tokens' \subseteq tokens \cup {request[r].grant} /\ (Save(r) \/ tokens' \subseteq tokens)
    BY <1>6 DEF Serve, Register, Login, Refresh, Logout, RegisterEmail, RegisterName,
       RegisterInsert, LoginRefused, LoginMint, RefreshRefused, RefreshVerify,
       RefreshTooLate, RefreshDelete, RefreshMint, LogoutRefused, LogoutDelete, Save,
       SaveFails, Deliver, LoseAnswer, Without
  <2>7. Save(r) \/ SaveFails(r) => request[r].grant # Nothing
    BY <1>0 DEF Save, SaveFails, Typed, Carries, Proper
  <2>8. \A g \in tokens' : g.session # s
    BY <1>2, <2>1, <2>6, <2>7 DEF Unseen
  <2>9. s \notin ended'
    BY <1>2, <1>6, <2>1 DEF Unseen, Serve, Register, Login, Refresh, Logout, RegisterEmail,
       RegisterName, RegisterInsert, LoginRefused, LoginMint, RefreshRefused, RefreshVerify,
       RefreshTooLate, RefreshDelete, RefreshMint, LogoutRefused, LogoutDelete, Save,
       SaveFails, Deliver, LoseAnswer, history
  <2>10. Save(r) => s \notin Sharing(request[r].grant)
    BY <1>3, <2>1, <2>7 DEF Sharing
  <2>11. s \notin tangled'
    BY <1>2, <1>6, <2>1, <2>7, <2>10 DEF Unseen, Serve, Register, Login, Refresh, Logout,
       RegisterEmail, RegisterName, RegisterInsert, LoginRefused, LoginMint, RefreshRefused,
       RefreshVerify, RefreshTooLate, RefreshDelete, RefreshMint, LogoutRefused,
       LogoutDelete, Save, SaveFails, Deliver, LoseAnswer, history
  <2> QED
    BY <2>2, <2>3, <2>5, <2>8, <2>9, <2>11 DEF Unseen, Works
<1> QED
  BY <1>4, <1>5, <1>6 DEF Next

-----------------------------------------------------------------------------
(* Theorems.                                                               *)

\* No accounts, no tokens, no requests.
LEMMA Start == Init => IInv
BY AuthAssumption
   DEF Init, IInv, Typed, TypeOK, Carries, Proper, Free, RequestTypes, Fresh, Unseen, Untangled,
       Ordered, Alone, Rotated, Over, Apart, Live, Holds, Works, Carrying, Granted, Held,
       Sessions

\* The invariant is inductive.
LEMMA StepKeeps ==
  ASSUME IInv, [Next]_vars
  PROVE  IInv'
<1>1. CASE UNCHANGED vars
  BY <1>1 DEF vars, IInv, Typed, TypeOK, Carries, Fresh, Unseen, Untangled, Ordered, Alone,
     Rotated, Over, Closing, Apart, Live, Usable, Safe, Expected, Holds, Works, Carrying,
     Granted, Held
<1>2. CASE Next
  <2>1. Typed'
    BY <1>2, ArriveTyped, ServeTyped, TickTyped DEF Next, IInv
  <2>2. Fresh'
    BY <1>2, FreshKept
  <2>3. tangled \subseteq tangled'
    BY <1>2 DEF Next, Tick, Arrive, Serve, Register, Login, Refresh, Logout, SendRegister,
       SendLogin, SendWithCookie, RegisterEmail, RegisterName, RegisterInsert, LoginRefused,
       LoginMint, RefreshRefused, RefreshVerify, RefreshTooLate, RefreshDelete, RefreshMint,
       LogoutRefused, LogoutDelete, Save, SaveFails, Deliver, LoseAnswer, history
  <2>4. ASSUME NEW s \in Untangled, s \notin tangled' PROVE Ordered(s)' /\ Apart(s)'
    BY <1>2, <2>4, ApartKept, TickOrdered, ArriveOrdered, HandlerOrdered, LoginOrdered,
       SaveOrdered, FailOrdered, ReplyOrdered DEF Next, Serve, Login
  <2> QED
    BY <2>1, <2>2, <2>3, <2>4 DEF IInv, Untangled
<1> QED
  BY <1>1, <1>2

\* The inductive invariant holds for any numbers of browsers, requests, logins.
THEOREM SessionInvariant == Spec => []IInv
BY Start, StepKeeps, PTL DEF Spec

\* Every variable has its type.
THEOREM TypesHold == Spec => []TypeOK
<1>1. IInv => TypeOK
  BY DEF IInv, Typed
<1> QED
  BY <1>1, SessionInvariant, PTL

\* However registrations overlap, no two accounts share a name or an e-mail.
THEOREM OneAccount == Spec => []OneAccountEach
<1>1. Init => OneAccountEach
  BY DEF Init, OneAccountEach
<1>2. ASSUME OneAccountEach, [Next]_vars PROVE OneAccountEach'
  <2>1. users' = users \/ \E r \in Slots : RegisterInsert(r)
    BY <1>2 DEF vars, Next, Tick, Arrive, Serve, Register, Login, Refresh, Logout,
       SendRegister, SendLogin, SendWithCookie, RegisterEmail, RegisterName, LoginRefused,
       LoginMint, RefreshRefused, RefreshVerify, RefreshTooLate, RefreshDelete, RefreshMint,
       LogoutRefused, LogoutDelete, Save, SaveFails, Deliver, LoseAnswer
  <2>2. ASSUME NEW r \in Slots, RegisterInsert(r) PROVE OneAccountEach'
    <3>1. CASE Taken(request[r].name, request[r].email)
      BY <1>2, <2>2, <3>1 DEF RegisterInsert, OneAccountEach
    <3>2. CASE ~Taken(request[r].name, request[r].email)
      BY <1>2, <2>2, <3>2 DEF RegisterInsert, OneAccountEach, Taken
    <3> QED
      BY <3>1, <3>2
  <2> QED
    BY <1>2, <2>1, <2>2 DEF OneAccountEach
<1> QED
  BY <1>1, <1>2, PTL DEF Spec

\* Rotation leaves at most one usable token to a session, unless it is tangled:
\* two of its requests overlapped, a save failed, an answer was lost, or another
\* session has the same token (refresh, save_refresh_token).
THEOREM OneToken == Spec => []OneTokenPerSession
<1>1. IInv => OneTokenPerSession
  <2> SUFFICES ASSUME IInv, NEW g \in tokens, NEW h \in tokens,
                      Usable(g.token), Usable(h.token),
                      g.session = h.session, g.session \notin tangled
               PROVE  g = h
    BY DEF OneTokenPerSession
  <2>1. g.session \in Untangled
    BY GrantFacts DEF IInv, Typed, TypeOK, Untangled
  <2>2. Rotated(g.session)
    BY <2>1 DEF IInv, Ordered
  <2> QED
    BY <2>2 DEF Rotated, Live
<1> QED
  BY <1>1, SessionInvariant, PTL

\* A logout leaves no usable token to its session, unless the session is tangled,
\* as by a refresh that was verified before the logout and saves after it
\* (logout, delete_refresh_token).
THEOREM LogoutFinal == Spec => []LogoutEndsSession
<1>1. IInv => LogoutEndsSession
  <2> SUFFICES ASSUME IInv, NEW g \in tokens, Usable(g.token), g.session \in ended \ tangled
               PROVE  FALSE
    BY DEF LogoutEndsSession
  <2>1. g.session \in Untangled
    BY GrantFacts DEF IInv, Typed, TypeOK, Untangled
  <2>2. Over(g.session)
    BY <2>1 DEF IInv, Ordered
  <2> QED
    BY <2>2 DEF Over, Live
<1> QED
  BY <1>1, SessionInvariant, PTL

\* The cookie of a browser with nothing in flight is stored or has expired,
\* whatever other sessions, of the same user too, have done, unless its own
\* session is tangled by an overlap, a failed save or a lost answer (refresh).
THEOREM CookieGood == Spec => []CookieBacked
<1>1. IInv => CookieBacked
  <2> SUFFICES ASSUME IInv, NEW b \in Browsers, cookie[b] # Nothing,
                      cookie[b].session \notin tangled, Usable(cookie[b].token),
                      \A r \in Slots : ~Carrying(r, cookie[b].session)
               PROVE  cookie[b] \in tokens
    BY DEF CookieBacked, Carrying
  <2>1. cookie[b].session \in Untangled /\ Holds(b, cookie[b].session)
    BY GrantFacts DEF IInv, Typed, TypeOK, Untangled, Holds
  <2>2. Alone(cookie[b].session) /\ Rotated(cookie[b].session)
    BY <2>1 DEF IInv, Ordered
  <2>3. \A r \in Slots : ~Works(r, cookie[b].session)
    BY <2>1, <2>2 DEF Alone
  <2> QED
    BY <2>1, <2>2, <2>3 DEF Rotated, Safe
<1> QED
  BY <1>1, SessionInvariant, PTL
=============================================================================
