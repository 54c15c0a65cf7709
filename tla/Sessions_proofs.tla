--------------------------- MODULE Sessions_proofs ---------------------------
(***************************************************************************)
(* A login has one live refresh token, a refused token is dead and a user  *)
(* told that the session expired has none left: for any numbers of tabs,   *)
(* requests and tokens, through losses, expiries, logouts and              *)
(* deactivations, as long as two refreshes of a login do not overlap.      *)
(***************************************************************************)
EXTENDS Sessions, FiniteSetTheorems, TLAPS

-----------------------------------------------------------------------------
(* What is held anywhere                                                   *)

Clients == Tabs \X Slots
Refreshers == Tabs \X Refreshes

LoginPcs == {"idle", "loginUser", "loginMint", "200", "401", "403"}
LogoutPcs == {"idle", "logoutFind", "logoutRevoke", "204", "401"}
RefreshPcs == {"idle", "refreshFind", "refreshUser", "refreshRefuse", "refreshRevoke",
               "refreshMint", "200", "401", "401clear"}
WorkPcs == {"idle", "sent", "waiting", "200", "401"}

Requests == [pc : ReqPcs, cookie : Tokens \cup {None}, auth : {"none", "valid", "expired"},
             minted : Tokens \cup {None}, retried : BOOLEAN]

Pages == [signedIn : BOOLEAN, access : {"none", "valid", "expired"}, timer : BOOLEAN,
          modals : SUBSET {"expired", "disabled"}, refused : Tokens \cup {None}]

\* No token is held anywhere before it is minted.
Issued(k) == k \in Tokens /\ token[k] # "unissued"
MaybeIssued(k) == k = None \/ Issued(k)

StoreInv ==
  /\ active \in BOOLEAN
  /\ token \in [Tokens -> {"unissued", "live", "revoked", "expired"}]
  /\ origin \in [Tokens -> [login : Tokens \cup {None}, from : Tokens \cup {None}]]
  /\ \A k \in Tokens : Issued(k) => Issued(origin[k].login)

BrowserInv ==
  /\ MaybeIssued(cookie)
  /\ undelivered \subseteq Tokens
  /\ overlapped \subseteq Tokens
  /\ tab \in [Tabs -> Pages]
  /\ \A t \in Tabs : MaybeIssued(tab[t].refused)

\* The program points of a refresh that has found a token.
Found == {"refreshUser", "refreshRefuse", "refreshRevoke"}

\* A refresh that is past the lookup has a token; one that was refused has a
\* dead one, and keeps it; one that succeeded has a token of the same login.
RefreshOK(r) ==
  /\ r.pc \in RefreshPcs
  /\ r.pc \in Found \cup {"refreshMint", "200", "401clear"} => r.cookie # None
  /\ r.pc = "401" => r.cookie = None
  /\ r.pc = "200" => r.minted # None /\ Kin(r.minted, r.cookie)
  /\ r.pc = "401clear" => ~Present(r.cookie)

LoginOK(r) ==
  /\ r.pc \in LoginPcs
  /\ r.pc = "200" => r.minted # None /\ origin[r.minted].login = r.minted

Held(r) == r \in Requests /\ MaybeIssued(r.cookie) /\ MaybeIssued(r.minted)

\* Each slot runs its own handler.
GoodReq(x, r) ==
  /\ Held(r)
  /\ x[2] = "login" => LoginOK(r)
  /\ x[2] = "logout" => r.pc \in LogoutPcs
  /\ x[2] \in Refreshes => RefreshOK(r)
  /\ x[2] \in Works => r.pc \in WorkPcs

ReqsInv ==
  /\ req \in [Clients -> Requests]
  /\ \A x \in Clients : GoodReq(x, req[x])

\* Requests wait exactly while the refresh they share is in flight.
WaitInv ==
  \A t \in Tabs :
    (\E w \in Works : req[<<t, w>>].pc = "waiting") <=> req[<<t, "refresh">>].pc # "idle"

\* Every request that may still mint has a token left.
May(x, r) ==
  \/ x[2] = "login" /\ r.pc \in {"loginUser", "loginMint"}
  \/ x[2] \in Refreshes /\ r.pc \in Found \cup {"refreshFind", "refreshMint"}
  \/ x[2] \in Works /\ r.pc # "idle" /\ ~r.retried
Minters == {x \in Clients : May(x, req[x])}
Unissued == {k \in Tokens : token[k] = "unissued"}
Enough == Cardinality(Minters) <= Cardinality(Unissued)

HandsInv == StoreInv /\ BrowserInv /\ ReqsInv /\ WaitInv /\ Enough

-----------------------------------------------------------------------------
(* One login                                                               *)

Of(k, login) == k # None /\ origin[k].login = login
LiveOf(login) == {k \in Tokens : token[k] = "live" /\ Of(k, login)}
Refreshing(x, login) == InFlight(x) /\ Of(req[x].cookie, login)

\* What a refresh of the login knows at each of its stages.
Knows(x, login) ==
  /\ req[x].pc = "refreshFind" => LiveOf(login) \subseteq undelivered \cup {req[x].cookie}
  /\ req[x].pc \in Found => LiveOf(login) \subseteq {req[x].cookie}
  /\ req[x].pc = "refreshMint" => LiveOf(login) = {}
  /\ req[x].pc = "200" => LiveOf(login) \subseteq {req[x].minted}
  /\ req[x].pc = "401clear" => LiveOf(login) \subseteq undelivered
  /\ Of(cookie, login) => cookie = req[x].cookie

\* Nobody has a token of the login in hand.
Idle(login) == \A x \in Refreshers : ~Refreshing(x, login)
Closed(login) == ~Of(cookie, login) /\ Idle(login)

LoginAnswer(t, login) == req[<<t, "login">>].pc = "200" /\ req[<<t, "login">>].minted = login
Expired(t, login) == "expired" \in tab[t].modals /\ Of(tab[t].refused, login)

OneLive(login) == \A k, m \in LiveOf(login) : k = m
OneRefresh(login) ==
  \A x, y \in Refreshers : Refreshing(x, login) /\ Refreshing(y, login) => x = y
AllKnow(login) == \A x \in Refreshers : Refreshing(x, login) => Knows(x, login)
Resting(login) ==
  Idle(login) /\ Of(cookie, login) => LiveOf(login) \subseteq undelivered \cup {cookie}
Answers(login) ==
  \A t \in Tabs : LoginAnswer(t, login) =>
    /\ Closed(login)
    /\ LiveOf(login) \subseteq {login}
    /\ \A u \in Tabs : ~Expired(u, login) /\ (LoginAnswer(u, login) => u = t)
Ends(login) ==
  \A t \in Tabs : Expired(t, login) => Closed(login) /\ LiveOf(login) \subseteq undelivered

OneLogin(login) ==
  /\ OneLive(login) /\ OneRefresh(login) /\ AllKnow(login)
  /\ Resting(login) /\ Answers(login) /\ Ends(login)

LoginsInv == \A login \in Tokens : login \notin overlapped => OneLogin(login)

SessionInv == HandsInv /\ LoginsInv

-----------------------------------------------------------------------------
(* Rows and requests through a step                                        *)

\* A step may revoke and mint, and brings nothing back to life.
Grows ==
  \A k \in Tokens : token[k] # "unissued" =>
    /\ token'[k] # "unissued"
    /\ origin'[k] = origin[k]
    /\ token'[k] = "live" => token[k] = "live"

LEMMA SameGrows == ASSUME UNCHANGED <<token, origin>> PROVE Grows
  BY DEF Grows

LEMMA IssuedKept ==
  ASSUME Grows, NEW k, MaybeIssued(k) PROVE MaybeIssued(k)'
  BY DEF Grows, MaybeIssued, Issued

\* What a request holds stays as good as it was.
LEMMA GoodKept ==
  ASSUME StoreInv, Grows, NEW x, NEW r, GoodReq(x, r) PROVE GoodReq(x, r)'
<1>1. Held(r)'
  BY IssuedKept DEF GoodReq, Held
<1>2. x[2] = "login" => LoginOK(r)'
  BY NoTokenAssumption DEF GoodReq, Held, LoginOK, Grows, MaybeIssued, Issued
<1>3. x[2] \in Refreshes => RefreshOK(r)'
  <2> SUFFICES ASSUME RefreshOK(r) PROVE RefreshOK(r)'
    BY DEF GoodReq
  <2>1. r.pc = "200" => Kin(r.minted, r.cookie)'
    BY NoTokenAssumption DEF GoodReq, Held, RefreshOK, Grows, MaybeIssued, Issued, Kin, Found
  <2>2. r.pc = "401clear" => ~Present(r.cookie)'
    BY NoTokenAssumption DEF GoodReq, Held, RefreshOK, Grows, MaybeIssued, Issued, Present, Found
  <2> QED BY <2>1, <2>2 DEF RefreshOK
<1> QED BY <1>1, <1>2, <1>3 DEF GoodReq

LEMMA ReqsKept ==
  ASSUME StoreInv, ReqsInv, Grows, req' \in [Clients -> Requests],
         \A x \in Clients : req'[x] = req[x] \/ GoodReq(x, req[x])'
  PROVE  ReqsInv'
<1> SUFFICES ASSUME NEW x \in Clients PROVE GoodReq(x, req[x])'
  BY DEF ReqsInv, Clients, Requests
<1>1. CASE req'[x] = req[x]
  <2>1. PICK r : r = req[x] OBVIOUS
  <2>2. GoodReq(x, r)' BY <2>1, GoodKept DEF ReqsInv
  <2> QED BY <1>1, <2>1, <2>2 DEF GoodReq, Held, LoginOK, RefreshOK, MaybeIssued, Issued, Kin, Present
<1> QED BY <1>1

LEMMA ReqKept ==
  ASSUME StoreInv, ReqsInv, Grows, NEW x \in Clients, NEW r,
         req' = [req EXCEPT ![x] = r], GoodReq(x, r)'
  PROVE  ReqsInv'
<1>1. r \in Requests BY DEF GoodReq, Held, Requests
<1>2. req' \in [Clients -> Requests] BY <1>1 DEF ReqsInv
<1>3. ASSUME NEW y \in Clients PROVE req'[y] = req[y] \/ GoodReq(y, req[y])'
  <2>1. CASE y = x
    <3>1. req'[x] = r BY DEF ReqsInv
    <3> QED BY <2>1, <3>1 DEF GoodReq, Held, LoginOK, RefreshOK, MaybeIssued, Issued, Kin, Present
  <2>2. CASE y # x
    BY <2>2 DEF ReqsInv
  <2> QED BY <2>1, <2>2
<1> QED BY <1>2, <1>3, ReqsKept

LEMMA WaitKept ==
  ASSUME ReqsInv, WaitInv, NEW x \in Clients, NEW r, req' = [req EXCEPT ![x] = r],
         r.pc = "waiting" <=> req[x].pc = "waiting",
         x[2] = "refresh" => (r.pc = "idle" <=> req[x].pc = "idle")
  PROVE  WaitInv'
<1> SUFFICES ASSUME NEW t \in Tabs
             PROVE  (\E w \in Works : req'[<<t, w>>].pc = "waiting") <=> req'[<<t, "refresh">>].pc # "idle"
  BY DEF WaitInv
<1>1. \A w \in Works : <<t, w>> \in Clients BY DEF Clients, Slots
<1>2. <<t, "refresh">> \in Clients BY DEF Clients, Slots, Refreshes
<1>3. \A y \in Clients : req'[y] = IF y = x THEN r ELSE req[y] BY DEF ReqsInv
<1>4. \A w \in Works : req'[<<t, w>>].pc = "waiting" <=> req[<<t, w>>].pc = "waiting"
  BY <1>1, <1>3
<1>5. req'[<<t, "refresh">>].pc = "idle" <=> req[<<t, "refresh">>].pc = "idle"
  BY <1>2, <1>3
<1> QED BY <1>4, <1>5 DEF WaitInv

-----------------------------------------------------------------------------
(* Tokens enough                                                           *)

LEMMA ClientsFinite == IsFiniteSet(Clients)
<1>1. IsFiniteSet(Refreshes)
  <2>1. IsFiniteSet({}) BY FS_EmptySet
  <2>2. IsFiniteSet({} \cup {"timer"}) BY <2>1, FS_AddElement
  <2>3. IsFiniteSet(({} \cup {"timer"}) \cup {"refresh"}) BY <2>2, FS_AddElement
  <2>4. ({} \cup {"timer"}) \cup {"refresh"} = Refreshes BY DEF Refreshes
  <2> QED BY <2>3, <2>4
<1>2. IsFiniteSet(Slots)
  <2>1. IsFiniteSet(Refreshes \cup Works) BY <1>1, FiniteAssumption, FS_Union
  <2>2. IsFiniteSet((Refreshes \cup Works) \cup {"login"}) BY <2>1, FS_AddElement
  <2>3. IsFiniteSet(((Refreshes \cup Works) \cup {"login"}) \cup {"logout"}) BY <2>2, FS_AddElement
  <2>4. ((Refreshes \cup Works) \cup {"login"}) \cup {"logout"} = Slots BY DEF Slots
  <2> QED BY <2>3, <2>4
<1> QED BY <1>2, FiniteAssumption, FS_Product DEF Clients

LEMMA Finite ==
  /\ IsFiniteSet(Minters) /\ Cardinality(Minters) \in Nat
  /\ IsFiniteSet(Unissued) /\ Cardinality(Unissued) \in Nat
<1>1. IsFiniteSet(Minters) BY ClientsFinite, FS_Subset DEF Minters
<1>2. IsFiniteSet(Unissued) BY FiniteAssumption, FS_Subset DEF Unissued
<1> QED BY <1>1, <1>2, FS_CardinalityType

LEMMA AddOne ==
  ASSUME NEW S, IsFiniteSet(S), NEW y
  PROVE  /\ IsFiniteSet(S \cup {y})
         /\ Cardinality(S) \in Nat /\ Cardinality(S \cup {y}) \in Nat
         /\ Cardinality(S \cup {y}) <= Cardinality(S) + 1
<1>1. IsFiniteSet(S \cup {y}) BY FS_AddElement
<1>2. Cardinality(S) \in Nat /\ Cardinality(S \cup {y}) \in Nat BY <1>1, FS_CardinalityType
<1>3. CASE y \in S
  <2>1. Cardinality(S \cup {y}) = Cardinality(S) BY <1>3, FS_AddElement
  <2> QED BY <1>1, <1>2, <2>1
<1>4. CASE y \notin S
  <2>1. Cardinality(S \cup {y}) = Cardinality(S) + 1 BY <1>4, FS_AddElement
  <2> QED BY <1>1, <1>2, <2>1
<1> QED BY <1>3, <1>4

\* Whatever mints nothing and starts nothing leaves enough.
LEMMA EnoughKept ==
  ASSUME Enough, Minters' \subseteq Minters, Unissued' = Unissued PROVE Enough'
<1>1. Cardinality(Minters') <= Cardinality(Minters) /\ Cardinality(Minters') \in Nat
  BY Finite, FS_Subset, FS_CardinalityType
<1> QED BY <1>1, Finite DEF Enough

LEMMA EnoughLeft ==
  ASSUME ReqsInv, Enough, NEW x \in Clients, NEW r, req' = [req EXCEPT ![x] = r],
         May(x, r) => May(x, req[x]), Unissued' = Unissued
  PROVE  Enough'
<1>1. \A y \in Clients : req'[y] = IF y = x THEN r ELSE req[y] BY DEF ReqsInv
<1>2. Minters' \subseteq Minters BY <1>1 DEF Minters, May
<1> QED BY <1>2, EnoughKept

\* A request that may mint finds a token.
LEMMA Fresh ==
  ASSUME Enough, NEW x \in Minters
  PROVE  FreshToken \in Tokens /\ token[FreshToken] = "unissued"
<1>1. Unissued # {}
  <2> SUFFICES ASSUME Unissued = {} PROVE FALSE OBVIOUS
  <2>1. Cardinality(Unissued) = 0 BY FS_EmptySet
  <2>2. Cardinality(Minters) = 0 BY <2>1, Finite DEF Enough
  <2>3. Minters = {} BY <2>2, Finite, FS_EmptySet
  <2> QED BY <2>3
<1> QED BY <1>1 DEF Unissued, FreshToken

LEMMA EnoughAfterMint ==
  ASSUME ReqsInv, Enough, NEW x \in Minters, NEW r, req' = [req EXCEPT ![x] = r],
         ~May(x, r), NEW k \in Unissued, Unissued' = Unissued \ {k}
  PROVE  Enough'
<1>1. \A y \in Clients : req'[y] = IF y = x THEN r ELSE req[y] BY DEF ReqsInv
<1>2. Minters' \subseteq Minters \ {x} BY <1>1 DEF Minters, May
<1>3. IsFiniteSet(Minters \ {x}) /\ Cardinality(Minters \ {x}) = Cardinality(Minters) - 1
  BY Finite, FS_RemoveElement
<1>4. Cardinality(Minters') <= Cardinality(Minters \ {x}) /\ Cardinality(Minters') \in Nat
  BY <1>2, <1>3, FS_Subset, FS_CardinalityType
<1>5. Cardinality(Unissued') = Cardinality(Unissued) - 1
  BY Finite, FS_RemoveElement
<1> QED BY <1>3, <1>4, <1>5, Finite DEF Enough

\* TokenLeft counts every request in flight but a logout.
LEMMA EnoughAfterStart ==
  ASSUME ReqsInv, TokenLeft, NEW x \in Clients, NEW r, req' = [req EXCEPT ![x] = r],
         Unissued' = Unissued
  PROVE  Enough'
<1> DEFINE Busy == {y \in Tabs \X (Slots \ {"logout"}) : InFlight(y)}
<1>1. \A y \in Clients : req'[y] = IF y = x THEN r ELSE req[y] BY DEF ReqsInv
<1>2. Minters' \subseteq Busy \cup {x}
  BY <1>1, SlotsAssumption DEF Minters, May, InFlight, Clients, Refreshes, Slots, Found
<1>3. IsFiniteSet(Busy)
  <2>1. Busy \subseteq Clients BY DEF Clients
  <2> QED BY <2>1, ClientsFinite, FS_Subset
<1>4. /\ IsFiniteSet(Busy \cup {x})
      /\ Cardinality(Busy \cup {x}) <= Cardinality(Busy) + 1
      /\ Cardinality(Busy) \in Nat /\ Cardinality(Busy \cup {x}) \in Nat
  BY <1>3, AddOne
<1>5. Cardinality(Minters') <= Cardinality(Busy \cup {x}) /\ Cardinality(Minters') \in Nat
  BY <1>2, <1>4, FS_Subset, FS_CardinalityType
<1>6. Cardinality(Busy) < Cardinality(Unissued)
  BY DEF TokenLeft, Unissued
<1> QED BY <1>4, <1>5, <1>6, Finite DEF Enough

\* The refresh that a 401 starts takes the place of the request that waits for it.
LEMMA EnoughAfterSwap ==
  ASSUME Enough, NEW x \in Minters, NEW y, Minters' \subseteq (Minters \ {x}) \cup {y},
         Unissued' = Unissued
  PROVE  Enough'
<1>1. IsFiniteSet(Minters \ {x}) /\ Cardinality(Minters \ {x}) = Cardinality(Minters) - 1
  BY Finite, FS_RemoveElement
<1> DEFINE rest == Minters \ {x}
<1>2. /\ IsFiniteSet(rest \cup {y})
      /\ Cardinality(rest) \in Nat /\ Cardinality(rest \cup {y}) \in Nat
      /\ Cardinality(rest \cup {y}) <= Cardinality(rest) + 1
  <2> HIDE DEF rest
  <2>1. IsFiniteSet(rest) BY <1>1 DEF rest
  <2> QED BY <2>1, AddOne
<1>3. Cardinality(Minters') <= Cardinality(rest \cup {y}) /\ Cardinality(Minters') \in Nat
  BY <1>2, FS_Subset, FS_CardinalityType
<1> QED BY <1>1, <1>2, <1>3, Finite DEF Enough

-----------------------------------------------------------------------------
(* The steps of the server                                                 *)

LEMMA PcOnly ==
  ASSUME ReqsInv, NEW x \in Clients, NEW pc, Goes(x, pc)
  PROVE  req' = [req EXCEPT ![x] = [req[x] EXCEPT !.pc = pc]]
  BY DEF Goes, ReqsInv

\* A request moves on, and nothing else does.
LEMMA QuietHands ==
  ASSUME HandsInv, UNCHANGED <<server, browser>>, NEW x \in Clients, NEW r,
         req' = [req EXCEPT ![x] = r], GoodReq(x, r), May(x, r) => May(x, req[x]),
         r.pc # "waiting", req[x].pc # "waiting",
         x[2] = "refresh" => r.pc # "idle" /\ req[x].pc # "idle"
  PROVE  HandsInv'
<1>1. StoreInv' BY DEF HandsInv, StoreInv, server, Issued
<1>2. BrowserInv' BY DEF HandsInv, BrowserInv, server, browser, Issued, MaybeIssued
<1>3. Grows BY SameGrows DEF server
<1>4. GoodReq(x, r)' BY <1>3, GoodKept DEF HandsInv
<1>5. ReqsInv' BY <1>3, <1>4, ReqKept DEF HandsInv
<1>6. WaitInv' BY WaitKept DEF HandsInv
<1>7. Unissued' = Unissued BY DEF Unissued, server
<1>8. Enough' BY <1>7, EnoughLeft DEF HandsInv
<1> QED BY <1>1, <1>2, <1>5, <1>6, <1>8 DEF HandsInv

\* What a request at one of its handler's program points is.
LEMMA SlotOf ==
  ASSUME ReqsInv, NEW x \in Clients
  PROVE  /\ x = <<x[1], x[2]>> /\ x[1] \in Tabs /\ x[2] \in Slots
         /\ req[x] \in Requests
         /\ req[x].pc \in {"loginUser", "loginMint", "403"} => x[2] = "login"
         /\ req[x].pc \in {"logoutFind", "logoutRevoke", "204"} => x[2] = "logout"
         /\ req[x].pc \in Found \cup {"refreshFind", "refreshMint", "401clear"} => x[2] \in Refreshes
         /\ req[x].pc \in {"sent", "waiting"} => x[2] \in Works
<1>1. x = <<x[1], x[2]>> /\ x[1] \in Tabs /\ x[2] \in Slots BY DEF Clients
<1>2. GoodReq(x, req[x]) BY DEF ReqsInv
<1> QED BY <1>1, <1>2 DEF ReqsInv, GoodReq, Slots, Refreshes, LoginOK, RefreshOK, LoginPcs,
           LogoutPcs, RefreshPcs, WorkPcs, Found

LEMMA GoodAt == ASSUME ReqsInv, NEW x \in Clients PROVE GoodReq(x, req[x])
  BY DEF ReqsInv

\* The slots are different slots.
LEMMA Apart ==
  /\ "login" \notin Refreshes /\ "logout" \notin Refreshes
  /\ "login" \notin Works /\ "logout" \notin Works
  /\ \A w \in Works : w \notin Refreshes
  BY SlotsAssumption DEF Refreshes

\* The same request further on.
At(x, pc) == [req[x] EXCEPT !.pc = pc]

LEMMA AtPc ==
  ASSUME ReqsInv, NEW x \in Clients, NEW pc \in ReqPcs
  PROVE  /\ At(x, pc).pc = pc
         /\ At(x, pc).cookie = req[x].cookie /\ At(x, pc).minted = req[x].minted
         /\ At(x, pc).retried = req[x].retried
         /\ Held(At(x, pc))
<1>1. Held(req[x]) BY GoodAt DEF GoodReq
<1>2. req[x] \in Requests BY <1>1 DEF Held
<1>3. At(x, pc) \in Requests BY <1>2 DEF At, Requests
<1>4. /\ At(x, pc).pc = pc
      /\ At(x, pc).cookie = req[x].cookie /\ At(x, pc).minted = req[x].minted
      /\ At(x, pc).retried = req[x].retried
  BY <1>2 DEF At, Requests
<1> QED BY <1>1, <1>3, <1>4 DEF Held

LEMMA GoesHands ==
  ASSUME HandsInv, UNCHANGED <<server, browser>>, NEW x \in Clients, NEW pc \in ReqPcs,
         Goes(x, pc), GoodReq(x, At(x, pc)), May(x, At(x, pc)) => May(x, req[x]),
         pc \notin {"idle", "waiting"}, req[x].pc \notin {"idle", "waiting"}
  PROVE  HandsInv'
<1>1. ReqsInv BY DEF HandsInv
<1>2. req' = [req EXCEPT ![x] = At(x, pc)] BY <1>1, PcOnly DEF At
<1>3. At(x, pc).pc = pc BY <1>1, AtPc
<1>4. At(x, pc).pc # "waiting" /\ At(x, pc).pc # "idle" BY <1>3
<1> HIDE DEF At
<1> QED BY <1>2, <1>4, QuietHands

LEMMA LoginUserHands ==
  ASSUME HandsInv, NEW x \in Clients, LoginUser(x) PROVE HandsInv'
<1>1. ReqsInv BY DEF HandsInv
<1>2. x[2] = "login" BY <1>1, SlotOf DEF LoginUser
<1>3. PICK pc \in {"401", "403", "loginMint"} : Goes(x, pc) BY DEF LoginUser
<1>4. pc \in ReqPcs BY DEF ReqPcs
<1>5. /\ At(x, pc).pc = pc /\ Held(At(x, pc)) BY <1>1, <1>4, AtPc
<1>6. GoodReq(x, At(x, pc))
  BY <1>2, <1>5, Apart DEF GoodReq, LoginOK, LoginPcs
<1>7. May(x, At(x, pc)) => May(x, req[x])
  BY <1>2, <1>5, Apart DEF May, LoginUser
<1> QED BY <1>3, <1>4, <1>6, <1>7, GoesHands DEF LoginUser

LEMMA RefreshFindHands ==
  ASSUME HandsInv, NEW x \in Clients, RefreshFind(x) PROVE HandsInv'
<1>1. ReqsInv BY DEF HandsInv
<1>2. x[2] \in Refreshes BY <1>1, SlotOf DEF RefreshFind
<1>3. PICK pc \in {"401", "401clear", "refreshUser"} :
        /\ Goes(x, pc)
        /\ pc = "401" => req[x].cookie = None
        /\ pc = "401clear" => req[x].cookie # None /\ ~Present(req[x].cookie)
        /\ pc = "refreshUser" => req[x].cookie # None
  BY DEF RefreshFind, Present
<1>4. pc \in ReqPcs BY DEF ReqPcs
<1>5. /\ At(x, pc).pc = pc /\ Held(At(x, pc)) /\ At(x, pc).cookie = req[x].cookie
  BY <1>1, <1>4, AtPc
<1>6. GoodReq(x, At(x, pc))
  BY <1>2, <1>3, <1>5, Apart DEF GoodReq, RefreshOK, RefreshPcs, Found
<1>7. May(x, At(x, pc)) => May(x, req[x])
  BY <1>2, <1>5, Apart DEF May, RefreshFind
<1> QED BY <1>3, <1>4, <1>6, <1>7, GoesHands DEF RefreshFind

LEMMA RefreshUserHands ==
  ASSUME HandsInv, NEW x \in Clients, RefreshUser(x) PROVE HandsInv'
<1>1. ReqsInv BY DEF HandsInv
<1>2. x[2] \in Refreshes BY <1>1, SlotOf DEF RefreshUser, Found
<1>3. PICK pc \in {"refreshRevoke", "refreshRefuse"} : Goes(x, pc) BY DEF RefreshUser
<1>4. pc \in ReqPcs BY DEF ReqPcs
<1>5. /\ At(x, pc).pc = pc /\ Held(At(x, pc)) /\ At(x, pc).cookie = req[x].cookie
  BY <1>1, <1>4, AtPc
<1>6. req[x].cookie # None
  BY <1>1, <1>2, GoodAt DEF GoodReq, RefreshOK, Found, RefreshUser
<1>7. GoodReq(x, At(x, pc))
  BY <1>2, <1>5, <1>6, Apart DEF GoodReq, RefreshOK, RefreshPcs, Found
<1>8. May(x, At(x, pc)) => May(x, req[x])
  BY <1>2, <1>5, Apart DEF May, RefreshUser, Found
<1> QED BY <1>3, <1>4, <1>7, <1>8, GoesHands DEF RefreshUser

LEMMA ServeHands ==
  ASSUME HandsInv, NEW x \in Clients, Serve(x) PROVE HandsInv'
<1>1. ReqsInv BY DEF HandsInv
<1>2. x[2] \in Works BY <1>1, SlotOf DEF Serve
<1>3. PICK pc \in {"200", "401"} : Goes(x, pc) BY DEF Serve
<1>4. pc \in ReqPcs BY DEF ReqPcs
<1>5. /\ At(x, pc).pc = pc /\ Held(At(x, pc)) /\ At(x, pc).retried = req[x].retried
  BY <1>1, <1>4, AtPc
<1>6. GoodReq(x, At(x, pc))
  BY <1>2, <1>5, Apart DEF GoodReq, WorkPcs
<1>7. May(x, At(x, pc)) => May(x, req[x])
  BY <1>2, <1>5, Apart DEF May, Serve
<1> QED BY <1>3, <1>4, <1>6, <1>7, GoesHands DEF Serve

LEMMA LogoutFindHands ==
  ASSUME HandsInv, NEW x \in Clients, LogoutFind(x) PROVE HandsInv'
<1>1. ReqsInv BY DEF HandsInv
<1>2. x[2] = "logout" BY <1>1, SlotOf DEF LogoutFind
<1>3. PICK pc \in {"401", "logoutRevoke", "204"} : Goes(x, pc) BY DEF LogoutFind
<1>4. pc \in ReqPcs BY DEF ReqPcs
<1>5. /\ At(x, pc).pc = pc /\ Held(At(x, pc)) BY <1>1, <1>4, AtPc
<1>6. GoodReq(x, At(x, pc))
  BY <1>2, <1>5, Apart DEF GoodReq, LogoutPcs
<1>7. May(x, At(x, pc)) => May(x, req[x])
  BY <1>2, <1>5, Apart DEF May
<1> QED BY <1>3, <1>4, <1>6, <1>7, GoesHands DEF LogoutFind

LEMMA RevokedRows ==
  ASSUME HandsInv, NEW x \in Clients, NEW pc, Revoke(x, pc)
  PROVE  /\ Grows /\ StoreInv' /\ BrowserInv' /\ Unissued' = Unissued
         /\ origin' = origin
         /\ \A k \in Tokens : token'[k] = IF k = req[x].cookie THEN "revoked" ELSE token[k]
<1>1. token \in [Tokens -> {"unissued", "live", "revoked", "expired"}] BY DEF HandsInv, StoreInv
<1>2. origin' = origin BY DEF Revoke
<1>3. \A k \in Tokens : token'[k] = IF k = req[x].cookie THEN "revoked" ELSE token[k]
  BY <1>1 DEF Revoke
<1>4. Grows BY <1>2, <1>3 DEF Grows
<1>5. \A k \in Tokens : k = req[x].cookie => token[k] # "unissued"
  BY NoTokenAssumption, GoodAt DEF HandsInv, GoodReq, Held, MaybeIssued, Issued
<1>6. Unissued' = Unissued BY <1>3, <1>5 DEF Unissued
<1>7. token' \in [Tokens -> {"unissued", "live", "revoked", "expired"}] BY <1>1 DEF Revoke
<1>8. \A k : Issued(k)' <=> Issued(k) BY <1>3, <1>5 DEF Issued
<1>9. StoreInv'
  BY <1>2, <1>7, <1>8 DEF HandsInv, StoreInv, Revoke, Issued
<1>10. BrowserInv'
  BY <1>8 DEF HandsInv, BrowserInv, Revoke, browser, MaybeIssued, Issued
<1> QED BY <1>2, <1>3, <1>4, <1>6, <1>9, <1>10

LEMMA RevokeHands ==
  ASSUME HandsInv, NEW x \in Clients, NEW pc \in ReqPcs, Revoke(x, pc),
         NEW r, r = At(x, pc), GoodReq(x, r)', May(x, r) => May(x, req[x]),
         pc \notin {"idle", "waiting"}, req[x].pc \notin {"idle", "waiting"}
  PROVE  HandsInv'
<1>1. Grows /\ StoreInv' /\ BrowserInv' /\ Unissued' = Unissued BY RevokedRows
<1>2. ReqsInv BY DEF HandsInv
<1>3. req' = [req EXCEPT ![x] = r] BY <1>2, PcOnly DEF At, Revoke
<1>4. r.pc = pc BY <1>2, AtPc
<1>5. ReqsInv' BY <1>1, <1>3, ReqKept DEF HandsInv
<1>6. WaitInv' BY <1>3, <1>4, WaitKept DEF HandsInv
<1>7. Enough' BY <1>1, <1>3, EnoughLeft DEF HandsInv
<1> QED BY <1>1, <1>5, <1>6, <1>7 DEF HandsInv

LEMMA RefreshRefuseHands ==
  ASSUME HandsInv, NEW x \in Clients, RefreshRefuse(x) PROVE HandsInv'
<1>1. ReqsInv BY DEF HandsInv
<1>2. x[2] \in Refreshes BY <1>1, SlotOf DEF RefreshRefuse, Found
<1>3. "401clear" \in ReqPcs BY DEF ReqPcs
<1>4. PICK r : r = At(x, "401clear") OBVIOUS
<1>5. /\ r.pc = "401clear" /\ Held(r) /\ r.cookie = req[x].cookie
  BY <1>1, <1>3, <1>4, AtPc
<1>6. req[x].cookie # None
  BY <1>1, <1>2, GoodAt DEF GoodReq, RefreshOK, Found, RefreshRefuse
<1>7. Revoke(x, "401clear") BY DEF RefreshRefuse
<1>8. Grows /\ \A k \in Tokens : token'[k] = IF k = req[x].cookie THEN "revoked" ELSE token[k]
  BY <1>7, RevokedRows
<1>9. Held(r)' BY <1>5, <1>8, IssuedKept DEF Held
<1>10. ~Present(r.cookie)'
  BY <1>5, <1>6, <1>8 DEF Present, Held, MaybeIssued, Issued
<1>11. GoodReq(x, r)'
  BY <1>2, <1>5, <1>6, <1>9, <1>10, Apart DEF GoodReq, RefreshOK, RefreshPcs, Found
<1>12. May(x, r) => May(x, req[x])
  BY <1>2, <1>5, Apart DEF May, Found
<1> QED BY <1>3, <1>4, <1>7, <1>11, <1>12, RevokeHands DEF RefreshRefuse

LEMMA RefreshRevokeHands ==
  ASSUME HandsInv, NEW x \in Clients, RefreshRevoke(x) PROVE HandsInv'
<1>1. ReqsInv BY DEF HandsInv
<1>2. x[2] \in Refreshes BY <1>1, SlotOf DEF RefreshRevoke, Found
<1>3. "refreshMint" \in ReqPcs BY DEF ReqPcs
<1>4. PICK r : r = At(x, "refreshMint") OBVIOUS
<1>5. /\ r.pc = "refreshMint" /\ Held(r) /\ r.cookie = req[x].cookie
  BY <1>1, <1>3, <1>4, AtPc
<1>6. req[x].cookie # None
  BY <1>1, <1>2, GoodAt DEF GoodReq, RefreshOK, Found, RefreshRevoke
<1>7. Revoke(x, "refreshMint") BY DEF RefreshRevoke
<1>8. Grows BY <1>7, RevokedRows
<1>9. Held(r)' BY <1>5, <1>8, IssuedKept DEF Held
<1>10. GoodReq(x, r)'
  BY <1>2, <1>5, <1>6, <1>9, Apart DEF GoodReq, RefreshOK, RefreshPcs, Found
<1>11. May(x, r) => May(x, req[x])
  BY <1>2 DEF May, Found, RefreshRevoke
<1> QED BY <1>3, <1>4, <1>7, <1>10, <1>11, RevokeHands DEF RefreshRevoke

LEMMA LogoutRevokeHands ==
  ASSUME HandsInv, NEW x \in Clients, LogoutRevoke(x) PROVE HandsInv'
<1>1. ReqsInv BY DEF HandsInv
<1>2. x[2] = "logout" BY <1>1, SlotOf DEF LogoutRevoke
<1>3. "204" \in ReqPcs BY DEF ReqPcs
<1>4. PICK r : r = At(x, "204") OBVIOUS
<1>5. r.pc = "204" /\ Held(r) BY <1>1, <1>3, <1>4, AtPc
<1>6. Revoke(x, "204") BY DEF LogoutRevoke
<1>7. Grows BY <1>6, RevokedRows
<1>8. Held(r)' BY <1>5, <1>7, IssuedKept DEF Held
<1>9. GoodReq(x, r)'
  BY <1>2, <1>5, <1>8, Apart DEF GoodReq, LogoutPcs
<1>10. May(x, r) => May(x, req[x])
  BY <1>2, Apart DEF May
<1> QED BY <1>3, <1>4, <1>6, <1>9, <1>10, RevokeHands DEF LogoutRevoke

\* The answer with the token just minted.
Answer(x) == [req[x] EXCEPT !.pc = "200", !.minted = FreshToken]

LEMMA MintedRows ==
  ASSUME HandsInv, NEW x \in Minters, NEW login, NEW from, Mint(x, login, from),
         login = FreshToken \/ Issued(login), from \in Tokens \cup {None}
  PROVE  /\ Grows /\ StoreInv' /\ BrowserInv'
         /\ FreshToken \in Unissued /\ Unissued' = Unissued \ {FreshToken}
         /\ origin'[FreshToken].login = login
         /\ \A k \in Tokens : /\ token'[k] = IF k = FreshToken THEN "live" ELSE token[k]
                              /\ k # FreshToken => origin'[k] = origin[k]
         /\ Issued(login)'
<1> DEFINE f == FreshToken
<1>1. f \in Tokens /\ token[f] = "unissued" BY Fresh DEF HandsInv
<1>2. f \in Unissued BY <1>1 DEF Unissued
<1> HIDE DEF f
<1>3. token' = [token EXCEPT ![f] = "live"] /\ origin' = [origin EXCEPT ![f] = [login |-> login, from |-> from]]
  BY DEF Mint, f
<1>4. /\ token \in [Tokens -> {"unissued", "live", "revoked", "expired"}]
      /\ origin \in [Tokens -> [login : Tokens \cup {None}, from : Tokens \cup {None}]]
  BY DEF HandsInv, StoreInv
<1>5. \A k \in Tokens : /\ token'[k] = IF k = f THEN "live" ELSE token[k]
                        /\ k # f => origin'[k] = origin[k]
  BY <1>3, <1>4
<1>6. origin'[f].login = login BY <1>1, <1>3, <1>4
<1>7. Grows BY <1>1, <1>5 DEF Grows
<1>8. Unissued' = Unissued \ {f} BY <1>1, <1>5 DEF Unissued
<1>9. \A k : Issued(k) => Issued(k)' BY <1>7 DEF Grows, Issued
<1>10. Issued(login)' BY <1>1, <1>5, <1>9 DEF Issued, f
<1>11. login \in Tokens BY <1>10 DEF Issued
<1>12. StoreInv'
  <2>1. token' \in [Tokens -> {"unissued", "live", "revoked", "expired"}] BY <1>3, <1>4
  <2>2. [login |-> login, from |-> from] \in [login : Tokens \cup {None}, from : Tokens \cup {None}]
    BY <1>11
  <2>3. origin' \in [Tokens -> [login : Tokens \cup {None}, from : Tokens \cup {None}]]
    BY <1>3, <1>4, <2>2
  <2>4. \A k \in Tokens : Issued(k)' => Issued(origin[k].login)'
    <3> SUFFICES ASSUME NEW k \in Tokens, Issued(k)' PROVE Issued(origin[k].login)' OBVIOUS
    <3>1. CASE k = f BY <1>6, <1>10, <3>1 DEF Issued
    <3>2. CASE k # f
      <4>1. Issued(k) BY <1>5, <3>2 DEF Issued
      <4>2. Issued(origin[k].login) BY <4>1 DEF HandsInv, StoreInv
      <4> QED BY <1>5, <1>7, <3>2, <4>2 DEF Issued, Grows
    <3> QED BY <3>1, <3>2
  <2>5. active' \in BOOLEAN BY DEF Mint, HandsInv, StoreInv
  <2> QED BY <2>1, <2>3, <2>4, <2>5 DEF StoreInv
<1>13. BrowserInv'
  BY <1>9 DEF HandsInv, BrowserInv, Mint, browser, MaybeIssued, Issued
<1> QED BY <1>2, <1>5, <1>6, <1>7, <1>8, <1>10, <1>12, <1>13 DEF f

LEMMA AnswerPc ==
  ASSUME ReqsInv, NEW x \in Clients, FreshToken \in Tokens
  PROVE  /\ Answer(x) \in Requests
         /\ Answer(x).pc = "200" /\ Answer(x).minted = FreshToken
         /\ Answer(x).cookie = req[x].cookie
<1>1. req[x] \in Requests BY DEF ReqsInv
<1> QED BY <1>1 DEF Answer, Requests, ReqPcs

LEMMA MintHands ==
  ASSUME HandsInv, NEW x \in Minters, x[2] \notin Works, NEW login, NEW from, Mint(x, login, from),
         login = FreshToken \/ Issued(login), from \in Tokens \cup {None},
         NEW r, r = Answer(x), GoodReq(x, r)', req[x].pc \notin {"idle", "waiting"}
  PROVE  HandsInv'
<1>1. /\ Grows /\ StoreInv' /\ BrowserInv'
      /\ FreshToken \in Unissued /\ Unissued' = Unissued \ {FreshToken}
  BY MintedRows
<1>2. ReqsInv /\ x \in Clients BY DEF HandsInv, Minters
<1>3. FreshToken \in Tokens BY <1>1 DEF Unissued
<1>4. r.pc = "200" BY <1>2, <1>3, AnswerPc
<1>5. req' = [req EXCEPT ![x] = r] BY <1>2 DEF Mint, Answer, ReqsInv
<1>6. ReqsInv' BY <1>1, <1>2, <1>5, ReqKept DEF HandsInv
<1>7. WaitInv' BY <1>2, <1>4, <1>5, WaitKept DEF HandsInv
<1>8. ~May(x, r) BY <1>4 DEF May, Found
<1>9. Enough' BY <1>1, <1>2, <1>5, <1>8, EnoughAfterMint DEF HandsInv
<1> QED BY <1>1, <1>6, <1>7, <1>9 DEF HandsInv

LEMMA LoginMintHands ==
  ASSUME HandsInv, NEW x \in Clients, LoginMint(x) PROVE HandsInv'
<1>1. ReqsInv BY DEF HandsInv
<1>2. x[2] = "login" BY <1>1, SlotOf DEF LoginMint
<1>3. x \in Minters BY <1>2 DEF Minters, May, LoginMint
<1>4. Mint(x, FreshToken, None) BY DEF LoginMint
<1>5. PICK f : f = FreshToken OBVIOUS
<1>6. /\ Grows /\ f \in Unissued /\ origin'[f].login = f /\ Issued(f)'
  BY <1>3, <1>4, <1>5, MintedRows
<1>7. PICK r : r = Answer(x) OBVIOUS
<1>8. /\ r \in Requests /\ r.pc = "200" /\ r.minted = f /\ r.cookie = req[x].cookie
  BY <1>1, <1>5, <1>6, <1>7, AnswerPc DEF Unissued
<1>9. MaybeIssued(req[x].cookie) BY <1>1, GoodAt DEF GoodReq, Held
<1>10. PICK c : c = req[x].cookie OBVIOUS
<1>11. MaybeIssued(c)' BY <1>6, <1>9, <1>10, IssuedKept
<1>12. Held(r)' BY <1>6, <1>8, <1>10, <1>11 DEF Held, MaybeIssued, Requests
<1>13. f # None BY <1>6, NoTokenAssumption DEF Unissued
<1>14. LoginOK(r)' BY <1>6, <1>8, <1>13 DEF LoginOK, LoginPcs
<1>15. GoodReq(x, r)' BY <1>2, <1>12, <1>14, Apart DEF GoodReq
<1> QED BY <1>2, <1>3, <1>4, <1>7, <1>15, MintHands, Apart DEF LoginMint

LEMMA RefreshMintHands ==
  ASSUME HandsInv, NEW x \in Clients, RefreshMint(x) PROVE HandsInv'
<1>1. ReqsInv BY DEF HandsInv
<1>2. x[2] \in Refreshes BY <1>1, SlotOf DEF RefreshMint
<1>3. x \in Minters BY <1>2 DEF Minters, May, RefreshMint
<1>4. PICK c : c = req[x].cookie OBVIOUS
<1>5. Issued(c)
  BY <1>1, <1>2, <1>4, GoodAt DEF GoodReq, RefreshOK, Held, MaybeIssued, RefreshMint
<1>6. Issued(origin[c].login) BY <1>5 DEF HandsInv, StoreInv, Issued
<1>7. Mint(x, origin[c].login, c) BY <1>4 DEF RefreshMint
<1>8. c \in Tokens \cup {None} BY <1>5 DEF Issued
<1>9. PICK f : f = FreshToken OBVIOUS
<1>10. PICK login : login = origin[c].login OBVIOUS
<1>11. /\ Grows /\ f \in Unissued /\ origin'[f].login = login
       /\ token'[f] = "live"
  <2>1. /\ Grows /\ FreshToken \in Unissued /\ origin'[FreshToken].login = login
        /\ \A k \in Tokens : token'[k] = IF k = FreshToken THEN "live" ELSE token[k]
    BY <1>3, <1>6, <1>7, <1>8, <1>10, MintedRows
  <2> QED BY <1>9, <2>1 DEF Unissued
<1>12. PICK r : r = Answer(x) OBVIOUS
<1>13. /\ r \in Requests /\ r.pc = "200" /\ r.minted = f /\ r.cookie = c
  BY <1>1, <1>4, <1>9, <1>11, <1>12, AnswerPc DEF Unissued
<1>14. MaybeIssued(c)' BY <1>5, <1>11, IssuedKept DEF MaybeIssued
<1>15. MaybeIssued(f)' BY <1>11 DEF MaybeIssued, Issued, Unissued
<1>16. Held(r)' BY <1>13, <1>14, <1>15 DEF Held, Requests
<1>17. f # None /\ c # None BY <1>5, <1>11, NoTokenAssumption DEF Unissued, Issued
<1>18. origin'[c] = origin[c] BY <1>5, <1>11 DEF Grows, Issued
<1>19. Kin(f, c)' BY <1>10, <1>11, <1>18 DEF Kin
<1>20. RefreshOK(r)' BY <1>13, <1>17, <1>19 DEF RefreshOK, RefreshPcs
<1>21. GoodReq(x, r)' BY <1>2, <1>16, <1>20, Apart DEF GoodReq
<1>22. x[2] \notin Works BY <1>2, Apart
<1> QED BY <1>3, <1>6, <1>7, <1>8, <1>12, <1>21, <1>22, MintHands DEF RefreshMint

-----------------------------------------------------------------------------
(* The steps of the browser and of time                                    *)

LEMMA SetActiveHands == ASSUME HandsInv, SetActive PROVE HandsInv'
<1>1. StoreInv' BY DEF HandsInv, StoreInv, SetActive, Issued
<1>2. BrowserInv' BY DEF HandsInv, BrowserInv, SetActive, browser, MaybeIssued, Issued
<1>3. Grows BY SameGrows DEF SetActive
<1>4. ReqsInv'
  BY DEF HandsInv, ReqsInv, SetActive, GoodReq, Held, LoginOK, RefreshOK, MaybeIssued, Issued,
     Kin, Present
<1>5. WaitInv' BY DEF HandsInv, WaitInv, SetActive
<1>6. Minters' \subseteq Minters /\ Unissued' = Unissued BY DEF Minters, Unissued, May, SetActive
<1> QED BY <1>1, <1>2, <1>4, <1>5, <1>6, EnoughKept DEF HandsInv

LEMMA ExpireTokenHands ==
  ASSUME HandsInv, NEW k \in Tokens, ExpireToken(k) PROVE HandsInv'
<1>1. token \in [Tokens -> {"unissued", "live", "revoked", "expired"}] BY DEF HandsInv, StoreInv
<1>2. /\ \A m \in Tokens : token'[m] = IF m = k THEN "expired" ELSE token[m]
      /\ origin' = origin /\ req' = req
  BY <1>1 DEF ExpireToken
<1>3. token[k] = "live" BY DEF ExpireToken
<1>4. \A m : Issued(m)' <=> Issued(m) BY <1>2, <1>3 DEF Issued
<1>5. Grows BY <1>2, <1>3 DEF Grows
<1>6. StoreInv'
  <2>1. token' \in [Tokens -> {"unissued", "live", "revoked", "expired"}] BY <1>1 DEF ExpireToken
  <2> QED BY <1>2, <1>4, <2>1 DEF HandsInv, StoreInv, ExpireToken, Issued
<1>7. BrowserInv' BY <1>4 DEF HandsInv, BrowserInv, ExpireToken, browser, MaybeIssued, Issued
<1>8. ReqsInv'
  <2>1. req' \in [Clients -> Requests] BY <1>2 DEF HandsInv, ReqsInv
  <2> QED BY <1>2, <1>5, <2>1, ReqsKept DEF HandsInv
<1>9. WaitInv' BY <1>2 DEF HandsInv, WaitInv
<1>10. Minters' \subseteq Minters BY <1>2 DEF Minters, May
<1>11. Unissued' = Unissued BY <1>2, <1>3 DEF Unissued
<1> QED BY <1>6, <1>7, <1>8, <1>9, <1>10, <1>11, EnoughKept DEF HandsInv

\* The browser keeps nothing but tokens that were issued.
LEMMA BrowserKept ==
  ASSUME HandsInv, UNCHANGED server, NEW k, cookie' = k, MaybeIssued(k), undelivered' \subseteq Tokens,
         overlapped' \subseteq Tokens, NEW t \in Tabs, NEW p \in Pages, MaybeIssued(p.refused),
         tab' = [tab EXCEPT ![t] = p]
  PROVE  BrowserInv'
<1>1. MaybeIssued(cookie)' BY DEF MaybeIssued, Issued, server
<1>2. tab \in [Tabs -> Pages] BY DEF HandsInv, BrowserInv
<1>3. tab' \in [Tabs -> Pages] BY <1>2
<1>4. \A u \in Tabs : MaybeIssued(tab[u].refused)'
  BY <1>2 DEF HandsInv, BrowserInv, MaybeIssued, Issued, server
<1> QED BY <1>1, <1>3, <1>4 DEF BrowserInv

LEMMA PageForms ==
  ASSUME NEW p \in Pages
  PROVE  /\ Holding(p) \in Pages /\ Holding(p).refused = p.refused /\ Holding(p).modals = p.modals
         /\ [p EXCEPT !.access = "expired"] \in Pages
         /\ [p EXCEPT !.access = "expired"].refused = p.refused
         /\ [p EXCEPT !.access = "expired"].modals = p.modals
         /\ [p EXCEPT !.timer = FALSE] \in Pages
         /\ [p EXCEPT !.timer = FALSE].refused = p.refused
         /\ [p EXCEPT !.timer = FALSE].modals = p.modals
         /\ AccountDisabled(p) \in Pages /\ AccountDisabled(p).refused = p.refused
         /\ AccountDisabled(p).modals = p.modals \cup {"disabled"}
         /\ LoggedIn(p) \in Pages /\ LoggedIn(p).refused = p.refused
         /\ LoggedIn(p).modals = p.modals \ {"expired"}
         /\ LoggedOut(p) \in Pages /\ LoggedOut(p).refused = p.refused
         /\ LoggedOut(p).modals = p.modals \ {"expired"}
         /\ Cleared(p) \in Pages /\ Cleared(p).refused = p.refused /\ Cleared(p).modals = {}
<1>1. Holding(p) \in Pages /\ Empty(p) \in Pages BY DEF Pages, Holding, Empty
<1>2. /\ Holding(p).refused = p.refused /\ Holding(p).modals = p.modals
      /\ Empty(p).refused = p.refused /\ Empty(p).modals = p.modals
  BY DEF Pages, Holding, Empty
<1> QED
  BY <1>1, <1>2 DEF Pages, AccountDisabled, LoggedIn, LoggedOut, Cleared

LEMMA ExpiredForm ==
  ASSUME NEW p \in Pages, NEW k \in Tokens \cup {None}
  PROVE  /\ SessionExpired(p, k) \in Pages /\ SessionExpired(p, k).refused = k
         /\ SessionExpired(p, k).modals = p.modals \cup {"expired"}
  BY DEF Pages, Empty, SessionExpired

LEMMA TabAt ==
  ASSUME HandsInv, NEW t \in Tabs
  PROVE  tab[t] \in Pages /\ MaybeIssued(tab[t].refused)
  BY DEF HandsInv, BrowserInv

LEMMA NoReqGood ==
  ASSUME NEW x \in Clients
  PROVE  /\ GoodReq(x, NoReq) /\ NoReq \in Requests /\ NoReq.pc = "idle"
         /\ NoReq.cookie = None /\ NoReq.minted = None /\ ~May(x, NoReq)
<1>1. NoReq \in Requests /\ NoReq.pc = "idle" /\ NoReq.cookie = None /\ NoReq.minted = None
  BY DEF NoReq, Requests, ReqPcs
<1>2. GoodReq(x, NoReq)
  BY <1>1 DEF GoodReq, Held, MaybeIssued, LoginOK, RefreshOK, LoginPcs, LogoutPcs, RefreshPcs,
     WorkPcs, Found
<1>3. ~May(x, NoReq) BY <1>1 DEF May, Found
<1> QED BY <1>1, <1>2, <1>3

\* One request changes, the rows do not.
LEMMA BrowserHands ==
  ASSUME HandsInv, UNCHANGED server, BrowserInv', NEW x \in Clients, NEW r,
         req' = [req EXCEPT ![x] = r], GoodReq(x, r), Enough',
         r.pc # "waiting", req[x].pc # "waiting", x[2] # "refresh"
  PROVE  HandsInv'
<1>1. StoreInv' BY DEF HandsInv, StoreInv, server, Issued
<1>2. Grows BY SameGrows DEF server
<1>3. GoodReq(x, r)' BY <1>2, GoodKept DEF HandsInv
<1>4. ReqsInv' BY <1>2, <1>3, ReqKept DEF HandsInv
<1>5. WaitInv' BY WaitKept DEF HandsInv
<1> QED BY <1>1, <1>4, <1>5 DEF HandsInv

\* A request ends.
LEMMA EndsHands ==
  ASSUME HandsInv, UNCHANGED server, BrowserInv', NEW x \in Clients,
         req' = [req EXCEPT ![x] = NoReq], req[x].pc # "waiting", x[2] # "refresh"
  PROVE  HandsInv'
<1>1. GoodReq(x, NoReq) /\ NoReq.pc = "idle" /\ ~May(x, NoReq) BY NoReqGood
<1>2. Unissued' = Unissued BY DEF Unissued, server
<1>3. Enough' BY <1>1, <1>2, EnoughLeft DEF HandsInv
<1> QED BY <1>1, <1>3, BrowserHands

LEMMA SameBrowser ==
  ASSUME HandsInv, UNCHANGED <<server, browser>> PROVE BrowserInv'
  BY DEF HandsInv, BrowserInv, server, browser, Issued, MaybeIssued

LEMMA LoginHands ==
  ASSUME HandsInv, NEW t \in Tabs, Login(t) PROVE HandsInv'
<1> DEFINE x == <<t, "login">>
<1>1. x \in Clients /\ x[2] = "login" BY DEF Clients, Slots
<1>2. PICK r : r = LoginRequest OBVIOUS
<1>3. r \in Requests /\ r.pc = "loginUser" /\ r.cookie = None /\ r.minted = None
  BY <1>2 DEF LoginRequest, NoReq, Requests, ReqPcs
<1>4. GoodReq(x, r)
  BY <1>1, <1>3, Apart DEF GoodReq, Held, MaybeIssued, LoginOK, LoginPcs
<1>5. req' = [req EXCEPT ![x] = r] /\ TokenLeft /\ UNCHANGED <<server, browser>>
  BY <1>2 DEF Login, Sends
<1>6. req[x].pc = "idle" BY DEF Login, Clicks, InFlight
<1>7. Unissued' = Unissued BY <1>5 DEF Unissued, server
<1> HIDE DEF x
<1>8. Enough' BY <1>1, <1>5, <1>7, EnoughAfterStart DEF HandsInv
<1> QED BY <1>1, <1>3, <1>4, <1>5, <1>6, <1>8, SameBrowser, BrowserHands

LEMMA LogoutHands ==
  ASSUME HandsInv, NEW t \in Tabs, Logout(t) PROVE HandsInv'
<1> DEFINE x == <<t, "logout">>
<1>1. x \in Clients /\ x[2] = "logout" BY DEF Clients, Slots
<1>2. PICK r : r = LogoutRequest(t) OBVIOUS
<1>3. MaybeIssued(cookie) BY DEF HandsInv, BrowserInv
<1>4. tab[t] \in Pages BY TabAt
<1>5. r \in Requests /\ r.pc = "logoutFind" /\ r.cookie = cookie /\ r.minted = None
  BY <1>2, <1>3, <1>4 DEF LogoutRequest, NoReq, Requests, ReqPcs, MaybeIssued, Issued, Pages
<1>6. GoodReq(x, r)
  BY <1>1, <1>3, <1>5, Apart DEF GoodReq, Held, MaybeIssued, LogoutPcs
<1>7. req' = [req EXCEPT ![x] = r] /\ UNCHANGED <<server, browser>>
  BY <1>2 DEF Logout, Sends
<1>8. req[x].pc = "idle" BY DEF Logout, Clicks, InFlight
<1>9. Unissued' = Unissued BY <1>7 DEF Unissued, server
<1> HIDE DEF x
<1>10. ~May(x, r) BY <1>1, Apart DEF May
<1>11. Enough' BY <1>1, <1>7, <1>9, <1>10, EnoughLeft DEF HandsInv
<1> QED BY <1>1, <1>5, <1>6, <1>7, <1>8, <1>11, SameBrowser, BrowserHands

LEMMA RequestHands ==
  ASSUME HandsInv, NEW t \in Tabs, NEW w \in Works, Request(t, w) PROVE HandsInv'
<1> DEFINE x == <<t, w>>
<1>1. x \in Clients /\ x[2] \in Works /\ x[2] # "refresh"
  BY SlotsAssumption DEF Clients, Slots
<1>2. PICK r : r = WorkRequest(t) OBVIOUS
<1>3. tab[t] \in Pages BY TabAt
<1>4. r \in Requests /\ r.pc = "sent" /\ r.cookie = None /\ r.minted = None
  BY <1>2, <1>3 DEF WorkRequest, NoReq, Requests, ReqPcs, Pages
<1>5. GoodReq(x, r)
  BY <1>1, <1>4, Apart DEF GoodReq, Held, MaybeIssued, WorkPcs
<1>6. req' = [req EXCEPT ![x] = r] /\ TokenLeft /\ UNCHANGED <<server, browser>>
  BY <1>2 DEF Request, Sends
<1>7. req[x].pc = "idle" BY DEF Request, Clicks, InFlight
<1>8. Unissued' = Unissued BY <1>6 DEF Unissued, server
<1> HIDE DEF x
<1>9. Enough' BY <1>1, <1>6, <1>8, EnoughAfterStart DEF HandsInv
<1> QED BY <1>1, <1>4, <1>5, <1>6, <1>7, <1>9, SameBrowser, BrowserHands

LEMMA IdleHands ==
  ASSUME HandsInv, UNCHANGED <<server, req>>, BrowserInv' PROVE HandsInv'
<1>1. StoreInv' BY DEF HandsInv, StoreInv, server, Issued
<1>2. Grows BY SameGrows DEF server
<1>3. ReqsInv'
  <2>1. req' \in [Clients -> Requests] BY DEF HandsInv, ReqsInv
  <2> QED BY <1>2, <2>1, ReqsKept DEF HandsInv
<1>4. WaitInv' BY DEF HandsInv, WaitInv
<1>5. Minters' \subseteq Minters /\ Unissued' = Unissued BY DEF Minters, Unissued, May, server
<1>6. Enough' BY <1>5, EnoughKept DEF HandsInv
<1> QED BY <1>1, <1>3, <1>4, <1>6 DEF HandsInv

LEMMA AccessExpiresHands ==
  ASSUME HandsInv, NEW t \in Tabs, AccessExpires(t) PROVE HandsInv'
<1>1. PICK p : p = [tab[t] EXCEPT !.access = "expired"] OBVIOUS
<1>2. tab[t] \in Pages /\ MaybeIssued(tab[t].refused) BY TabAt
<1>3. p \in Pages /\ p.refused = tab[t].refused BY <1>1, <1>2, PageForms
<1>4. tab' = [tab EXCEPT ![t] = p] BY <1>1 DEF AccessExpires
<1>5. MaybeIssued(cookie) /\ undelivered \subseteq Tokens /\ overlapped \subseteq Tokens
  BY DEF HandsInv, BrowserInv
<1>6. UNCHANGED <<server, req>> /\ cookie' = cookie /\ undelivered' = undelivered /\ overlapped' = overlapped
  BY DEF AccessExpires
<1>7. BrowserInv' BY <1>2, <1>3, <1>4, <1>5, <1>6, BrowserKept
<1> QED BY <1>6, <1>7, IdleHands

LEMMA SignInAgainHands ==
  ASSUME HandsInv, NEW t \in Tabs, SignInAgain(t) PROVE HandsInv'
<1>1. PICK p : p = Cleared(tab[t]) OBVIOUS
<1>2. tab[t] \in Pages /\ MaybeIssued(tab[t].refused) BY TabAt
<1>3. p \in Pages /\ p.refused = tab[t].refused BY <1>1, <1>2, PageForms
<1>4. tab' = [tab EXCEPT ![t] = p] BY <1>1 DEF SignInAgain
<1>5. MaybeIssued(cookie) /\ undelivered \subseteq Tokens /\ overlapped \subseteq Tokens
  BY DEF HandsInv, BrowserInv
<1>6. UNCHANGED <<server, req>> /\ cookie' = cookie /\ undelivered' = undelivered /\ overlapped' = overlapped
  BY DEF SignInAgain
<1>7. BrowserInv' BY <1>2, <1>3, <1>4, <1>5, <1>6, BrowserKept
<1> QED BY <1>6, <1>7, IdleHands

LEMMA RefreshGood ==
  ASSUME HandsInv, NEW x \in Clients, x[2] \in Refreshes
  PROVE  /\ GoodReq(x, Refresh) /\ Refresh.pc = "refreshFind" /\ Refresh.cookie = cookie
         /\ Refresh.minted = None
<1>1. MaybeIssued(cookie) BY DEF HandsInv, BrowserInv
<1>2. /\ Refresh \in Requests /\ Refresh.pc = "refreshFind" /\ Refresh.cookie = cookie
      /\ Refresh.minted = None
  BY <1>1 DEF Refresh, NoReq, Requests, ReqPcs, MaybeIssued, Issued
<1> QED BY <1>1, <1>2, Apart DEF GoodReq, Held, MaybeIssued, RefreshOK, RefreshPcs, Found

LEMMA OverlapsFit == ASSUME HandsInv PROVE Overlaps \subseteq Tokens
  BY DEF HandsInv, BrowserInv, StoreInv, Overlaps, MaybeIssued, Issued

LEMMA TimerFiresHands ==
  ASSUME HandsInv, NEW t \in Tabs, TimerFires(t) PROVE HandsInv'
<1> DEFINE x == <<t, "timer">>
<1>1. x \in Clients /\ x[2] = "timer" /\ x[2] \in Refreshes BY DEF Clients, Slots, Refreshes
<1>2. PICK r : r = Refresh OBVIOUS
<1>3. GoodReq(x, r) /\ r.pc = "refreshFind" BY <1>1, <1>2, RefreshGood
<1>4. PICK p : p = [tab[t] EXCEPT !.timer = FALSE] OBVIOUS
<1>5. tab[t] \in Pages /\ MaybeIssued(tab[t].refused) BY TabAt
<1>6. p \in Pages /\ p.refused = tab[t].refused BY <1>4, <1>5, PageForms
<1>7. /\ tab' = [tab EXCEPT ![t] = p] /\ req' = [req EXCEPT ![x] = r] /\ TokenLeft
      /\ UNCHANGED server /\ cookie' = cookie /\ undelivered' = undelivered
      /\ overlapped' = Overlaps
  BY <1>2, <1>4 DEF TimerFires, Sends
<1>8. MaybeIssued(cookie) /\ undelivered \subseteq Tokens BY DEF HandsInv, BrowserInv
<1>9. overlapped' \subseteq Tokens BY <1>7, OverlapsFit
<1>10. BrowserInv' BY <1>5, <1>6, <1>7, <1>8, <1>9, BrowserKept
<1>11. req[x].pc = "idle" BY DEF TimerFires, InFlight
<1>12. Unissued' = Unissued BY <1>7 DEF Unissued, server
<1> HIDE DEF x
<1>13. Enough' BY <1>1, <1>7, <1>12, EnoughAfterStart DEF HandsInv
<1> QED BY <1>1, <1>3, <1>7, <1>10, <1>11, <1>13, BrowserHands

\* The 401 that waits for a refresh.
Waiting(x) == [req[x] EXCEPT !.pc = "waiting", !.retried = TRUE]

LEMMA WaitingGood ==
  ASSUME ReqsInv, NEW x \in Clients, x[2] \in Works
  PROVE  /\ GoodReq(x, Waiting(x)) /\ Waiting(x).pc = "waiting" /\ Waiting(x).retried
<1>1. GoodReq(x, req[x]) BY GoodAt
<1>2. /\ Waiting(x) \in Requests /\ Waiting(x).pc = "waiting" /\ Waiting(x).retried
      /\ Waiting(x).cookie = req[x].cookie /\ Waiting(x).minted = req[x].minted
  BY <1>1 DEF GoodReq, Held, Waiting, Requests, ReqPcs
<1> QED BY <1>1, <1>2, Apart DEF GoodReq, Held, WorkPcs

LEMMA WorkWaitsHands ==
  ASSUME HandsInv, NEW t \in Tabs, NEW w \in Works, NEW x, x = <<t, w>>, NEW y, y = <<t, "refresh">>,
         req[x].pc = "401", ~req[x].retried,
         req' = [req EXCEPT ![x] = Waiting(x), ![y] = DoRefresh(t)],
         UNCHANGED <<server, cookie, undelivered, tab>>,
         overlapped' \in {overlapped, Overlaps}
  PROVE  HandsInv'
<1>1. /\ x \in Clients /\ x[2] \in Works /\ y \in Clients /\ y[2] \in Refreshes /\ x # y
      /\ x[1] = t /\ x[2] = w
  BY SlotsAssumption DEF Clients, Slots, Refreshes
<1>2. ReqsInv BY DEF HandsInv
<1>3. \A z \in Clients : req'[z] = IF z = y THEN DoRefresh(t) ELSE IF z = x THEN Waiting(x) ELSE req[z]
  BY <1>1, <1>2 DEF ReqsInv
<1>4. GoodReq(x, Waiting(x)) /\ Waiting(x).pc = "waiting" /\ Waiting(x).retried
  BY <1>1, <1>2, WaitingGood
<1>5. GoodReq(y, DoRefresh(t)) /\ DoRefresh(t).pc \notin {"idle", "waiting"}
  <2>1. CASE InFlight(y)
    <3>1. DoRefresh(t) = req[y] BY <2>1 DEF DoRefresh
    <3>2. GoodReq(y, req[y]) BY <1>1, <1>2, GoodAt
    <3> QED BY <1>1, <2>1, <3>1, <3>2 DEF InFlight, GoodReq, RefreshOK, RefreshPcs
  <2>2. CASE ~InFlight(y)
    <3>1. DoRefresh(t) = Refresh BY <2>2 DEF DoRefresh
    <3> QED BY <1>1, <3>1, RefreshGood
  <2> QED BY <2>1, <2>2
<1>6. StoreInv' BY DEF HandsInv, StoreInv, server, Issued
<1>7. overlapped' \subseteq Tokens BY OverlapsFit DEF HandsInv, BrowserInv
<1>8. BrowserInv' BY <1>7 DEF HandsInv, BrowserInv, server, Issued, MaybeIssued
<1>9. Grows BY SameGrows DEF server
<1>10. ReqsInv'
  <2>1. Waiting(x) \in Requests /\ DoRefresh(t) \in Requests BY <1>4, <1>5 DEF GoodReq, Held
  <2>2. req' \in [Clients -> Requests] BY <1>2, <2>1 DEF ReqsInv
  <2>3. ASSUME NEW z \in Clients PROVE req'[z] = req[z] \/ GoodReq(z, req[z])'
    <3>1. PICK r : r = (IF z = y THEN DoRefresh(t) ELSE Waiting(x)) OBVIOUS
    <3>2. CASE z \in {x, y}
      <4>1. GoodReq(z, r) BY <1>4, <1>5, <3>1, <3>2
      <4>2. GoodReq(z, r)' BY <1>9, <4>1, GoodKept DEF HandsInv
      <4>3. req'[z] = r BY <1>3, <3>1, <3>2
      <4> QED BY <4>2, <4>3 DEF GoodReq, Held, LoginOK, RefreshOK, MaybeIssued, Issued, Kin, Present
    <3>3. CASE z \notin {x, y} BY <1>3, <3>3
    <3> QED BY <3>2, <3>3
  <2> QED BY <1>9, <2>2, <2>3, ReqsKept DEF HandsInv
<1>11. WaitInv'
  <2> SUFFICES ASSUME NEW u \in Tabs
               PROVE  (\E v \in Works : req'[<<u, v>>].pc = "waiting") <=> req'[<<u, "refresh">>].pc # "idle"
    BY DEF WaitInv
  <2>1. \A v \in Works : <<u, v>> \in Clients /\ <<u, v>> # y
    BY SlotsAssumption DEF Clients, Slots
  <2>2. <<u, "refresh">> \in Clients /\ <<u, "refresh">> # x
    BY SlotsAssumption DEF Clients, Slots, Refreshes
  <2>3. CASE u = t
    <3>1. req'[<<u, w>>].pc = "waiting" BY <1>3, <1>4, <2>1, <2>3
    <3>2. req'[<<u, "refresh">>].pc # "idle" BY <1>3, <1>5, <2>2, <2>3
    <3> QED BY <3>1, <3>2
  <2>4. CASE u # t
    <3>1. \A v \in Works : req'[<<u, v>>] = req[<<u, v>>] BY <1>3, <2>1, <2>4
    <3>2. req'[<<u, "refresh">>] = req[<<u, "refresh">>] BY <1>3, <2>2, <2>4
    <3> QED BY <3>1, <3>2 DEF HandsInv, WaitInv
  <2> QED BY <2>3, <2>4
<1>12. Enough'
  <2>1. x \in Minters BY <1>1 DEF Minters, May
  <2>2. ~May(x, Waiting(x)) BY <1>1, <1>4, Apart DEF May
  <2>3. Minters' \subseteq (Minters \ {x}) \cup {y}
    BY <1>3, <2>2 DEF Minters, May
  <2>4. Unissued' = Unissued BY DEF Unissued, server
  <2> QED BY <2>1, <2>3, <2>4, EnoughAfterSwap DEF HandsInv
<1> QED BY <1>6, <1>8, <1>10, <1>11, <1>12 DEF HandsInv

LEMMA WorkAnsweredHands ==
  ASSUME HandsInv, NEW t \in Tabs, NEW w \in Works, WorkAnswered(t, w) PROVE HandsInv'
<1>1. PICK x : x = <<t, w>> OBVIOUS
<1>2. x \in Clients /\ x[2] \in Works /\ x[2] # "refresh"
  BY <1>1, SlotsAssumption DEF Clients, Slots
<1>3. UNCHANGED <<server, cookie, undelivered, tab>> /\ req[x].pc \in {"200", "401"}
  BY <1>1 DEF WorkAnswered
<1>4. CASE /\ req[x].pc = "401" /\ ~req[x].retried
           /\ req' = [req EXCEPT ![x].pc = "waiting", ![x].retried = TRUE,
                                 ![<<t, "refresh">>] = DoRefresh(t)]
           /\ overlapped' = IF InFlight(<<t, "refresh">>) THEN overlapped ELSE Overlaps
  <2>1. req' = [req EXCEPT ![x] = Waiting(x), ![<<t, "refresh">>] = DoRefresh(t)]
    BY <1>2, <1>4 DEF Waiting, HandsInv, ReqsInv
  <2>2. overlapped' \in {overlapped, Overlaps} BY <1>4
  <2> QED BY <1>1, <1>3, <1>4, <2>1, <2>2, WorkWaitsHands
<1>5. CASE req' = [req EXCEPT ![x] = NoReq] /\ UNCHANGED overlapped
  <2>1. BrowserInv' BY <1>3, <1>5, SameBrowser DEF browser
  <2> QED BY <1>2, <1>3, <1>5, <2>1, EndsHands
<1> QED BY <1>1, <1>4, <1>5 DEF WorkAnswered

\* What becomes of the requests when the tab's refresh is over.
LEMMA Resolved ==
  ASSUME HandsInv, NEW t \in Tabs, Resolve(t, Resent) \/ Resolve(t, Rejected)
  PROVE  /\ req' \in [Clients -> Requests]
         /\ \A x \in Clients :
              /\ req'[x] = req[x] \/ (GoodReq(x, req'[x]) /\ req'[x].pc # "waiting")
              /\ May(x, req'[x]) => May(x, req[x])
              /\ x = <<t, "refresh">> => req'[x] = NoReq
              /\ x \in {t} \X Works => req'[x].pc # "waiting"
              /\ x \notin {t} \X Works /\ x # <<t, "refresh">> => req'[x] = req[x]
<1>1. ReqsInv BY DEF HandsInv
<1>2. \A x \in {t} \X Works : x \in Clients /\ x[2] \in Works /\ x # <<t, "refresh">>
  BY SlotsAssumption DEF Clients, Slots
<1>3. Waiters(t) = {x \in {t} \X Works : req[x].pc = "waiting"} BY DEF Waiters
<1>4. \A x \in Waiters(t) :
        /\ GoodReq(x, Resent(x)) /\ Resent(x).pc # "waiting"
        /\ May(x, Resent(x)) => May(x, req[x])
  <2> SUFFICES ASSUME NEW x \in Waiters(t)
               PROVE  /\ GoodReq(x, Resent(x)) /\ Resent(x).pc # "waiting"
                      /\ May(x, Resent(x)) => May(x, req[x])
    OBVIOUS
  <2>1. x \in Clients /\ x[2] \in Works BY <1>2, <1>3
  <2>2. GoodReq(x, req[x]) BY <1>1, <2>1, GoodAt
  <2>3. /\ Resent(x) \in Requests /\ Resent(x).pc = "sent" /\ Resent(x).retried = req[x].retried
        /\ Resent(x).cookie = req[x].cookie /\ Resent(x).minted = req[x].minted
    BY <2>2 DEF GoodReq, Held, Resent, Requests, ReqPcs
  <2>4. GoodReq(x, Resent(x)) BY <2>1, <2>2, <2>3, Apart DEF GoodReq, Held, WorkPcs
  <2>5. May(x, Resent(x)) => May(x, req[x]) BY <1>3, <2>1, <2>3, Apart DEF May
  <2> QED BY <2>3, <2>4, <2>5
<1>5. \A x \in Clients : GoodReq(x, NoReq) /\ NoReq.pc = "idle" /\ ~May(x, NoReq)
  BY NoReqGood
<1>6. DOMAIN req = Clients BY <1>1 DEF ReqsInv
<1>7. \A x \in Waiters(t) : x \in Clients BY <1>2, <1>3
<1>8. PICK tag \in {"resent", "rejected"} :
        IF tag = "resent" THEN Resolve(t, Resent) ELSE Resolve(t, Rejected)
  BY DEF Resolve
<1> DEFINE new(x) == IF tag = "resent" THEN Resent(x) ELSE NoReq
<1>9. req' = [x \in Clients |-> IF x = <<t, "refresh">> THEN NoReq
                                ELSE IF x \in Waiters(t) THEN new(x) ELSE req[x]]
  BY <1>6, <1>8 DEF Resolve, Rejected
<1>10. \A x \in Waiters(t) : /\ GoodReq(x, new(x)) /\ new(x).pc # "waiting"
                             /\ May(x, new(x)) => May(x, req[x])
  BY <1>4, <1>5, <1>7
<1> HIDE DEF new
<1>11. \A x \in Clients : req'[x] = IF x = <<t, "refresh">> THEN NoReq
                                    ELSE IF x \in Waiters(t) THEN new(x) ELSE req[x]
  BY <1>9
<1>12. req' \in [Clients -> Requests]
  <2>1. \A x \in Clients : req[x] \in Requests BY <1>1 DEF ReqsInv
  <2>2. \A x \in Waiters(t) : new(x) \in Requests BY <1>10 DEF GoodReq, Held
  <2>3. NoReq \in Requests BY DEF NoReq, Requests, ReqPcs
  <2> QED BY <1>9, <2>1, <2>2, <2>3
<1>13. ASSUME NEW x \in Clients
       PROVE  /\ req'[x] = req[x] \/ (GoodReq(x, req'[x]) /\ req'[x].pc # "waiting")
              /\ May(x, req'[x]) => May(x, req[x])
              /\ x = <<t, "refresh">> => req'[x] = NoReq
              /\ x \in {t} \X Works => req'[x].pc # "waiting"
              /\ x \notin {t} \X Works /\ x # <<t, "refresh">> => req'[x] = req[x]
  <2>1. CASE x = <<t, "refresh">>
    <3>1. req'[x] = NoReq BY <1>11, <2>1
    <3>2. x \notin {t} \X Works BY <1>2, <2>1
    <3> QED BY <1>5, <2>1, <3>1, <3>2
  <2>2. CASE x \in Waiters(t)
    <3>1. x # <<t, "refresh">> /\ x \in {t} \X Works BY <1>2, <1>3, <2>2
    <3>2. req'[x] = new(x) BY <1>11, <2>2, <3>1
    <3> QED BY <1>10, <2>2, <3>1, <3>2
  <2>3. CASE x # <<t, "refresh">> /\ x \notin Waiters(t)
    <3>1. req'[x] = req[x] BY <1>11, <2>3
    <3> QED BY <1>3, <2>3, <3>1
  <2> QED BY <2>1, <2>2, <2>3
<1> QED BY <1>12, <1>13

LEMMA ResolveHands ==
  ASSUME HandsInv, UNCHANGED server, BrowserInv', NEW t \in Tabs,
         Resolve(t, Resent) \/ Resolve(t, Rejected)
  PROVE  HandsInv'
<1>1. /\ req' \in [Clients -> Requests]
      /\ \A x \in Clients :
           /\ req'[x] = req[x] \/ (GoodReq(x, req'[x]) /\ req'[x].pc # "waiting")
           /\ May(x, req'[x]) => May(x, req[x])
           /\ x = <<t, "refresh">> => req'[x] = NoReq
           /\ x \in {t} \X Works => req'[x].pc # "waiting"
           /\ x \notin {t} \X Works /\ x # <<t, "refresh">> => req'[x] = req[x]
  BY Resolved
<1>2. StoreInv' BY DEF HandsInv, StoreInv, server, Issued
<1>3. Grows BY SameGrows DEF server
<1>4. ReqsInv'
  <2>1. ASSUME NEW x \in Clients PROVE req'[x] = req[x] \/ GoodReq(x, req[x])'
    <3>1. PICK r : r = req'[x] OBVIOUS
    <3>2. CASE GoodReq(x, r)
      <4>1. GoodReq(x, r)' BY <1>3, <3>2, GoodKept DEF HandsInv
      <4> QED BY <3>1, <4>1 DEF GoodReq, Held, LoginOK, RefreshOK, MaybeIssued, Issued, Kin, Present
    <3> QED BY <1>1, <3>1, <3>2
  <2> QED BY <1>1, <1>3, <2>1, ReqsKept DEF HandsInv
<1>5. WaitInv'
  <2> SUFFICES ASSUME NEW u \in Tabs
               PROVE  (\E v \in Works : req'[<<u, v>>].pc = "waiting") <=> req'[<<u, "refresh">>].pc # "idle"
    BY DEF WaitInv
  <2>1. \A v \in Works : <<u, v>> \in Clients BY DEF Clients, Slots
  <2>2. <<u, "refresh">> \in Clients BY DEF Clients, Slots, Refreshes
  <2>3. CASE u = t
    <3>1. req'[<<u, "refresh">>].pc = "idle" BY <1>1, <2>2, <2>3 DEF NoReq
    <3>2. \A v \in Works : req'[<<u, v>>].pc # "waiting" BY <1>1, <2>1, <2>3
    <3> QED BY <3>1, <3>2
  <2>4. CASE u # t
    <3>1. \A v \in Works : req'[<<u, v>>] = req[<<u, v>>] BY <1>1, <2>1, <2>4
    <3>2. req'[<<u, "refresh">>] = req[<<u, "refresh">>] BY <1>1, <2>2, <2>4
    <3> QED BY <3>1, <3>2 DEF HandsInv, WaitInv
  <2> QED BY <2>3, <2>4
<1>6. Enough'
  <2>1. Minters' \subseteq Minters BY <1>1 DEF Minters, May
  <2>2. Unissued' = Unissued BY DEF Unissued, server
  <2> QED BY <2>1, <2>2, EnoughKept DEF HandsInv
<1> QED BY <1>2, <1>4, <1>5, <1>6 DEF HandsInv

\* An answer is what the request carries, and what it got.
LEMMA CarriedIssued ==
  ASSUME HandsInv, NEW x \in Clients
  PROVE  MaybeIssued(req[x].cookie) /\ MaybeIssued(req[x].minted)
  BY GoodAt DEF HandsInv, GoodReq, Held

LEMMA RefreshedHands ==
  ASSUME HandsInv, NEW t \in Tabs, NEW slot \in Refreshes, Refreshed(t, slot) PROVE HandsInv'
<1>1. PICK x : x = <<t, slot>> OBVIOUS
<1>2. x \in Clients /\ x[2] = slot BY <1>1 DEF Clients, Slots
<1>3. PICK p : p = Holding(tab[t]) OBVIOUS
<1>4. tab[t] \in Pages /\ MaybeIssued(tab[t].refused) BY TabAt
<1>5. p \in Pages /\ p.refused = tab[t].refused BY <1>3, <1>4, PageForms
<1>6. /\ UNCHANGED server /\ cookie' = req[x].minted /\ undelivered' = undelivered
      /\ overlapped' = overlapped /\ tab' = [tab EXCEPT ![t] = p] /\ req[x].pc = "200"
  BY <1>1, <1>3 DEF Refreshed
<1>7. MaybeIssued(req[x].minted) BY <1>2, CarriedIssued
<1>8. undelivered \subseteq Tokens /\ overlapped \subseteq Tokens BY DEF HandsInv, BrowserInv
<1>9. BrowserInv' BY <1>4, <1>5, <1>6, <1>7, <1>8, BrowserKept
<1>10. CASE slot = "refresh"
  <2>1. Resolve(t, Resent) BY <1>10 DEF Refreshed
  <2> QED BY <1>6, <1>9, <2>1, ResolveHands
<1>11. CASE slot # "refresh"
  <2>1. req' = [req EXCEPT ![x] = NoReq] BY <1>1, <1>11 DEF Refreshed
  <2> QED BY <1>2, <1>6, <1>9, <1>11, <2>1, EndsHands
<1> QED BY <1>10, <1>11

LEMMA ClearedFits ==
  ASSUME HandsInv, NEW x PROVE MaybeIssued(ClearedBy(x))
  BY DEF HandsInv, BrowserInv, ClearedBy, MaybeIssued

LEMMA RefreshRefusedHands ==
  ASSUME HandsInv, NEW t \in Tabs, RefreshRefused(t) PROVE HandsInv'
<1>1. PICK x : x = <<t, "refresh">> OBVIOUS
<1>2. x \in Clients BY <1>1 DEF Clients, Slots, Refreshes
<1>3. PICK p : p = SessionExpired(tab[t], req[x].cookie) OBVIOUS
<1>4. tab[t] \in Pages BY TabAt
<1>5. MaybeIssued(req[x].cookie) BY <1>2, CarriedIssued
<1>6. p \in Pages /\ p.refused = req[x].cookie
  BY <1>3, <1>4, <1>5, ExpiredForm DEF MaybeIssued, Issued
<1>7. /\ UNCHANGED server /\ cookie' = ClearedBy(x) /\ undelivered' = undelivered
      /\ overlapped' = overlapped /\ tab' = [tab EXCEPT ![t] = p] /\ Resolve(t, Rejected)
  BY <1>1, <1>3 DEF RefreshRefused
<1>8. MaybeIssued(ClearedBy(x)) BY ClearedFits
<1>9. undelivered \subseteq Tokens /\ overlapped \subseteq Tokens BY DEF HandsInv, BrowserInv
<1>10. BrowserInv' BY <1>5, <1>6, <1>7, <1>8, <1>9, BrowserKept
<1> QED BY <1>7, <1>10, ResolveHands

\* The browser gets another cookie at most.
LEMMA CookieKept ==
  ASSUME HandsInv, UNCHANGED server, NEW k, cookie' = k, MaybeIssued(k), undelivered' = undelivered,
         overlapped' = overlapped, tab' = tab
  PROVE  BrowserInv'
  BY DEF HandsInv, BrowserInv, MaybeIssued, Issued, server

LEMMA TimerRefusedHands ==
  ASSUME HandsInv, NEW t \in Tabs, TimerRefused(t) PROVE HandsInv'
<1>1. PICK x : x = <<t, "timer">> OBVIOUS
<1>2. x \in Clients /\ x[2] # "refresh" BY <1>1 DEF Clients, Slots, Refreshes
<1>3. /\ UNCHANGED server /\ cookie' = ClearedBy(x) /\ undelivered' = undelivered
      /\ overlapped' = overlapped /\ tab' = tab /\ req' = [req EXCEPT ![x] = NoReq]
      /\ req[x].pc \in {"401", "401clear"}
  BY <1>1 DEF TimerRefused
<1>4. BrowserInv' BY <1>3, ClearedFits, CookieKept
<1> QED BY <1>2, <1>3, <1>4, EndsHands

LEMMA LoginAnsweredHands ==
  ASSUME HandsInv, NEW t \in Tabs, LoginAnswered(t) PROVE HandsInv'
<1>1. PICK x : x = <<t, "login">> OBVIOUS
<1>2. x \in Clients /\ x[2] # "refresh" BY <1>1 DEF Clients, Slots, Refreshes
<1>3. tab[t] \in Pages /\ MaybeIssued(tab[t].refused) BY TabAt
<1>4. /\ UNCHANGED server /\ undelivered' = undelivered /\ overlapped' = overlapped
      /\ req' = [req EXCEPT ![x] = NoReq] /\ req[x].pc # "waiting"
  BY <1>1 DEF LoginAnswered
<1>5. MaybeIssued(cookie) /\ undelivered \subseteq Tokens /\ overlapped \subseteq Tokens
  BY DEF HandsInv, BrowserInv
<1>6. CASE /\ cookie' = req[x].minted
           /\ tab' = [tab EXCEPT ![t] = LoggedIn(@)]
  <2>1. PICK p : p = LoggedIn(tab[t]) OBVIOUS
  <2>2. p \in Pages /\ p.refused = tab[t].refused BY <1>3, <2>1, PageForms
  <2>3. tab' = [tab EXCEPT ![t] = p] BY <1>6, <2>1
  <2>4. MaybeIssued(req[x].minted) BY <1>2, CarriedIssued
  <2>5. BrowserInv' BY <1>3, <1>4, <1>5, <1>6, <2>2, <2>3, <2>4, BrowserKept
  <2> QED BY <1>2, <1>4, <2>5, EndsHands
<1>7. CASE /\ cookie' = cookie
           /\ tab' = [tab EXCEPT ![t] = AccountDisabled(@)]
  <2>1. PICK p : p = AccountDisabled(tab[t]) OBVIOUS
  <2>2. p \in Pages /\ p.refused = tab[t].refused BY <1>3, <2>1, PageForms
  <2>3. tab' = [tab EXCEPT ![t] = p] BY <1>7, <2>1
  <2>4. BrowserInv' BY <1>3, <1>4, <1>5, <1>7, <2>2, <2>3, BrowserKept
  <2> QED BY <1>2, <1>4, <2>4, EndsHands
<1>8. CASE UNCHANGED <<cookie, tab>>
  <2>1. BrowserInv' BY <1>4, <1>5, <1>8, CookieKept
  <2> QED BY <1>2, <1>4, <2>1, EndsHands
<1> QED BY <1>1, <1>6, <1>7, <1>8 DEF LoginAnswered

LEMMA LogoutAnsweredHands ==
  ASSUME HandsInv, NEW t \in Tabs, LogoutAnswered(t) PROVE HandsInv'
<1>1. PICK x : x = <<t, "logout">> OBVIOUS
<1>2. x \in Clients /\ x[2] # "refresh" BY <1>1 DEF Clients, Slots, Refreshes
<1>3. tab[t] \in Pages /\ MaybeIssued(tab[t].refused) BY TabAt
<1>4. PICK p : p = LoggedOut(tab[t]) OBVIOUS
<1>5. p \in Pages /\ p.refused = tab[t].refused BY <1>3, <1>4, PageForms
<1>6. PICK k : k = (IF req[x].pc = "204" THEN None ELSE cookie) OBVIOUS
<1>7. /\ UNCHANGED server /\ undelivered' = undelivered /\ overlapped' = overlapped
      /\ req' = [req EXCEPT ![x] = NoReq] /\ req[x].pc # "waiting"
      /\ cookie' = k /\ tab' = [tab EXCEPT ![t] = p]
  BY <1>1, <1>4, <1>6 DEF LogoutAnswered
<1>8. MaybeIssued(k) /\ undelivered \subseteq Tokens /\ overlapped \subseteq Tokens
  BY <1>6 DEF HandsInv, BrowserInv, MaybeIssued
<1>9. BrowserInv' BY <1>3, <1>5, <1>7, <1>8, BrowserKept
<1> QED BY <1>2, <1>7, <1>9, EndsHands

LEMMA LoseHands ==
  ASSUME HandsInv, NEW t \in Tabs, NEW slot \in Slots, Lose(t, slot) PROVE HandsInv'
<1>1. PICK x : x = <<t, slot>> OBVIOUS
<1>2. x \in Clients /\ x[2] = slot BY <1>1 DEF Clients
<1>3. /\ UNCHANGED server /\ cookie' = cookie /\ overlapped' = overlapped /\ req[x].pc # "waiting"
      /\ undelivered' = undelivered \cup ({req[x].minted} \ {None})
      /\ tab' = IF slot = "logout" THEN [tab EXCEPT ![t] = LoggedOut(@)] ELSE tab
  BY <1>1 DEF Lose
<1>4. PICK p : p = (IF slot = "logout" THEN LoggedOut(tab[t]) ELSE tab[t]) OBVIOUS
<1>5. tab[t] \in Pages /\ MaybeIssued(tab[t].refused) BY TabAt
<1>6. p \in Pages /\ p.refused = tab[t].refused BY <1>4, <1>5, PageForms
<1>7. tab' = [tab EXCEPT ![t] = p]
  BY <1>3, <1>4 DEF HandsInv, BrowserInv
<1>8. MaybeIssued(cookie) /\ undelivered' \subseteq Tokens /\ overlapped \subseteq Tokens
  BY <1>2, <1>3, CarriedIssued DEF HandsInv, BrowserInv, MaybeIssued, Issued
<1>9. BrowserInv' BY <1>3, <1>5, <1>6, <1>7, <1>8, BrowserKept
<1>10. CASE slot = "refresh"
  <2>1. Resolve(t, Rejected) BY <1>10 DEF Lose
  <2> QED BY <1>3, <1>9, <2>1, ResolveHands
<1>11. CASE slot # "refresh"
  <2>1. req' = [req EXCEPT ![x] = NoReq] BY <1>1, <1>11 DEF Lose
  <2> QED BY <1>2, <1>3, <1>9, <1>11, <2>1, EndsHands
<1> QED BY <1>10, <1>11

-----------------------------------------------------------------------------
(* Every step                                                              *)

LEMMA InitHands == ASSUME Init PROVE HandsInv
<1>1. req = [x \in Clients |-> NoReq] BY DEF Init, Clients
<1>2. StoreInv BY DEF Init, StoreInv, Issued
<1>3. NewTab \in Pages /\ NewTab.refused = None BY DEF NewTab, Pages
<1>4. BrowserInv BY <1>3 DEF Init, BrowserInv, MaybeIssued
<1>5. ReqsInv
  <2>1. NoReq \in Requests BY DEF NoReq, Requests, ReqPcs
  <2> QED BY <1>1, <2>1, NoReqGood DEF ReqsInv
<1>6. WaitInv
  <2>1. \A t \in Tabs : /\ <<t, "refresh">> \in Clients
                        /\ \A w \in Works : <<t, w>> \in Clients
    BY DEF Clients, Slots, Refreshes
  <2> QED BY <1>1, <2>1 DEF WaitInv, NoReq
<1>7. Enough
  <2>1. Minters = {} BY <1>1, NoReqGood DEF Minters
  <2>2. Cardinality({}) = 0 BY FS_EmptySet
  <2> QED BY <2>1, <2>2, Finite DEF Enough
<1> QED BY <1>2, <1>4, <1>5, <1>6, <1>7 DEF HandsInv

LEMMA ServerHands ==
  ASSUME HandsInv, NEW x \in Tabs \X Slots, ServerStep(x) PROVE HandsInv'
<1> x \in Clients BY DEF Clients
<1> QED
  BY LoginUserHands, LoginMintHands, ServeHands, RefreshFindHands, RefreshUserHands,
     RefreshRefuseHands, RefreshRevokeHands, RefreshMintHands, LogoutFindHands, LogoutRevokeHands
  DEF ServerStep

LEMMA ArrivesHands ==
  ASSUME HandsInv, NEW t \in Tabs, NEW slot \in Slots, Arrives(t, slot) PROVE HandsInv'
  BY WorkAnsweredHands, RefreshedHands, RefreshRefusedHands, TimerRefusedHands,
     LoginAnsweredHands, LogoutAnsweredHands
  DEF Arrives

LEMMA StillHands == ASSUME HandsInv, UNCHANGED vars PROVE HandsInv'
<1>1. UNCHANGED <<server, browser>> /\ UNCHANGED <<server, req>> BY DEF vars
<1> QED BY <1>1, SameBrowser, IdleHands

LEMMA HandsStep == ASSUME HandsInv, [Next]_vars PROVE HandsInv'
<1>1. CASE UNCHANGED vars BY <1>1, StillHands
<1>2. CASE Next
  BY <1>2, ServerHands, ArrivesHands, LoginHands, LogoutHands, SignInAgainHands, RequestHands,
     TimerFiresHands, AccessExpiresHands, LoseHands, SetActiveHands, ExpireTokenHands
  DEF Next
<1> QED BY <1>1, <1>2

LEMMA HandsCorrect == Spec => []HandsInv
<1>1. Init => HandsInv BY InitHands
<1>2. HandsInv /\ [Next]_vars => HandsInv' BY HandsStep
<1> QED BY <1>1, <1>2, PTL DEF Spec

LEMMA HandsType == ASSUME HandsInv PROVE TypeOK
<1>1. /\ active \in BOOLEAN
      /\ token \in [Tokens -> {"unissued", "live", "revoked", "expired"}]
      /\ origin \in [Tokens -> [login : Tokens \cup {None}, from : Tokens \cup {None}]]
  BY DEF HandsInv, StoreInv
<1>2. /\ cookie \in Tokens \cup {None} /\ undelivered \subseteq Tokens /\ overlapped \subseteq Tokens
      /\ tab \in [Tabs -> Pages]
  BY DEF HandsInv, BrowserInv, MaybeIssued, Issued
<1>3. req \in [Tabs \X Slots -> Requests] BY DEF HandsInv, ReqsInv, Clients
<1>4. \A t \in Tabs : Waiters(t) # {} <=> InFlight(<<t, "refresh">>)
  <2> SUFFICES ASSUME NEW t \in Tabs
               PROVE  Waiters(t) # {} <=> InFlight(<<t, "refresh">>)
    OBVIOUS
  <2>1. ASSUME NEW w \in Works, req[<<t, w>>].pc = "waiting" PROVE Waiters(t) # {}
    <3>1. <<t, w>> \in Waiters(t) BY <2>1 DEF Waiters
    <3> QED BY <3>1
  <2>2. ASSUME NEW x \in Waiters(t) PROVE \E w \in Works : req[<<t, w>>].pc = "waiting"
    <3>1. PICK w \in Works : x = <<t, w>> BY DEF Waiters
    <3> QED BY <3>1 DEF Waiters
  <2> QED BY <2>1, <2>2 DEF HandsInv, WaitInv, InFlight
<1> QED BY <1>1, <1>2, <1>3, <1>4 DEF TypeOK, Pages, Requests

\* The state keeps its shape, and requests of a tab wait exactly while the one
\* refresh they share is in flight: no request is forgotten by a refresh that
\* ends, however it ends (doRefresh and the interceptor of lib/api.ts).
THEOREM SessionsTypeCorrect == Spec => []TypeOK
<1>1. HandsInv => TypeOK BY HandsType
<1> QED BY <1>1, HandsCorrect, PTL

\* A token a refresh was refused for is dead, and stays dead: no row comes back
\* to life, whoever activates the user again (postRefresh, setActive).
THEOREM RefusedIsDeadCorrect == Spec => []RefusedIsDead
<1>1. HandsInv => RefusedIsDead
  <2> SUFFICES ASSUME HandsInv, NEW x \in Tabs \X Refreshes, req[x].pc = "401clear"
               PROVE  ~Present(req[x].cookie)
    BY DEF RefusedIsDead
  <2>1. x \in Clients /\ x[2] \in Refreshes BY DEF Clients, Slots
  <2> QED BY <2>1, GoodAt DEF HandsInv, GoodReq, RefreshOK
<1> QED BY <1>1, HandsCorrect, PTL

-----------------------------------------------------------------------------
(* One login through a step                                                *)

\* A step mints no token of the login.
NoneFor(login) ==
  \A k \in Tokens : token[k] = "unissued" /\ token'[k] = "live" => origin'[k].login # login

LEMMA OfKept ==
  ASSUME Grows, NEW k, MaybeIssued(k), NEW login PROVE Of(k, login)' <=> Of(k, login)
  BY DEF Grows, MaybeIssued, Issued, Of

LEMMA LiveShrinks ==
  ASSUME Grows, NEW login, NoneFor(login) PROVE LiveOf(login)' \subseteq LiveOf(login)
<1> SUFFICES ASSUME NEW k \in Tokens, token'[k] = "live", Of(k, login)'
             PROVE  k \in LiveOf(login)
  BY DEF LiveOf
<1> QED BY DEF Grows, NoneFor, Of, LiveOf

LEMMA HeldAt ==
  ASSUME HandsInv
  PROVE  /\ MaybeIssued(cookie)
         /\ \A x \in Refreshers : x \in Clients /\ x[2] \in Refreshes /\ MaybeIssued(req[x].cookie)
         /\ \A t \in Tabs : MaybeIssued(tab[t].refused)
         /\ \A t \in Tabs : <<t, "login">> \in Clients
<1>1. \A x \in Refreshers : x \in Clients /\ x[2] \in Refreshes BY DEF Refreshers, Clients, Slots
<1>2. \A t \in Tabs : <<t, "login">> \in Clients BY DEF Clients, Slots
<1> QED BY <1>1, <1>2, CarriedIssued DEF HandsInv, BrowserInv

\* What the steps that do not belong to the login leave of it.
LEMMA Frame ==
  ASSUME HandsInv, Grows, NEW login \in Tokens, OneLogin(login), NoneFor(login),
         undelivered \subseteq undelivered',
         cookie' = cookie \/ ~Of(cookie, login)',
         \A x \in Refreshers : Refreshing(x, login)' => req'[x] = req[x],
         (\A x \in Refreshers : Refreshing(x, login) => Refreshing(x, login)') \/ Resting(login)',
         \A t \in Tabs : LoginAnswer(t, login)' => LoginAnswer(t, login),
         \A t \in Tabs : Expired(t, login)' => Expired(t, login)
  PROVE  OneLogin(login)'
<1>1. LiveOf(login)' \subseteq LiveOf(login) BY LiveShrinks
<1>2. Of(cookie, login)' => cookie' = cookie /\ Of(cookie, login)
  <2>1. PICK k : k = cookie OBVIOUS
  <2>2. Of(k, login)' <=> Of(k, login) BY <2>1, OfKept, HeldAt
  <2> QED BY <2>1, <2>2 DEF Of
<1>3. ASSUME NEW x \in Refreshers, Refreshing(x, login)'
      PROVE  Refreshing(x, login) /\ req'[x] = req[x]
  <2>1. req'[x] = req[x] BY <1>3
  <2>2. PICK k : k = req[x].cookie OBVIOUS
  <2>3. Of(k, login)' <=> Of(k, login) BY <2>2, OfKept, HeldAt
  <2> QED BY <1>3, <2>1, <2>2, <2>3 DEF Refreshing, InFlight, Of
<1>4. OneLive(login)' BY <1>1 DEF OneLogin, OneLive
<1>5. OneRefresh(login)' BY <1>3 DEF OneLogin, OneRefresh
<1>6. AllKnow(login)'
  <2> SUFFICES ASSUME NEW x \in Refreshers, Refreshing(x, login)' PROVE Knows(x, login)'
    BY DEF AllKnow
  <2>1. Refreshing(x, login) /\ req'[x] = req[x] BY <1>3
  <2>2. Knows(x, login) BY <2>1 DEF OneLogin, AllKnow
  <2> QED BY <1>1, <1>2, <2>1, <2>2 DEF Knows
<1>7. Resting(login)'
  <2> SUFFICES ASSUME \A x \in Refreshers : Refreshing(x, login) => Refreshing(x, login)',
                      Idle(login)', Of(cookie, login)'
               PROVE  LiveOf(login)' \subseteq undelivered' \cup {cookie'}
    BY DEF Resting
  <2>1. Idle(login) BY DEF Idle
  <2>2. LiveOf(login) \subseteq undelivered \cup {cookie} BY <1>2, <2>1 DEF OneLogin, Resting
  <2> QED BY <1>1, <1>2, <2>2
<1>8. Closed(login) => Closed(login)' BY <1>2, <1>3 DEF Closed, Idle
<1>9. Answers(login)'
  <2> SUFFICES ASSUME NEW t \in Tabs, LoginAnswer(t, login)'
               PROVE  /\ Closed(login)'
                      /\ LiveOf(login)' \subseteq {login}
                      /\ \A u \in Tabs : ~Expired(u, login)' /\ (LoginAnswer(u, login)' => u = t)
    BY DEF Answers
  <2>1. LoginAnswer(t, login) OBVIOUS
  <2>2. /\ Closed(login)
        /\ LiveOf(login) \subseteq {login}
        /\ \A u \in Tabs : ~Expired(u, login) /\ (LoginAnswer(u, login) => u = t)
    BY <2>1 DEF OneLogin, Answers
  <2> QED BY <1>1, <1>8, <2>2
<1>10. Ends(login)'
  <2> SUFFICES ASSUME NEW t \in Tabs, Expired(t, login)'
               PROVE  Closed(login)' /\ LiveOf(login)' \subseteq undelivered'
    BY DEF Ends
  <2>1. Closed(login) /\ LiveOf(login) \subseteq undelivered BY DEF OneLogin, Ends
  <2> QED BY <1>1, <1>8, <2>1
<1> QED BY <1>4, <1>5, <1>6, <1>7, <1>9, <1>10 DEF OneLogin

\* A refresh of the login that is still the same refresh.
LEMMA StillRefreshing ==
  ASSUME HandsInv, Grows, NEW x \in Refreshers, req'[x] = req[x], NEW login
  PROVE  Refreshing(x, login)' <=> Refreshing(x, login)
<1>1. PICK k : k = req[x].cookie OBVIOUS
<1>2. Of(k, login)' <=> Of(k, login) BY <1>1, OfKept, HeldAt
<1> QED BY <1>1, <1>2 DEF Refreshing, InFlight, Of

LEMMA StillExpired ==
  ASSUME HandsInv, Grows, NEW login, NEW t \in Tabs, tab'[t].refused = tab[t].refused,
         "expired" \in tab'[t].modals => "expired" \in tab[t].modals
  PROVE  Expired(t, login)' => Expired(t, login)
<1>1. PICK k : k = tab[t].refused OBVIOUS
<1>2. Of(k, login)' <=> Of(k, login) BY <1>1, OfKept, HeldAt
<1> QED BY <1>1, <1>2 DEF Expired, Of

\* A step of no refresh.
LEMMA Calm ==
  ASSUME HandsInv, Grows, NEW login \in Tokens, OneLogin(login), NoneFor(login),
         undelivered \subseteq undelivered',
         cookie' = cookie \/ ~Of(cookie, login)',
         \A x \in Refreshers : req'[x] = req[x],
         \A t \in Tabs : LoginAnswer(t, login)' => LoginAnswer(t, login),
         \A t \in Tabs : /\ tab'[t].refused = tab[t].refused
                         /\ "expired" \in tab'[t].modals => "expired" \in tab[t].modals
  PROVE  OneLogin(login)'
<1>1. \A x \in Refreshers : Refreshing(x, login)' <=> Refreshing(x, login) BY StillRefreshing
<1>2. \A t \in Tabs : Expired(t, login)' => Expired(t, login) BY StillExpired
<1> QED BY <1>1, <1>2, Frame

\* ... in which one request changes.
LEMMA CalmReq ==
  ASSUME HandsInv, Grows, NEW login \in Tokens, OneLogin(login), NoneFor(login),
         undelivered \subseteq undelivered',
         cookie' = cookie \/ ~Of(cookie, login)',
         NEW x \in Clients, NEW r, req' = [req EXCEPT ![x] = r], x[2] \notin Refreshes,
         x[2] = "login" /\ r.pc = "200" => r.minted # login,
         \A t \in Tabs : /\ tab'[t].refused = tab[t].refused
                         /\ "expired" \in tab'[t].modals => "expired" \in tab[t].modals
  PROVE  OneLogin(login)'
<1>1. \A y \in Clients : req'[y] = IF y = x THEN r ELSE req[y] BY DEF HandsInv, ReqsInv
<1>2. \A y \in Refreshers : req'[y] = req[y] BY <1>1, HeldAt
<1>3. \A t \in Tabs : LoginAnswer(t, login)' => LoginAnswer(t, login)
  BY <1>1, HeldAt DEF LoginAnswer
<1> QED BY <1>2, <1>3, Calm

LEMMA QuietLogin ==
  ASSUME HandsInv, NEW login \in Tokens, OneLogin(login), UNCHANGED <<server, browser>>,
         NEW x \in Clients, NEW r, req' = [req EXCEPT ![x] = r], x[2] \notin Refreshes,
         x[2] = "login" => r.pc # "200"
  PROVE  OneLogin(login)'
<1>1. Grows BY SameGrows DEF server
<1>2. NoneFor(login) BY DEF NoneFor, server
<1>3. undelivered' = undelivered /\ cookie' = cookie /\ tab' = tab BY DEF browser
<1> QED BY <1>1, <1>2, <1>3, CalmReq

LEMMA GoesAt ==
  ASSUME HandsInv, NEW x \in Clients, NEW pc \in ReqPcs, Goes(x, pc)
  PROVE  /\ req' = [req EXCEPT ![x] = At(x, pc)]
         /\ At(x, pc).pc = pc /\ At(x, pc).cookie = req[x].cookie
         /\ At(x, pc).minted = req[x].minted
  BY PcOnly, AtPc DEF HandsInv, At

LEMMA GoesLogin ==
  ASSUME HandsInv, NEW login \in Tokens, OneLogin(login), UNCHANGED <<server, browser>>,
         NEW x \in Clients, NEW pc \in ReqPcs, Goes(x, pc), x[2] \notin Refreshes,
         x[2] = "login" => pc # "200"
  PROVE  OneLogin(login)'
<1>1. PICK r : r = At(x, pc) OBVIOUS
<1>2. req' = [req EXCEPT ![x] = r] /\ r.pc = pc BY <1>1, GoesAt
<1> QED BY <1>2, QuietLogin

LEMMA LoginUserLogin ==
  ASSUME HandsInv, NEW login \in Tokens, OneLogin(login), NEW x \in Clients, LoginUser(x)
  PROVE  OneLogin(login)'
<1>1. x[2] = "login" BY SlotOf DEF HandsInv, LoginUser
<1>2. PICK pc \in {"401", "403", "loginMint"} : Goes(x, pc) BY DEF LoginUser
<1> QED BY <1>1, <1>2, Apart, GoesLogin DEF LoginUser, ReqPcs

LEMMA ServeLogin ==
  ASSUME HandsInv, NEW login \in Tokens, OneLogin(login), NEW x \in Clients, Serve(x)
  PROVE  OneLogin(login)'
<1>1. x[2] \in Works BY SlotOf DEF HandsInv, Serve
<1>2. PICK pc \in {"200", "401"} : Goes(x, pc) BY DEF Serve
<1> QED BY <1>1, <1>2, Apart, GoesLogin DEF Serve, ReqPcs

LEMMA LogoutFindLogin ==
  ASSUME HandsInv, NEW login \in Tokens, OneLogin(login), NEW x \in Clients, LogoutFind(x)
  PROVE  OneLogin(login)'
<1>1. x[2] = "logout" BY SlotOf DEF HandsInv, LogoutFind
<1>2. PICK pc \in {"401", "logoutRevoke", "204"} : Goes(x, pc) BY DEF LogoutFind
<1> QED BY <1>1, <1>2, Apart, GoesLogin DEF LogoutFind, ReqPcs

LEMMA LogoutRevokeLogin ==
  ASSUME HandsInv, NEW login \in Tokens, OneLogin(login), NEW x \in Clients, LogoutRevoke(x)
  PROVE  OneLogin(login)'
<1>1. x[2] = "logout" BY SlotOf DEF HandsInv, LogoutRevoke
<1>2. Revoke(x, "204") /\ "204" \in ReqPcs BY DEF LogoutRevoke, ReqPcs
<1>3. /\ Grows
      /\ \A k \in Tokens : token'[k] = IF k = req[x].cookie THEN "revoked" ELSE token[k]
  BY <1>2, RevokedRows
<1>4. NoneFor(login) BY <1>3 DEF NoneFor
<1>5. PICK r : r = At(x, "204") OBVIOUS
<1>6. req' = [req EXCEPT ![x] = r] BY <1>2, <1>5, GoesAt DEF Revoke
<1>7. undelivered' = undelivered /\ cookie' = cookie /\ tab' = tab BY <1>2 DEF Revoke, browser
<1> QED BY <1>1, <1>3, <1>4, <1>6, <1>7, Apart, CalmReq

LEMMA SetActiveLogin ==
  ASSUME HandsInv, NEW login \in Tokens, OneLogin(login), SetActive
  PROVE  OneLogin(login)'
<1>1. Grows BY SameGrows DEF SetActive
<1>2. NoneFor(login) BY DEF NoneFor, SetActive
<1>3. undelivered' = undelivered /\ cookie' = cookie /\ tab' = tab /\ req' = req
  BY DEF SetActive, browser
<1>4. \A t \in Tabs : LoginAnswer(t, login)' => LoginAnswer(t, login) BY <1>3 DEF LoginAnswer
<1> QED BY <1>1, <1>2, <1>3, <1>4, Calm

LEMMA ExpireTokenLogin ==
  ASSUME HandsInv, NEW login \in Tokens, OneLogin(login), NEW k \in Tokens, ExpireToken(k)
  PROVE  OneLogin(login)'
<1>1. token \in [Tokens -> {"unissued", "live", "revoked", "expired"}] BY DEF HandsInv, StoreInv
<1>2. /\ \A m \in Tokens : token'[m] = IF m = k THEN "expired" ELSE token[m]
      /\ origin' = origin /\ req' = req /\ token[k] = "live"
      /\ undelivered' = undelivered /\ cookie' = cookie /\ tab' = tab
  BY <1>1 DEF ExpireToken, browser
<1>3. Grows BY <1>2 DEF Grows
<1>4. NoneFor(login) BY <1>2 DEF NoneFor
<1>5. \A t \in Tabs : LoginAnswer(t, login)' => LoginAnswer(t, login) BY <1>2 DEF LoginAnswer
<1> QED BY <1>2, <1>3, <1>4, <1>5, Calm

LEMMA LoginLogin ==
  ASSUME HandsInv, NEW login \in Tokens, OneLogin(login), NEW t \in Tabs, Login(t)
  PROVE  OneLogin(login)'
<1>1. PICK x : x = <<t, "login">> OBVIOUS
<1>2. x \in Clients /\ x[2] = "login" BY <1>1 DEF Clients, Slots
<1>3. PICK r : r = LoginRequest OBVIOUS
<1>4. r.pc = "loginUser" BY <1>3 DEF LoginRequest, NoReq
<1>5. req' = [req EXCEPT ![x] = r] /\ UNCHANGED <<server, browser>>
  BY <1>1, <1>3 DEF Login, Sends
<1> QED BY <1>2, <1>4, <1>5, Apart, QuietLogin

LEMMA LogoutLogin ==
  ASSUME HandsInv, NEW login \in Tokens, OneLogin(login), NEW t \in Tabs, Logout(t)
  PROVE  OneLogin(login)'
<1>1. PICK x : x = <<t, "logout">> OBVIOUS
<1>2. x \in Clients /\ x[2] = "logout" BY <1>1 DEF Clients, Slots
<1>3. PICK r : r = LogoutRequest(t) OBVIOUS
<1>4. req' = [req EXCEPT ![x] = r] /\ UNCHANGED <<server, browser>>
  BY <1>1, <1>3 DEF Logout, Sends
<1> QED BY <1>2, <1>4, Apart, QuietLogin

LEMMA RequestLogin ==
  ASSUME HandsInv, NEW login \in Tokens, OneLogin(login), NEW t \in Tabs, NEW w \in Works, Request(t, w)
  PROVE  OneLogin(login)'
<1>1. PICK x : x = <<t, w>> OBVIOUS
<1>2. x \in Clients /\ x[2] \in Works BY <1>1 DEF Clients, Slots
<1>3. PICK r : r = WorkRequest(t) OBVIOUS
<1>4. req' = [req EXCEPT ![x] = r] /\ UNCHANGED <<server, browser>>
  BY <1>1, <1>3 DEF Request, Sends
<1> QED BY <1>2, <1>4, Apart, QuietLogin

\* Only a tab changes, and no modal opens.
LEMMA TabLogin ==
  ASSUME HandsInv, NEW login \in Tokens, OneLogin(login), UNCHANGED <<server, req>>,
         cookie' = cookie, undelivered' = undelivered,
         NEW t \in Tabs, NEW p, tab' = [tab EXCEPT ![t] = p], p.refused = tab[t].refused,
         "expired" \in p.modals => "expired" \in tab[t].modals
  PROVE  OneLogin(login)'
<1>1. Grows BY SameGrows DEF server
<1>2. NoneFor(login) BY DEF NoneFor, server
<1>3. \A u \in Tabs : tab'[u] = IF u = t THEN p ELSE tab[u] BY DEF HandsInv, BrowserInv
<1>4. \A u \in Tabs : LoginAnswer(u, login)' => LoginAnswer(u, login) BY DEF LoginAnswer
<1> QED BY <1>1, <1>2, <1>3, <1>4, Calm

LEMMA AccessExpiresLogin ==
  ASSUME HandsInv, NEW login \in Tokens, OneLogin(login), NEW t \in Tabs, AccessExpires(t)
  PROVE  OneLogin(login)'
<1>1. PICK p : p = [tab[t] EXCEPT !.access = "expired"] OBVIOUS
<1>2. p.refused = tab[t].refused /\ p.modals = tab[t].modals BY <1>1, TabAt, PageForms
<1>3. /\ tab' = [tab EXCEPT ![t] = p] /\ UNCHANGED <<server, req>>
      /\ cookie' = cookie /\ undelivered' = undelivered
  BY <1>1 DEF AccessExpires
<1> QED BY <1>2, <1>3, TabLogin

LEMMA SignInAgainLogin ==
  ASSUME HandsInv, NEW login \in Tokens, OneLogin(login), NEW t \in Tabs, SignInAgain(t)
  PROVE  OneLogin(login)'
<1>1. PICK p : p = Cleared(tab[t]) OBVIOUS
<1>2. p.refused = tab[t].refused /\ p.modals = {} BY <1>1, TabAt, PageForms
<1>3. /\ tab' = [tab EXCEPT ![t] = p] /\ UNCHANGED <<server, req>>
      /\ cookie' = cookie /\ undelivered' = undelivered
  BY <1>1 DEF SignInAgain
<1> QED BY <1>2, <1>3, TabLogin

-----------------------------------------------------------------------------
(* The stages of a refresh                                                 *)

\* A refresh moves on with its cookie; of its own login it keeps what the next
\* stage knows.
LEMMA RefreshMoves ==
  ASSUME HandsInv, Grows, NEW login \in Tokens, OneLogin(login),
         cookie' = cookie, undelivered' = undelivered, tab' = tab,
         NEW x \in Clients, x[2] \in Refreshes, NEW r, req' = [req EXCEPT ![x] = r],
         req[x].pc # "idle", r.pc # "idle", r.cookie = req[x].cookie,
         ~Of(req[x].cookie, login) => NoneFor(login),
         Of(req[x].cookie, login) => OneLive(login)' /\ Knows(x, login)'
  PROVE  OneLogin(login)'
<1>1. x \in Refreshers BY SlotOf DEF HandsInv, Refreshers
<1>2. \A y \in Clients : req'[y] = IF y = x THEN r ELSE req[y] BY DEF HandsInv, ReqsInv
<1>3. req'[x].cookie = req[x].cookie /\ req'[x].pc # "idle" BY <1>2
<1>4. PICK c : c = req[x].cookie OBVIOUS
<1>5. Of(c, login)' <=> Of(c, login) BY <1>4, OfKept, CarriedIssued
<1>6. Refreshing(x, login)' <=> Of(c, login)
  BY <1>3, <1>4, <1>5 DEF Refreshing, InFlight, Of
<1>7. Refreshing(x, login) <=> Of(c, login)
  BY <1>4 DEF Refreshing, InFlight
<1>8. \A y \in Refreshers : y # x => req'[y] = req[y] BY <1>2, HeldAt
<1>9. \A y \in Refreshers : Refreshing(y, login)' <=> Refreshing(y, login)
  <2> SUFFICES ASSUME NEW y \in Refreshers PROVE Refreshing(y, login)' <=> Refreshing(y, login)
    OBVIOUS
  <2>1. CASE y = x BY <1>6, <1>7, <2>1
  <2>2. CASE y # x BY <1>8, <2>2, StillRefreshing
  <2> QED BY <2>1, <2>2
<1>10. \A t \in Tabs : LoginAnswer(t, login)' => LoginAnswer(t, login)
  <2> SUFFICES ASSUME NEW t \in Tabs PROVE req'[<<t, "login">>] = req[<<t, "login">>]
    BY DEF LoginAnswer
  <2>1. <<t, "login">> # x BY Apart
  <2> QED BY <1>2, <2>1, HeldAt
<1>11. \A t \in Tabs : Expired(t, login)' => Expired(t, login) BY StillExpired
<1>12. CASE ~Of(c, login)
  <2>1. NoneFor(login) BY <1>4, <1>12
  <2>2. \A y \in Refreshers : Refreshing(y, login)' => req'[y] = req[y] BY <1>6, <1>8, <1>12
  <2> QED BY <1>9, <1>10, <1>11, <2>1, <2>2, Frame
<1>13. CASE Of(c, login)
  <2>1. Refreshing(x, login) /\ Refreshing(x, login)' BY <1>6, <1>7, <1>13
  <2>2. OneLive(login)' /\ Knows(x, login)' BY <1>4, <1>13
  <2>3. OneRefresh(login)' BY <1>9 DEF OneLogin, OneRefresh
  <2>4. \A y \in Refreshers : Refreshing(y, login)' => y = x
    BY <1>1, <1>9, <2>1 DEF OneLogin, OneRefresh
  <2>5. AllKnow(login)' BY <2>2, <2>4 DEF AllKnow
  <2>6. Resting(login)' BY <1>1, <2>1 DEF Resting, Idle
  <2>7. ~Closed(login) BY <1>1, <2>1 DEF Closed, Idle
  <2>8. Answers(login)' BY <1>10, <2>7 DEF OneLogin, Answers
  <2>9. Ends(login)' BY <1>11, <2>7 DEF OneLogin, Ends
  <2> QED BY <2>2, <2>3, <2>5, <2>6, <2>8, <2>9 DEF OneLogin
<1> QED BY <1>12, <1>13

LEMMA KnowsNow ==
  ASSUME HandsInv, NEW login, OneLogin(login), NEW x \in Clients, x[2] \in Refreshes,
         req[x].pc # "idle", Of(req[x].cookie, login)
  PROVE  Knows(x, login)
<1>1. x \in Refreshers BY SlotOf DEF HandsInv, Refreshers
<1> QED BY <1>1 DEF OneLogin, AllKnow, Refreshing, InFlight

LEMMA SameLive ==
  ASSUME UNCHANGED <<token, origin>>, NEW login
  PROVE  /\ LiveOf(login)' = LiveOf(login) /\ NoneFor(login) /\ Grows
         /\ \A k : Of(k, login)' <=> Of(k, login)
  BY SameGrows DEF LiveOf, Of, NoneFor

LEMMA RefreshFindLogin ==
  ASSUME HandsInv, NEW login \in Tokens, OneLogin(login), NEW x \in Clients, RefreshFind(x)
  PROVE  OneLogin(login)'
<1>1. x[2] \in Refreshes BY SlotOf DEF HandsInv, RefreshFind
<1>2. PICK c : c = req[x].cookie OBVIOUS
<1>3. PICK pc \in {"401", "401clear", "refreshUser"} :
        /\ Goes(x, pc)
        /\ pc = "401" => c = None
        /\ pc = "401clear" => ~Present(c)
        /\ pc = "refreshUser" => Present(c)
  BY <1>2 DEF RefreshFind
<1>4. pc \in ReqPcs BY DEF ReqPcs
<1>5. PICK r : r = At(x, pc) OBVIOUS
<1>6. req' = [req EXCEPT ![x] = r] /\ r.pc = pc /\ r.cookie = c
  BY <1>2, <1>3, <1>4, <1>5, GoesAt
<1>7. /\ UNCHANGED <<token, origin>>
      /\ cookie' = cookie /\ undelivered' = undelivered /\ tab' = tab /\ req[x].pc = "refreshFind"
  BY DEF RefreshFind, server, browser
<1>8. LiveOf(login)' = LiveOf(login) /\ NoneFor(login) /\ Grows BY <1>7, SameLive
<1>9. OneLive(login)' BY <1>8 DEF OneLogin, OneLive
<1>10. ASSUME Of(c, login) PROVE Knows(x, login)'
  <2>1. /\ LiveOf(login) \subseteq undelivered \cup {c}
        /\ Of(cookie, login) => cookie = c
    BY <1>1, <1>2, <1>7, <1>10, KnowsNow DEF Knows
  <2>2. c # None /\ c \in Tokens
    BY <1>2, <1>10, CarriedIssued DEF Of, MaybeIssued, Issued
  <2>3. req'[x].pc = pc /\ req'[x].cookie = c BY <1>6 DEF HandsInv, ReqsInv
  <2>4. Of(cookie, login)' => Of(cookie, login) BY <1>7 DEF Of
  <2>5. CASE pc = "401clear"
    <3>1. c \notin LiveOf(login) BY <1>3, <2>2, <2>5 DEF LiveOf, Present
    <3>2. LiveOf(login) \subseteq undelivered BY <2>1, <3>1
    <3> QED BY <1>7, <1>8, <2>1, <2>3, <2>4, <2>5, <3>2 DEF Knows, Found
  <2>6. CASE pc = "refreshUser"
    <3>1. c \in LiveOf(login) BY <1>3, <1>10, <2>2, <2>6 DEF LiveOf, Present
    <3>2. LiveOf(login) \subseteq {c} BY <3>1 DEF OneLogin, OneLive
    <3> QED BY <1>7, <1>8, <2>1, <2>3, <2>4, <2>6, <3>2 DEF Knows, Found
  <2> QED BY <1>3, <2>2, <2>5, <2>6
<1> QED BY <1>1, <1>2, <1>3, <1>6, <1>7, <1>8, <1>9, <1>10, RefreshMoves

LEMMA RefreshUserLogin ==
  ASSUME HandsInv, NEW login \in Tokens, OneLogin(login), NEW x \in Clients, RefreshUser(x)
  PROVE  OneLogin(login)'
<1>1. x[2] \in Refreshes BY SlotOf DEF HandsInv, RefreshUser, Found
<1>2. PICK c : c = req[x].cookie OBVIOUS
<1>3. PICK pc \in {"refreshRevoke", "refreshRefuse"} : Goes(x, pc) BY DEF RefreshUser
<1>4. pc \in ReqPcs BY DEF ReqPcs
<1>5. PICK r : r = At(x, pc) OBVIOUS
<1>6. req' = [req EXCEPT ![x] = r] /\ r.pc = pc /\ r.cookie = c
  BY <1>2, <1>3, <1>4, <1>5, GoesAt
<1>7. /\ UNCHANGED <<token, origin>>
      /\ cookie' = cookie /\ undelivered' = undelivered /\ tab' = tab /\ req[x].pc = "refreshUser"
  BY DEF RefreshUser, server, browser
<1>8. LiveOf(login)' = LiveOf(login) /\ NoneFor(login) /\ Grows BY <1>7, SameLive
<1>9. OneLive(login)' BY <1>8 DEF OneLogin, OneLive
<1>10. ASSUME Of(c, login) PROVE Knows(x, login)'
  <2>1. /\ LiveOf(login) \subseteq {c}
        /\ Of(cookie, login) => cookie = c
    BY <1>1, <1>2, <1>7, <1>10, KnowsNow DEF Knows, Found
  <2>2. req'[x].pc = pc /\ req'[x].cookie = c BY <1>6 DEF HandsInv, ReqsInv
  <2>3. Of(cookie, login)' => Of(cookie, login) BY <1>7 DEF Of
  <2> QED BY <1>7, <1>8, <2>1, <2>2, <2>3 DEF Knows, Found
<1> QED BY <1>1, <1>2, <1>3, <1>6, <1>7, <1>8, <1>9, <1>10, RefreshMoves

\* The token revoked is the last live one of the login.
LEMMA RevokeLogin ==
  ASSUME HandsInv, NEW login \in Tokens, OneLogin(login), NEW x \in Clients, x[2] \in Refreshes,
         req[x].pc \in Found, NEW pc \in {"401clear", "refreshMint"}, Revoke(x, pc)
  PROVE  OneLogin(login)'
<1>1. PICK c : c = req[x].cookie OBVIOUS
<1>2. pc \in ReqPcs /\ Goes(x, pc) BY DEF ReqPcs, Revoke
<1>3. PICK r : r = At(x, pc) OBVIOUS
<1>4. req' = [req EXCEPT ![x] = r] /\ r.pc = pc /\ r.cookie = c BY <1>1, <1>2, <1>3, GoesAt
<1>5. /\ cookie' = cookie /\ undelivered' = undelivered /\ tab' = tab
  BY DEF Revoke, browser
<1>6. /\ Grows /\ origin' = origin
      /\ \A k \in Tokens : token'[k] = IF k = c THEN "revoked" ELSE token[k]
  BY <1>1, RevokedRows
<1>7. NoneFor(login) BY <1>6 DEF NoneFor
<1>8. LiveOf(login)' \subseteq LiveOf(login) \ {c} BY <1>6 DEF LiveOf, Of
<1>9. OneLive(login)' BY <1>8 DEF OneLogin, OneLive
<1>10. ASSUME Of(c, login) PROVE Knows(x, login)'
  <2>1. /\ LiveOf(login) \subseteq {c}
        /\ Of(cookie, login) => cookie = c
    BY <1>1, <1>10, KnowsNow DEF Knows, Found
  <2>2. LiveOf(login)' = {} BY <1>8, <2>1
  <2>3. req'[x].pc = pc /\ req'[x].cookie = c BY <1>4 DEF HandsInv, ReqsInv
  <2>4. Of(cookie, login)' => Of(cookie, login) BY <1>5, <1>6 DEF Of
  <2> QED BY <1>5, <2>1, <2>2, <2>3, <2>4 DEF Knows, Found
<1>11. req[x].pc # "idle" /\ r.pc # "idle" BY <1>4 DEF Found
<1> QED BY <1>1, <1>4, <1>5, <1>6, <1>7, <1>9, <1>10, <1>11, RefreshMoves

LEMMA RefreshRefuseLogin ==
  ASSUME HandsInv, NEW login \in Tokens, OneLogin(login), NEW x \in Clients, RefreshRefuse(x)
  PROVE  OneLogin(login)'
<1>1. x[2] \in Refreshes BY SlotOf DEF HandsInv, RefreshRefuse, Found
<1> QED BY <1>1, RevokeLogin DEF RefreshRefuse, Found

LEMMA RefreshRevokeLogin ==
  ASSUME HandsInv, NEW login \in Tokens, OneLogin(login), NEW x \in Clients, RefreshRevoke(x)
  PROVE  OneLogin(login)'
<1>1. x[2] \in Refreshes BY SlotOf DEF HandsInv, RefreshRevoke, Found
<1> QED BY <1>1, RevokeLogin DEF RefreshRevoke, Found

\* The token minted is the only live one of the login.
LEMMA RefreshMintLogin ==
  ASSUME HandsInv, NEW login \in Tokens, OneLogin(login), NEW x \in Clients, RefreshMint(x)
  PROVE  OneLogin(login)'
<1>1. x[2] \in Refreshes /\ ReqsInv BY SlotOf DEF HandsInv, RefreshMint
<1>2. x \in Minters BY <1>1 DEF Minters, May, RefreshMint
<1>3. PICK c : c = req[x].cookie OBVIOUS
<1>4. Issued(c)
  BY <1>1, <1>3, GoodAt DEF GoodReq, RefreshOK, Held, MaybeIssued, RefreshMint
<1>5. Issued(origin[c].login) BY <1>4 DEF HandsInv, StoreInv, Issued
<1>6. Mint(x, origin[c].login, c) /\ c \in Tokens \cup {None}
  BY <1>3, <1>4 DEF RefreshMint, Issued
<1>7. PICK f : f = FreshToken OBVIOUS
<1>8. /\ Grows /\ f \in Unissued /\ origin'[f].login = origin[c].login
      /\ \A k \in Tokens : /\ token'[k] = IF k = f THEN "live" ELSE token[k]
                           /\ k # f => origin'[k] = origin[k]
  BY <1>2, <1>5, <1>6, <1>7, MintedRows
<1>9. f \in Tokens /\ token[f] = "unissued" BY <1>8 DEF Unissued
<1>10. c # None BY <1>4, NoTokenAssumption DEF Issued
<1>11. PICK r : r = Answer(x) OBVIOUS
<1>12. /\ r.pc = "200" /\ r.minted = f /\ r.cookie = c
  BY <1>1, <1>3, <1>7, <1>9, <1>11, AnswerPc
<1>13. req' = [req EXCEPT ![x] = r] BY <1>1, <1>11 DEF RefreshMint, Mint, Answer, ReqsInv
<1>14. cookie' = cookie /\ undelivered' = undelivered /\ tab' = tab
  BY DEF RefreshMint, Mint, browser
<1>15. ~Of(c, login) => NoneFor(login)
  BY <1>8, <1>9, <1>10 DEF Of, NoneFor
<1>16. ASSUME Of(c, login) PROVE OneLive(login)' /\ Knows(x, login)'
  <2>1. /\ LiveOf(login) = {} /\ (Of(cookie, login) => cookie = c)
    BY <1>1, <1>3, <1>16, KnowsNow DEF Knows, RefreshMint
  <2>2. LiveOf(login)' \subseteq {f}
    <3> SUFFICES ASSUME NEW k \in Tokens, k # f, token'[k] = "live", Of(k, login)' PROVE FALSE
      BY DEF LiveOf
    <3>1. token[k] = "live" /\ Of(k, login) BY <1>8 DEF Of
    <3> QED BY <2>1, <3>1 DEF LiveOf
  <2>3. req'[x].pc = "200" /\ req'[x].cookie = c /\ req'[x].minted = f
    BY <1>12, <1>13 DEF HandsInv, ReqsInv
  <2>4. Of(cookie, login)' => Of(cookie, login)
    <3>1. PICK k : k = cookie OBVIOUS
    <3>2. Of(k, login)' <=> Of(k, login) BY <1>8, <3>1, OfKept, HeldAt
    <3> QED BY <1>14, <3>1, <3>2 DEF Of
  <2>5. OneLive(login)' BY <2>2 DEF OneLive
  <2>6. Knows(x, login)' BY <1>14, <2>1, <2>2, <2>3, <2>4 DEF Knows, Found
  <2> QED BY <2>5, <2>6
<1>17. req[x].pc = "refreshMint" BY DEF RefreshMint
<1> QED BY <1>1, <1>3, <1>8, <1>12, <1>13, <1>14, <1>15, <1>16, <1>17, RefreshMoves

\* Nobody holds a token that was not minted yet.
LEMMA NotYetHeld ==
  ASSUME HandsInv, NEW f \in Tokens, token[f] = "unissued", NEW k, MaybeIssued(k)
  PROVE  ~Of(k, f)
  BY DEF HandsInv, StoreInv, MaybeIssued, Issued, Of

LEMMA LoginMintLogin ==
  ASSUME HandsInv, NEW login \in Tokens, OneLogin(login), NEW x \in Clients, LoginMint(x)
  PROVE  OneLogin(login)'
<1>1. x[2] = "login" /\ ReqsInv BY SlotOf DEF HandsInv, LoginMint
<1>2. x \in Minters BY <1>1 DEF Minters, May, LoginMint
<1>3. PICK f : f = FreshToken OBVIOUS
<1>4. Mint(x, FreshToken, None) BY DEF LoginMint
<1>5. /\ Grows /\ f \in Unissued /\ origin'[f].login = f
      /\ \A k \in Tokens : /\ token'[k] = IF k = f THEN "live" ELSE token[k]
                           /\ k # f => origin'[k] = origin[k]
  BY <1>2, <1>3, <1>4, MintedRows
<1>6. f \in Tokens /\ token[f] = "unissued" BY <1>5 DEF Unissued
<1>7. PICK r : r = Answer(x) OBVIOUS
<1>8. r.pc = "200" /\ r.minted = f BY <1>1, <1>3, <1>6, <1>7, AnswerPc
<1>9. req' = [req EXCEPT ![x] = r] BY <1>1, <1>7 DEF LoginMint, Mint, Answer, ReqsInv
<1>10. cookie' = cookie /\ undelivered' = undelivered /\ tab' = tab
  BY DEF LoginMint, Mint, browser
<1>11. CASE login # f
  <2>1. NoneFor(login) BY <1>5, <1>11 DEF NoneFor
  <2> QED BY <1>1, <1>5, <1>8, <1>9, <1>10, <1>11, <2>1, Apart, CalmReq
<1>12. CASE login = f
  <2>1. \A k : MaybeIssued(k) => ~Of(k, login)'
    <3> SUFFICES ASSUME NEW k, MaybeIssued(k) PROVE ~Of(k, login)' OBVIOUS
    <3> QED BY <1>5, <1>6, <1>12, OfKept, NotYetHeld
  <2>2. \A y \in Clients : req'[y] = IF y = x THEN r ELSE req[y] BY <1>1, <1>9 DEF ReqsInv
  <2>3. ~Of(cookie, login)'
    <3>1. PICK k : k = cookie OBVIOUS
    <3>2. ~Of(k, login)' BY <2>1, <3>1, HeldAt
    <3> QED BY <1>10, <3>1, <3>2 DEF Of
  <2>4. \A y \in Refreshers : ~Refreshing(y, login)'
    <3> SUFFICES ASSUME NEW y \in Refreshers PROVE ~Refreshing(y, login)' OBVIOUS
    <3>1. PICK k : k = req[y].cookie OBVIOUS
    <3>2. ~Of(k, login)' BY <2>1, <3>1, HeldAt
    <3>3. req'[y] = req[y] BY <1>1, <2>2, HeldAt, Apart
    <3> QED BY <3>1, <3>2, <3>3 DEF Refreshing, Of
  <2>5. Closed(login)' BY <2>3, <2>4 DEF Closed, Idle
  <2>6. \A t \in Tabs : ~Expired(t, login)'
    <3> SUFFICES ASSUME NEW t \in Tabs PROVE ~Expired(t, login)' OBVIOUS
    <3>1. PICK k : k = tab[t].refused OBVIOUS
    <3>2. ~Of(k, login)' BY <2>1, <3>1, HeldAt
    <3> QED BY <1>10, <3>1, <3>2 DEF Expired, Of
  <2>7. LiveOf(login)' \subseteq {login}
    <3> SUFFICES ASSUME NEW k \in Tokens, k # f, token'[k] = "live", Of(k, login)' PROVE FALSE
      BY <1>12 DEF LiveOf
    <3>1. MaybeIssued(k) BY <1>5 DEF MaybeIssued, Issued
    <3> QED BY <2>1, <3>1
  <2>8. ASSUME NEW t \in Tabs, LoginAnswer(t, login)' PROVE <<t, "login">> = x
    <3> SUFFICES ASSUME <<t, "login">> # x PROVE FALSE OBVIOUS
    <3>1. <<t, "login">> \in Clients /\ req'[<<t, "login">>] = req[<<t, "login">>] BY <2>2, HeldAt
    <3>2. MaybeIssued(req[<<t, "login">>].minted) BY <3>1, CarriedIssued
    <3> QED BY <1>6, <1>12, <2>8, <3>1, <3>2, NoTokenAssumption DEF LoginAnswer, MaybeIssued, Issued
  <2>9. OneLive(login)' BY <2>7 DEF OneLive
  <2>10. OneRefresh(login)' /\ AllKnow(login)' /\ Resting(login)'
    BY <2>3, <2>4 DEF OneRefresh, AllKnow, Resting
  <2>11. Answers(login)' BY <2>5, <2>6, <2>7, <2>8 DEF Answers
  <2>12. Ends(login)' BY <2>6 DEF Ends
  <2> QED BY <2>9, <2>10, <2>11, <2>12 DEF OneLogin
<1> QED BY <1>11, <1>12

-----------------------------------------------------------------------------
(* A refresh starts, and ends                                              *)

\* While the logins' refreshes do not overlap, a refresh starts alone.
LEMMA RefreshStarts ==
  ASSUME HandsInv, NEW login \in Tokens, OneLogin(login), UNCHANGED server,
         cookie' = cookie, undelivered' = undelivered,
         NEW x \in Refreshers, req[x].pc = "idle", req'[x] = Refresh, login \notin Overlaps,
         \A y \in Refreshers : y # x => req'[y] = req[y],
         \A t \in Tabs : req'[<<t, "login">>] = req[<<t, "login">>],
         \A t \in Tabs : tab'[t].refused = tab[t].refused /\ tab'[t].modals = tab[t].modals
  PROVE  OneLogin(login)'
<1>1. LiveOf(login)' = LiveOf(login) /\ NoneFor(login) /\ Grows
  BY SameLive DEF server
<1>2. \A k : Of(k, login)' <=> Of(k, login) BY SameLive DEF server
<1>3. req'[x].pc = "refreshFind" /\ req'[x].cookie = cookie BY RefreshGood, HeldAt
<1>4. \A t \in Tabs : LoginAnswer(t, login)' => LoginAnswer(t, login) BY DEF LoginAnswer
<1>5. \A t \in Tabs : Expired(t, login)' => Expired(t, login) BY <1>1, StillExpired
<1>6. \A y \in Refreshers : y # x => (Refreshing(y, login)' <=> Refreshing(y, login))
  BY <1>1, StillRefreshing
<1>7. PICK c : c = cookie OBVIOUS
<1>8. Refreshing(x, login)' <=> Of(c, login)
  BY <1>2, <1>3, <1>7 DEF Refreshing, InFlight, Of
<1>9. ~Refreshing(x, login) BY DEF Refreshing, InFlight
<1>10. CASE ~Of(c, login)
  <2>1. \A y \in Refreshers : Refreshing(y, login)' => req'[y] = req[y] BY <1>8, <1>10
  <2>2. \A y \in Refreshers : Refreshing(y, login) => Refreshing(y, login)' BY <1>6, <1>9
  <2> QED BY <1>1, <1>4, <1>5, <2>1, <2>2, Frame
<1>11. CASE Of(c, login)
  <2>1. \A y \in Refreshers : ~InFlight(y)
    BY <1>7, <1>11 DEF Overlaps, Of, Refreshers
  <2>2. Idle(login) BY <2>1 DEF Idle, Refreshing
  <2>3. Of(cookie, login) BY <1>7, <1>11
  <2>4. LiveOf(login) \subseteq undelivered \cup {c} BY <1>7, <2>2, <2>3 DEF OneLogin, Resting
  <2>5. \A y \in Refreshers : Refreshing(y, login)' => y = x BY <1>6, <2>2 DEF Idle
  <2>6. Knows(x, login)' BY <1>1, <1>3, <1>7, <2>4 DEF Knows, Found
  <2>7. OneLive(login)' BY <1>1 DEF OneLogin, OneLive
  <2>8. OneRefresh(login)' BY <2>5 DEF OneRefresh
  <2>9. AllKnow(login)' BY <2>5, <2>6 DEF AllKnow
  <2>10. Resting(login)' BY <1>8, <1>11 DEF Resting, Idle
  <2>11. ~Closed(login) BY <2>3 DEF Closed
  <2>12. Answers(login)' BY <1>4, <2>11 DEF OneLogin, Answers
  <2>13. Ends(login)' BY <1>5, <2>11 DEF OneLogin, Ends
  <2> QED BY <2>7, <2>8, <2>9, <2>10, <2>12, <2>13 DEF OneLogin
<1> QED BY <1>10, <1>11

LEMMA TimerFiresLogin ==
  ASSUME HandsInv, NEW login \in Tokens, OneLogin(login), NEW t \in Tabs, TimerFires(t),
         login \notin overlapped'
  PROVE  OneLogin(login)'
<1>1. PICK x : x = <<t, "timer">> OBVIOUS
<1>2. x \in Refreshers /\ x \in Clients BY <1>1 DEF Refreshers, Refreshes, Clients, Slots
<1>3. PICK p : p = [tab[t] EXCEPT !.timer = FALSE] OBVIOUS
<1>4. p.refused = tab[t].refused /\ p.modals = tab[t].modals BY <1>3, TabAt, PageForms
<1>5. /\ tab' = [tab EXCEPT ![t] = p] /\ req' = [req EXCEPT ![x] = Refresh]
      /\ UNCHANGED server /\ cookie' = cookie /\ undelivered' = undelivered
      /\ overlapped' = Overlaps /\ req[x].pc = "idle"
  BY <1>1, <1>3 DEF TimerFires, Sends, InFlight
<1>6. \A y \in Clients : req'[y] = IF y = x THEN Refresh ELSE req[y]
  BY <1>5 DEF HandsInv, ReqsInv
<1>7. \A u \in Tabs : tab'[u].refused = tab[u].refused /\ tab'[u].modals = tab[u].modals
  BY <1>4, <1>5 DEF HandsInv, BrowserInv
<1>8. \A u \in Tabs : req'[<<u, "login">>] = req[<<u, "login">>]
  BY <1>1, <1>6, HeldAt
<1>9. \A y \in Refreshers : y # x => req'[y] = req[y] BY <1>6, HeldAt
<1>10. req'[x] = Refresh BY <1>2, <1>6
<1> QED BY <1>2, <1>5, <1>7, <1>8, <1>9, <1>10, RefreshStarts

LEMMA WorkAnsweredLogin ==
  ASSUME HandsInv, NEW login \in Tokens, OneLogin(login), NEW t \in Tabs, NEW w \in Works,
         WorkAnswered(t, w), login \notin overlapped'
  PROVE  OneLogin(login)'
<1>1. PICK x : x = <<t, w>> OBVIOUS
<1>2. PICK y : y = <<t, "refresh">> OBVIOUS
<1>3. /\ x \in Clients /\ x[2] \notin Refreshes /\ x[2] # "login"
      /\ y \in Refreshers /\ y \in Clients /\ y[2] = "refresh"
  BY <1>1, <1>2, Apart DEF Clients, Slots, Refreshers, Refreshes
<1>4. /\ UNCHANGED server /\ cookie' = cookie /\ undelivered' = undelivered /\ tab' = tab
  BY DEF WorkAnswered
<1>5. NoneFor(login) /\ Grows BY <1>4, SameLive DEF server
<1>6. CASE /\ req' = [req EXCEPT ![x].pc = "waiting", ![x].retried = TRUE, ![y] = DoRefresh(t)]
           /\ overlapped' = IF InFlight(y) THEN overlapped ELSE Overlaps
  <2>1. \A z \in Clients : z # x => req'[z] = IF z = y THEN DoRefresh(t) ELSE req[z]
    BY <1>6 DEF HandsInv, ReqsInv
  <2>2. \A u \in Tabs : /\ <<u, "login">> \in Clients /\ <<u, "login">> # x /\ <<u, "login">> # y
    BY <1>1, <1>2, Apart, HeldAt
  <2>3. \A u \in Tabs : req'[<<u, "login">>] = req[<<u, "login">>] BY <2>1, <2>2
  <2>4. \A z \in Refreshers : z # y => req'[z] = req[z] BY <1>3, <2>1, HeldAt
  <2>5. y # x BY <1>3 DEF Refreshes
  <2>6. CASE InFlight(y)
    <3>1. req'[y] = req[y] BY <1>2, <1>3, <2>1, <2>5, <2>6 DEF DoRefresh
    <3>2. \A z \in Refreshers : req'[z] = req[z] BY <2>4, <3>1
    <3>3. \A u \in Tabs : LoginAnswer(u, login)' => LoginAnswer(u, login) BY <2>3 DEF LoginAnswer
    <3> QED BY <1>4, <1>5, <3>2, <3>3, Calm
  <2>7. CASE ~InFlight(y)
    <3>1. req'[y] = Refresh BY <1>2, <1>3, <2>1, <2>5, <2>7 DEF DoRefresh
    <3>2. login \notin Overlaps BY <1>6, <2>7
    <3>3. req[y].pc = "idle" BY <2>7 DEF InFlight
    <3> QED BY <1>3, <1>4, <2>3, <2>4, <3>1, <3>2, <3>3, RefreshStarts
  <2> QED BY <2>6, <2>7
<1>7. CASE req' = [req EXCEPT ![x] = NoReq]
  <2>1. PICK r : r = NoReq OBVIOUS
  <2>2. req' = [req EXCEPT ![x] = r] BY <1>7, <2>1
  <2> QED BY <1>3, <1>4, <1>5, <2>2, CalmReq
<1> QED BY <1>1, <1>2, <1>6, <1>7 DEF WorkAnswered

\* A refresh is over: of its own login it leaves the token in the cookie, or
\* tokens that never arrived.
LEMMA RefreshEnds ==
  ASSUME HandsInv, NEW login \in Tokens, OneLogin(login), UNCHANGED server,
         undelivered \subseteq undelivered',
         NEW x \in Refreshers, req[x].pc # "idle", req'[x] = NoReq,
         \A y \in Refreshers : y # x => req'[y] = req[y],
         \A t \in Tabs : req'[<<t, "login">>] = req[<<t, "login">>],
         ~Of(req[x].cookie, login) =>
           /\ cookie' = cookie \/ ~Of(cookie, login)'
           /\ \A t \in Tabs : Expired(t, login)' => Expired(t, login),
         Of(req[x].cookie, login) =>
           /\ Of(cookie, login)' => LiveOf(login) \subseteq undelivered' \cup {cookie'}
           /\ \A t \in Tabs : Expired(t, login)' =>
                Expired(t, login) \/ (~Of(cookie, login)' /\ LiveOf(login) \subseteq undelivered')
  PROVE  OneLogin(login)'
<1>1. LiveOf(login)' = LiveOf(login) /\ NoneFor(login) /\ Grows
  BY SameLive DEF server
<1>2. ~Refreshing(x, login)' BY DEF Refreshing, InFlight, NoReq
<1>3. \A t \in Tabs : LoginAnswer(t, login)' => LoginAnswer(t, login) BY DEF LoginAnswer
<1>4. \A y \in Refreshers : y # x => (Refreshing(y, login)' <=> Refreshing(y, login))
  BY <1>1, StillRefreshing
<1>5. PICK c : c = req[x].cookie OBVIOUS
<1>6. Refreshing(x, login) <=> Of(c, login) BY <1>5 DEF Refreshing, InFlight
<1>7. CASE ~Of(c, login)
  <2>1. \A y \in Refreshers : Refreshing(y, login)' => req'[y] = req[y] BY <1>2
  <2>2. \A y \in Refreshers : Refreshing(y, login) => Refreshing(y, login)' BY <1>4, <1>6, <1>7
  <2>3. /\ cookie' = cookie \/ ~Of(cookie, login)'
        /\ \A t \in Tabs : Expired(t, login)' => Expired(t, login)
    BY <1>5, <1>7
  <2> QED BY <1>1, <1>3, <2>1, <2>2, <2>3, Frame
<1>8. CASE Of(c, login)
  <2>1. /\ Of(cookie, login)' => LiveOf(login) \subseteq undelivered' \cup {cookie'}
        /\ \A t \in Tabs : Expired(t, login)' =>
             Expired(t, login) \/ (~Of(cookie, login)' /\ LiveOf(login) \subseteq undelivered')
    BY <1>5, <1>8
  <2>2. \A y \in Refreshers : Refreshing(y, login) => y = x
    BY <1>6, <1>8 DEF OneLogin, OneRefresh
  <2>3. \A y \in Refreshers : ~Refreshing(y, login)' BY <1>2, <1>4, <2>2
  <2>4. ~Closed(login) BY <1>6, <1>8 DEF Closed, Idle
  <2>5. \A t \in Tabs : ~LoginAnswer(t, login)' BY <1>3, <2>4 DEF OneLogin, Answers
  <2>6. \A t \in Tabs : ~Expired(t, login) BY <2>4 DEF OneLogin, Ends
  <2>7. OneLive(login)' BY <1>1 DEF OneLogin, OneLive
  <2>8. OneRefresh(login)' /\ AllKnow(login)' BY <2>3 DEF OneRefresh, AllKnow
  <2>9. Resting(login)' BY <1>1, <2>1 DEF Resting
  <2>10. Answers(login)' BY <2>5 DEF Answers
  <2>11. Ends(login)' BY <1>1, <2>1, <2>3, <2>6 DEF Ends, Closed, Idle
  <2> QED BY <2>7, <2>8, <2>9, <2>10, <2>11 DEF OneLogin
<1> QED BY <1>7, <1>8

\* The end of a refresh touches no other one, and no login.
LEMMA OthersStay ==
  ASSUME HandsInv, NEW t \in Tabs, NEW slot \in Refreshes, NEW x, x = <<t, slot>>,
         \/ slot = "refresh" /\ (Resolve(t, Resent) \/ Resolve(t, Rejected))
         \/ req' = [req EXCEPT ![x] = NoReq]
  PROVE  /\ x \in Refreshers /\ x \in Clients /\ x[2] \in Refreshes
         /\ req'[x] = NoReq
         /\ \A y \in Refreshers : y # x => req'[y] = req[y]
         /\ \A u \in Tabs : req'[<<u, "login">>] = req[<<u, "login">>]
<1>1. x \in Refreshers /\ x \in Clients /\ x[2] \in Refreshes
  BY DEF Refreshers, Clients, Slots
<1>2. \A u \in Tabs : <<u, "login">> \in Clients /\ <<u, "login">> # x BY Apart, HeldAt
<1>3. CASE slot = "refresh" /\ (Resolve(t, Resent) \/ Resolve(t, Rejected))
  <2>1. \A y \in Clients : /\ y = x => req'[y] = NoReq
                           /\ y \notin {t} \X Works /\ y # x => req'[y] = req[y]
    BY <1>3, Resolved
  <2>2. \A y \in Refreshers : y \in Clients /\ y \notin {t} \X Works BY Apart, HeldAt
  <2>3. \A u \in Tabs : <<u, "login">> \notin {t} \X Works BY Apart
  <2> QED BY <1>1, <1>2, <2>1, <2>2, <2>3
<1>4. CASE req' = [req EXCEPT ![x] = NoReq]
  <2>1. \A y \in Clients : req'[y] = IF y = x THEN NoReq ELSE req[y] BY <1>4 DEF HandsInv, ReqsInv
  <2> QED BY <1>1, <1>2, <2>1, HeldAt
<1> QED BY <1>1, <1>3, <1>4

LEMMA RefreshedLogin ==
  ASSUME HandsInv, NEW login \in Tokens, OneLogin(login), NEW t \in Tabs, NEW slot \in Refreshes,
         Refreshed(t, slot)
  PROVE  OneLogin(login)'
<1>1. PICK x : x = <<t, slot>> OBVIOUS
<1>2. \/ slot = "refresh" /\ (Resolve(t, Resent) \/ Resolve(t, Rejected))
      \/ req' = [req EXCEPT ![x] = NoReq]
  BY <1>1 DEF Refreshed
<1>3. /\ x \in Refreshers /\ x \in Clients /\ x[2] \in Refreshes
      /\ req'[x] = NoReq
      /\ \A y \in Refreshers : y # x => req'[y] = req[y]
      /\ \A u \in Tabs : req'[<<u, "login">>] = req[<<u, "login">>]
  BY <1>1, <1>2, OthersStay
<1>4. PICK p : p = Holding(tab[t]) OBVIOUS
<1>5. p.refused = tab[t].refused /\ p.modals = tab[t].modals BY <1>4, TabAt, PageForms
<1>6. PICK c : c = req[x].cookie OBVIOUS
<1>7. PICK m : m = req[x].minted OBVIOUS
<1>8. /\ UNCHANGED server /\ cookie' = m /\ undelivered' = undelivered
      /\ tab' = [tab EXCEPT ![t] = p] /\ req[x].pc = "200"
  BY <1>1, <1>4, <1>7 DEF Refreshed
<1>9. Kin(m, c) /\ m # None /\ c # None
  BY <1>3, <1>6, <1>7, <1>8, GoodAt DEF HandsInv, GoodReq, RefreshOK
<1>10. Of(m, login) <=> Of(c, login) BY <1>9 DEF Of, Kin
<1>11. \A k : Of(k, login)' <=> Of(k, login) BY <1>8, SameLive DEF server
<1>12. \A u \in Tabs : Expired(u, login)' => Expired(u, login)
  <2>1. \A u \in Tabs : tab'[u].refused = tab[u].refused /\ tab'[u].modals = tab[u].modals
    BY <1>5, <1>8 DEF HandsInv, BrowserInv
  <2>2. Grows BY <1>8, SameLive DEF server
  <2> QED BY <2>1, <2>2, StillExpired
<1>13. ASSUME Of(c, login) PROVE LiveOf(login) \subseteq undelivered' \cup {cookie'}
  BY <1>3, <1>6, <1>7, <1>8, <1>13, KnowsNow DEF Knows
<1>14. ASSUME ~Of(c, login) PROVE ~Of(cookie, login)'
  BY <1>8, <1>10, <1>11, <1>14 DEF Of
<1> QED BY <1>3, <1>6, <1>8, <1>12, <1>13, <1>14, RefreshEnds

\* A refusal clears the cookie, unless there was none to clear.
LEMMA RefusalAt ==
  ASSUME HandsInv, NEW login \in Tokens, OneLogin(login), NEW x \in Clients, x[2] \in Refreshes,
         req[x].pc \in {"401", "401clear"}, cookie' = ClearedBy(x)
  PROVE  /\ cookie' = cookie \/ ~Of(cookie, login)'
         /\ Of(req[x].cookie, login) => ~Of(cookie, login)' /\ LiveOf(login) \subseteq undelivered
<1>1. CASE req[x].pc = "401"
  <2>1. req[x].cookie = None BY <1>1, GoodAt DEF HandsInv, GoodReq, RefreshOK
  <2> QED BY <1>1, <2>1 DEF ClearedBy, Of
<1>2. CASE req[x].pc = "401clear"
  <2>1. cookie' = None BY <1>2 DEF ClearedBy
  <2>2. Of(req[x].cookie, login) => LiveOf(login) \subseteq undelivered
    BY <1>2, KnowsNow DEF Knows
  <2> QED BY <2>1, <2>2 DEF Of
<1> QED BY <1>1, <1>2

LEMMA RefreshRefusedLogin ==
  ASSUME HandsInv, NEW login \in Tokens, OneLogin(login), NEW t \in Tabs, RefreshRefused(t)
  PROVE  OneLogin(login)'
<1>1. PICK x : x = <<t, "refresh">> OBVIOUS
<1>2. Resolve(t, Rejected) /\ "refresh" \in Refreshes BY DEF RefreshRefused, Refreshes
<1>3. /\ x \in Refreshers /\ x \in Clients /\ x[2] \in Refreshes
      /\ req'[x] = NoReq
      /\ \A y \in Refreshers : y # x => req'[y] = req[y]
      /\ \A u \in Tabs : req'[<<u, "login">>] = req[<<u, "login">>]
  BY <1>1, <1>2, OthersStay
<1>4. PICK c : c = req[x].cookie OBVIOUS
<1>5. PICK p : p = SessionExpired(tab[t], c) OBVIOUS
<1>6. p.refused = c
  <2>1. c \in Tokens \cup {None} BY <1>3, <1>4, CarriedIssued DEF MaybeIssued, Issued
  <2> QED BY <1>5, <2>1, TabAt, ExpiredForm
<1>7. /\ UNCHANGED server /\ cookie' = ClearedBy(x) /\ undelivered' = undelivered
      /\ tab' = [tab EXCEPT ![t] = p] /\ req[x].pc \in {"401", "401clear"}
  BY <1>1, <1>4, <1>5 DEF RefreshRefused
<1>8. /\ cookie' = cookie \/ ~Of(cookie, login)'
      /\ Of(c, login) => ~Of(cookie, login)' /\ LiveOf(login) \subseteq undelivered
  BY <1>3, <1>4, <1>7, RefusalAt
<1>9. ASSUME NEW u \in Tabs, Expired(u, login)' PROVE Expired(u, login) \/ Of(c, login)
  <2>1. Grows /\ \A k : Of(k, login)' <=> Of(k, login) BY <1>7, SameLive DEF server
  <2>2. CASE u = t
    <3>1. tab'[u].refused = c BY <1>6, <1>7, <2>2 DEF HandsInv, BrowserInv
    <3>2. Of(c, login)' BY <1>9, <3>1 DEF Expired, Of
    <3> QED BY <2>1, <3>2
  <2>3. CASE u # t
    <3>1. tab'[u] = tab[u] BY <1>7, <2>3 DEF HandsInv, BrowserInv
    <3> QED BY <1>9, <2>1, <3>1, StillExpired
  <2> QED BY <2>2, <2>3
<1>10. req[x].pc # "idle" BY <1>7
<1> QED BY <1>3, <1>4, <1>7, <1>8, <1>9, <1>10, RefreshEnds

LEMMA TimerRefusedLogin ==
  ASSUME HandsInv, NEW login \in Tokens, OneLogin(login), NEW t \in Tabs, TimerRefused(t)
  PROVE  OneLogin(login)'
<1>0. PICK slot : slot \in Refreshes /\ slot = "timer" BY DEF Refreshes
<1> slot \in Refreshes BY <1>0
<1>1. PICK x : x = <<t, slot>> OBVIOUS
<1>2. \/ slot = "refresh" /\ (Resolve(t, Resent) \/ Resolve(t, Rejected))
      \/ req' = [req EXCEPT ![x] = NoReq]
  BY <1>0, <1>1 DEF TimerRefused
<1>3. /\ x \in Refreshers /\ x \in Clients /\ x[2] \in Refreshes
      /\ req'[x] = NoReq
      /\ \A y \in Refreshers : y # x => req'[y] = req[y]
      /\ \A u \in Tabs : req'[<<u, "login">>] = req[<<u, "login">>]
  BY <1>1, <1>2, OthersStay
<1>4. /\ UNCHANGED server /\ cookie' = ClearedBy(x) /\ undelivered' = undelivered
      /\ tab' = tab /\ req[x].pc \in {"401", "401clear"}
  BY <1>0, <1>1 DEF TimerRefused
<1>5. /\ cookie' = cookie \/ ~Of(cookie, login)'
      /\ Of(req[x].cookie, login) => ~Of(cookie, login)' /\ LiveOf(login) \subseteq undelivered
  BY <1>3, <1>4, RefusalAt
<1>6. \A u \in Tabs : Expired(u, login)' => Expired(u, login)
  <2>1. Grows BY <1>4, SameLive DEF server
  <2> QED BY <1>4, <2>1, StillExpired
<1>7. req[x].pc # "idle" BY <1>4
<1> QED BY <1>3, <1>4, <1>5, <1>6, <1>7, RefreshEnds

\* A lost answer leaves its token undelivered.
LEMMA LoseRefreshLogin ==
  ASSUME HandsInv, NEW login \in Tokens, OneLogin(login), NEW t \in Tabs, NEW slot \in Refreshes,
         Lose(t, slot)
  PROVE  OneLogin(login)'
<1>1. PICK x : x = <<t, slot>> OBVIOUS
<1>2. \/ slot = "refresh" /\ (Resolve(t, Resent) \/ Resolve(t, Rejected))
      \/ req' = [req EXCEPT ![x] = NoReq]
  BY <1>1 DEF Lose
<1>3. /\ x \in Refreshers /\ x \in Clients /\ x[2] \in Refreshes
      /\ req'[x] = NoReq
      /\ \A y \in Refreshers : y # x => req'[y] = req[y]
      /\ \A u \in Tabs : req'[<<u, "login">>] = req[<<u, "login">>]
  BY <1>1, <1>2, OthersStay
<1>4. PICK c : c = req[x].cookie OBVIOUS
<1>5. PICK m : m = req[x].minted OBVIOUS
<1>6. /\ UNCHANGED server /\ cookie' = cookie /\ tab' = tab
      /\ undelivered' = undelivered \cup ({m} \ {None})
      /\ req[x].pc \in {"loginUser", "refreshFind", "logoutFind", "sent",
                        "200", "204", "401", "401clear", "403"}
  BY <1>1, <1>5, Apart DEF Lose
<1>7. /\ RefreshOK(req[x])
      /\ req[x].pc \in {"refreshFind", "200", "401", "401clear"}
  BY <1>3, <1>6, GoodAt DEF HandsInv, GoodReq, RefreshOK, RefreshPcs
<1>8. req[x].pc # "idle" BY <1>7
<1>9. \A u \in Tabs : Expired(u, login)' => Expired(u, login)
  <2>1. Grows BY <1>6, SameLive DEF server
  <2> QED BY <1>6, <2>1, StillExpired
<1>10. ASSUME Of(c, login), Of(cookie, login)' PROVE LiveOf(login) \subseteq undelivered' \cup {cookie'}
  <2>1. Of(cookie, login)
    <3>1. \A k : Of(k, login)' <=> Of(k, login) BY <1>6, SameLive DEF server
    <3> QED BY <1>6, <1>10, <3>1 DEF Of
  <2>2. Knows(x, login) BY <1>3, <1>4, <1>8, <1>10, KnowsNow
  <2>3. cookie = c BY <1>4, <2>1, <2>2 DEF Knows
  <2>4. req[x].pc = "401" => c = None BY <1>4, <1>7 DEF RefreshOK
  <2>5. req[x].pc = "200" => m # None BY <1>5, <1>7 DEF RefreshOK
  <2>6. c # None BY <1>10 DEF Of
  <2> QED BY <1>4, <1>5, <1>6, <1>7, <2>2, <2>3, <2>4, <2>5, <2>6 DEF Knows
<1>11. undelivered \subseteq undelivered' BY <1>6
<1> QED BY <1>3, <1>4, <1>6, <1>8, <1>9, <1>10, <1>11, RefreshEnds

LEMMA LoseOtherLogin ==
  ASSUME HandsInv, NEW login \in Tokens, OneLogin(login), NEW t \in Tabs, NEW slot \in Slots,
         slot \notin Refreshes, Lose(t, slot)
  PROVE  OneLogin(login)'
<1>1. PICK x : x = <<t, slot>> OBVIOUS
<1>2. x \in Clients /\ x[2] \notin Refreshes BY <1>1 DEF Clients
<1>3. PICK p : p = (IF slot = "logout" THEN LoggedOut(tab[t]) ELSE tab[t]) OBVIOUS
<1>4. p.refused = tab[t].refused /\ ("expired" \in p.modals => "expired" \in tab[t].modals)
  <2>1. tab[t] \in Pages BY TabAt
  <2>2. /\ LoggedOut(tab[t]).refused = tab[t].refused
        /\ LoggedOut(tab[t]).modals = tab[t].modals \ {"expired"}
    BY <2>1, PageForms
  <2> QED BY <1>3, <2>2
<1>5. /\ UNCHANGED server /\ cookie' = cookie /\ undelivered \subseteq undelivered'
      /\ tab' = [tab EXCEPT ![t] = p]
  BY <1>1, <1>3 DEF Lose, HandsInv, BrowserInv
<1>6. PICK r : r = NoReq OBVIOUS
<1>7. req' = [req EXCEPT ![x] = r] /\ r.pc = "idle"
  BY <1>1, <1>6 DEF Lose, Refreshes, NoReq
<1>8. \A u \in Tabs : /\ tab'[u].refused = tab[u].refused
                      /\ "expired" \in tab'[u].modals => "expired" \in tab[u].modals
  BY <1>4, <1>5 DEF HandsInv, BrowserInv
<1>9. NoneFor(login) /\ Grows BY <1>5, SameLive DEF server
<1> QED BY <1>2, <1>5, <1>7, <1>8, <1>9, CalmReq

-----------------------------------------------------------------------------
(* The login's own answers                                                 *)

\* Whoever gets the answer of a login holds its only token.
LEMMA LoginArrives ==
  ASSUME HandsInv, NEW t \in Tabs, NEW login \in Tokens, OneLogin(login), LoginAnswer(t, login),
         UNCHANGED server, cookie' = login, undelivered' = undelivered,
         NEW x \in Clients, x = <<t, "login">>, req' = [req EXCEPT ![x] = NoReq],
         \A u \in Tabs : /\ tab'[u].refused = tab[u].refused
                         /\ "expired" \in tab'[u].modals => "expired" \in tab[u].modals
  PROVE  OneLogin(login)'
<1>1. LiveOf(login)' = LiveOf(login) /\ Grows BY SameLive DEF server
<1>2. /\ Closed(login) /\ LiveOf(login) \subseteq {login}
      /\ \A u \in Tabs : ~Expired(u, login) /\ (LoginAnswer(u, login) => u = t)
  BY DEF OneLogin, Answers
<1>3. \A y \in Clients : req'[y] = IF y = x THEN NoReq ELSE req[y] BY DEF HandsInv, ReqsInv
<1>4. \A y \in Refreshers : req'[y] = req[y] BY <1>3, HeldAt, Apart
<1>5. \A y \in Refreshers : ~Refreshing(y, login)'
  BY <1>1, <1>2, <1>4, StillRefreshing DEF Closed, Idle
<1>6. \A u \in Tabs : ~LoginAnswer(u, login)'
  <2> SUFFICES ASSUME NEW u \in Tabs PROVE ~LoginAnswer(u, login)' OBVIOUS
  <2>1. CASE u = t BY <1>3, <2>1 DEF LoginAnswer, NoReq
  <2>2. CASE u # t
    <3>1. <<u, "login">> # x BY <2>2
    <3>2. req'[<<u, "login">>] = req[<<u, "login">>] BY <1>3, <3>1, HeldAt
    <3> QED BY <1>2, <2>2, <3>2 DEF LoginAnswer
  <2> QED BY <2>1, <2>2
<1>7. \A u \in Tabs : ~Expired(u, login)' BY <1>1, <1>2, StillExpired
<1>8. OneLive(login)' BY <1>1 DEF OneLogin, OneLive
<1>9. OneRefresh(login)' /\ AllKnow(login)' BY <1>5 DEF OneRefresh, AllKnow
<1>10. Resting(login)' BY <1>1, <1>2 DEF Resting
<1>11. Answers(login)' /\ Ends(login)' BY <1>6, <1>7 DEF Answers, Ends
<1> QED BY <1>8, <1>9, <1>10, <1>11 DEF OneLogin

LEMMA LoginAnsweredLogin ==
  ASSUME HandsInv, NEW login \in Tokens, OneLogin(login), NEW t \in Tabs, LoginAnswered(t)
  PROVE  OneLogin(login)'
<1>1. PICK x : x = <<t, "login">> OBVIOUS
<1>2. x \in Clients /\ x[2] = "login" /\ x[2] \notin Refreshes BY <1>1, Apart DEF Clients, Slots
<1>3. PICK r : r = NoReq OBVIOUS
<1>4. /\ UNCHANGED server /\ undelivered' = undelivered /\ undelivered \subseteq undelivered'
      /\ req' = [req EXCEPT ![x] = r] /\ r.pc = "idle"
  BY <1>1, <1>3 DEF LoginAnswered, NoReq
<1>5. NoneFor(login) /\ Grows /\ \A k : Of(k, login)' <=> Of(k, login)
  BY <1>4, SameLive DEF server
<1>6. tab[t] \in Pages BY TabAt
<1>7. CASE req[x].pc = "200" /\ cookie' = req[x].minted /\ tab' = [tab EXCEPT ![t] = LoggedIn(@)]
  <2>1. PICK p : p = LoggedIn(tab[t]) OBVIOUS
  <2>2. p.refused = tab[t].refused /\ p.modals = tab[t].modals \ {"expired"}
    BY <1>6, <2>1, PageForms
  <2>3. tab' = [tab EXCEPT ![t] = p] BY <1>7, <2>1
  <2>4. \A u \in Tabs : /\ tab'[u].refused = tab[u].refused
                        /\ "expired" \in tab'[u].modals => "expired" \in tab[u].modals
    BY <2>2, <2>3 DEF HandsInv, BrowserInv
  <2>5. PICK m : m = req[x].minted OBVIOUS
  <2>6. m # None /\ origin[m].login = m
    BY <1>2, <1>7, <2>5, GoodAt DEF HandsInv, GoodReq, LoginOK
  <2>7. CASE login = m
    <3>1. LoginAnswer(t, login) BY <1>1, <1>7, <2>5, <2>7 DEF LoginAnswer
    <3> QED BY <1>1, <1>2, <1>3, <1>4, <1>7, <2>4, <2>5, <2>7, <3>1, LoginArrives
  <2>8. CASE login # m
    <3>1. ~Of(m, login) BY <2>6, <2>8 DEF Of
    <3>2. ~Of(cookie, login)' BY <1>5, <1>7, <2>5, <3>1 DEF Of
    <3> QED BY <1>2, <1>4, <1>5, <2>4, <3>2, CalmReq
  <2> QED BY <2>7, <2>8
<1>8. CASE cookie' = cookie /\ tab' = [tab EXCEPT ![t] = AccountDisabled(@)]
  <2>1. PICK p : p = AccountDisabled(tab[t]) OBVIOUS
  <2>2. p.refused = tab[t].refused /\ p.modals = tab[t].modals \cup {"disabled"}
    BY <1>6, <2>1, PageForms
  <2>3. tab' = [tab EXCEPT ![t] = p] BY <1>8, <2>1
  <2>4. \A u \in Tabs : /\ tab'[u].refused = tab[u].refused
                        /\ "expired" \in tab'[u].modals => "expired" \in tab[u].modals
    BY <2>2, <2>3 DEF HandsInv, BrowserInv
  <2> QED BY <1>2, <1>4, <1>5, <1>8, <2>4, CalmReq
<1>9. CASE UNCHANGED <<cookie, tab>>
  <2>1. \A u \in Tabs : tab'[u] = tab[u] BY <1>9
  <2> QED BY <1>2, <1>4, <1>5, <1>9, <2>1, CalmReq
<1> QED BY <1>1, <1>7, <1>8, <1>9 DEF LoginAnswered

LEMMA LogoutAnsweredLogin ==
  ASSUME HandsInv, NEW login \in Tokens, OneLogin(login), NEW t \in Tabs, LogoutAnswered(t)
  PROVE  OneLogin(login)'
<1>1. PICK x : x = <<t, "logout">> OBVIOUS
<1>2. x \in Clients /\ x[2] = "logout" /\ x[2] \notin Refreshes BY <1>1, Apart DEF Clients, Slots
<1>3. PICK r : r = NoReq OBVIOUS
<1>4. PICK p : p = LoggedOut(tab[t]) OBVIOUS
<1>5. /\ UNCHANGED server /\ undelivered \subseteq undelivered' /\ req' = [req EXCEPT ![x] = r]
      /\ cookie' \in {None, cookie} /\ tab' = [tab EXCEPT ![t] = p]
  BY <1>1, <1>3, <1>4 DEF LogoutAnswered
<1>6. NoneFor(login) /\ Grows BY <1>5, SameLive DEF server
<1>7. cookie' = cookie \/ ~Of(cookie, login)' BY <1>5 DEF Of
<1>8. tab[t] \in Pages BY TabAt
<1>9. p.refused = tab[t].refused /\ p.modals = tab[t].modals \ {"expired"}
  BY <1>4, <1>8, PageForms
<1>10. \A u \in Tabs : /\ tab'[u].refused = tab[u].refused
                       /\ "expired" \in tab'[u].modals => "expired" \in tab[u].modals
  BY <1>5, <1>9 DEF HandsInv, BrowserInv
<1> QED BY <1>2, <1>5, <1>6, <1>7, <1>10, CalmReq

-----------------------------------------------------------------------------
(* Every step of every login                                               *)

LEMMA InitLogins == ASSUME Init PROVE LoginsInv
<1> SUFFICES ASSUME NEW login \in Tokens PROVE OneLogin(login)
  BY DEF LoginsInv
<1>1. HandsInv BY InitHands
<1>2. \A x \in Clients : req[x] = NoReq BY DEF Init, Clients
<1>3. LiveOf(login) = {} BY DEF Init, LiveOf
<1>4. \A x \in Refreshers : ~Refreshing(x, login)
  BY <1>1, <1>2, HeldAt DEF Refreshing, InFlight, NoReq
<1>5. ~Of(cookie, login) BY DEF Init, Of
<1>6. \A t \in Tabs : ~Expired(t, login) BY DEF Init, Expired, NewTab
<1>7. \A t \in Tabs : ~LoginAnswer(t, login)
  <2>1. \A t \in Tabs : req[<<t, "login">>] = NoReq BY <1>1, <1>2, HeldAt
  <2>2. NoReq.pc = "idle" BY DEF NoReq
  <2> QED BY <2>1, <2>2 DEF LoginAnswer
<1>8. OneLive(login) /\ OneRefresh(login) /\ AllKnow(login) BY <1>3, <1>4 DEF OneLive, OneRefresh, AllKnow
<1>9. Resting(login) /\ Answers(login) /\ Ends(login) BY <1>3, <1>6, <1>7 DEF Resting, Answers, Ends
<1> QED BY <1>8, <1>9 DEF OneLogin

LEMMA ServerLogin ==
  ASSUME HandsInv, NEW login \in Tokens, OneLogin(login), NEW x \in Tabs \X Slots, ServerStep(x)
  PROVE  OneLogin(login)'
<1> x \in Clients BY DEF Clients
<1> QED
  BY LoginUserLogin, LoginMintLogin, ServeLogin, RefreshFindLogin, RefreshUserLogin,
     RefreshRefuseLogin, RefreshRevokeLogin, RefreshMintLogin, LogoutFindLogin, LogoutRevokeLogin
  DEF ServerStep

LEMMA ArrivesLogin ==
  ASSUME HandsInv, NEW login \in Tokens, OneLogin(login), NEW t \in Tabs, NEW slot \in Slots,
         Arrives(t, slot), login \notin overlapped'
  PROVE  OneLogin(login)'
  BY WorkAnsweredLogin, RefreshedLogin, RefreshRefusedLogin, TimerRefusedLogin,
     LoginAnsweredLogin, LogoutAnsweredLogin
  DEF Arrives

LEMMA StillLogin ==
  ASSUME HandsInv, NEW login \in Tokens, OneLogin(login), UNCHANGED vars PROVE OneLogin(login)'
<1>1. UNCHANGED <<token, origin>> /\ cookie' = cookie /\ undelivered' = undelivered /\ tab' = tab /\ req' = req
  BY DEF vars, server, browser
<1>2. NoneFor(login) /\ Grows BY <1>1, SameLive
<1>3. \A t \in Tabs : LoginAnswer(t, login)' => LoginAnswer(t, login) BY <1>1 DEF LoginAnswer
<1> QED BY <1>1, <1>2, <1>3, Calm

\* Overlaps are never forgotten.
LEMMA OverlapsStay == ASSUME [Next]_vars PROVE overlapped \subseteq overlapped'
<1>1. CASE UNCHANGED vars BY <1>1 DEF vars, browser
<1>2. ASSUME NEW x \in Tabs \X Slots, ServerStep(x) PROVE overlapped' = overlapped
  BY <1>2 DEF ServerStep, LoginUser, LoginMint, Serve, RefreshFind, RefreshUser, RefreshRefuse,
     RefreshRevoke, RefreshMint, LogoutFind, LogoutRevoke, Revoke, Mint, browser
<1>3. ASSUME NEW t \in Tabs, NEW slot \in Slots, Arrives(t, slot) \/ Lose(t, slot)
      PROVE  overlapped \subseteq overlapped'
  BY <1>3 DEF Arrives, Lose, WorkAnswered, Refreshed, RefreshRefused, TimerRefused, LoginAnswered,
     LogoutAnswered, Overlaps
<1>4. ASSUME NEW t \in Tabs, \/ Login(t) \/ Logout(t) \/ SignInAgain(t) \/ AccessExpires(t) \/ TimerFires(t)
                            \/ \E w \in Works : Request(t, w)
      PROVE  overlapped \subseteq overlapped'
  BY <1>4 DEF Login, Logout, SignInAgain, AccessExpires, TimerFires, Request, Overlaps, browser
<1>5. ASSUME SetActive \/ \E k \in Tokens : ExpireToken(k) PROVE overlapped' = overlapped
  BY <1>5 DEF SetActive, ExpireToken, browser
<1> QED BY <1>1, <1>2, <1>3, <1>4, <1>5 DEF Next

LEMMA LoginsStep == ASSUME HandsInv, LoginsInv, [Next]_vars PROVE LoginsInv'
<1> SUFFICES ASSUME NEW login \in Tokens, login \notin overlapped' PROVE OneLogin(login)'
  BY DEF LoginsInv
<1>1. OneLogin(login) BY OverlapsStay DEF LoginsInv
<1>2. CASE UNCHANGED vars BY <1>1, <1>2, StillLogin
<1>3. CASE Next
  <2>1. ASSUME NEW t \in Tabs, NEW slot \in Slots, Lose(t, slot) PROVE OneLogin(login)'
    BY <1>1, <2>1, LoseRefreshLogin, LoseOtherLogin
  <2> QED
    BY <1>1, <1>3, <2>1, ServerLogin, ArrivesLogin, LoginLogin, LogoutLogin, SignInAgainLogin,
       RequestLogin, TimerFiresLogin, AccessExpiresLogin, SetActiveLogin, ExpireTokenLogin
    DEF Next
<1> QED BY <1>2, <1>3

LEMMA SessionCorrect == Spec => []SessionInv
<1>1. Init => SessionInv BY InitHands, InitLogins DEF SessionInv
<1>2. SessionInv /\ [Next]_vars => SessionInv' BY HandsStep, LoginsStep DEF SessionInv
<1> QED BY <1>1, <1>2, PTL DEF Spec

\* A token belongs to a login that was minted.
LEMMA LoginOf ==
  ASSUME HandsInv, NEW k, Issued(k)
  PROVE  origin[k].login \in Tokens /\ Of(k, origin[k].login)
  BY NoTokenAssumption DEF HandsInv, StoreInv, Issued, Of

LEMMA KinOf ==
  ASSUME NEW k PROVE LiveKin(k) = LiveOf(origin[k].login)
  BY NoTokenAssumption DEF LiveKin, LiveOf, Of, Kin

\* A login has at most one live refresh token, from postLogin's insert through
\* the revoke and insert of each rotation in postRefresh, for any number of tabs
\* and whatever is lost, while no two refreshes of it overlap.
THEOREM OneLiveTokenCorrect == Spec => []OneLiveToken
<1>1. SessionInv => OneLiveToken
  <2> SUFFICES ASSUME SessionInv, NEW k \in Tokens, token[k] = "live", origin[k].login \notin overlapped
               PROVE  LiveKin(k) = {k}
    BY DEF OneLiveToken
  <2>1. PICK login : login = origin[k].login OBVIOUS
  <2>2. login \in Tokens /\ Of(k, login) BY <2>1, LoginOf DEF SessionInv, Issued
  <2>3. OneLive(login) BY <2>1, <2>2 DEF SessionInv, LoginsInv, OneLogin
  <2>4. k \in LiveOf(login) BY <2>2 DEF LiveOf
  <2>5. LiveKin(k) = LiveOf(login) BY <2>1, KinOf
  <2> QED BY <2>3, <2>4, <2>5 DEF OneLive
<1> QED BY <1>1, SessionCorrect, PTL

\* A user is told that the session expired only when it has: no live token of
\* that login is left that the browser ever got (the interceptor of lib/api.ts
\* and postRefresh), while no two refreshes of it overlap.
THEOREM ExpiredIsDeadCorrect == Spec => []ExpiredIsDead
<1>1. SessionInv => ExpiredIsDead
  <2> SUFFICES ASSUME SessionInv, NEW t \in Tabs, "expired" \in tab[t].modals,
                      tab[t].refused # None, origin[tab[t].refused].login \notin overlapped
               PROVE  LiveKin(tab[t].refused) \subseteq undelivered
    BY DEF ExpiredIsDead
  <2>1. PICK k : k = tab[t].refused OBVIOUS
  <2>2. PICK login : login = origin[k].login OBVIOUS
  <2>3. Issued(k) BY <2>1, HeldAt DEF SessionInv, MaybeIssued
  <2>4. login \in Tokens /\ Of(k, login) BY <2>2, <2>3, LoginOf DEF SessionInv
  <2>5. Expired(t, login) BY <2>1, <2>4 DEF Expired
  <2>6. LiveOf(login) \subseteq undelivered
    BY <2>1, <2>2, <2>4, <2>5 DEF SessionInv, LoginsInv, OneLogin, Ends
  <2> QED BY <2>1, <2>2, <2>6, KinOf
<1> QED BY <1>1, SessionCorrect, PTL

=============================================================================
