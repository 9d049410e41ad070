---------------------------- MODULE SessionsProofs ----------------------------
(***************************************************************************)
(* Sessions end in time, for any number of accounts, any lifetimes and any *)
(* number of requests in flight.                                           *)
(***************************************************************************)
EXTENDS Sessions, TLAPS

USE LifetimeAssumption, IdleAssumption DEF Types, Life, Horizon

-------------------------------------------------------------------------------
(* Why a session ends: what a token has left and what the counters have run to
   together never exceed a lifetime, and a counter runs only once there is
   nothing in flight and nothing in the clients' hands that could stop it. *)

ShutBounds ==
  /\ \A u \in User : shut[u] > 0 => ~MayMint(u)
  /\ \A t \in tokens : t.left + shut[t.user] <= Life(t.type)

DryBounds ==
  /\ \A u \in User : dry[u] > 0 => ~CanRenew(u)
  /\ \A t \in tokens : dry[t.user] > 0 => t.left + dry[t.user] <= ACCESS_TOKEN_EXPIRE

SessionInv == SessionTypeOK /\ ShutBounds /\ DryBounds

-------------------------------------------------------------------------------
(* Data *)

\* A minted pair is a pair of tokens with their whole lives ahead.
LEMMA PairTyped ==
  ASSUME NEW u \in User
  PROVE  \A t \in Pair(u) : t \in Token /\ t.user = u /\ t.left = Life(t.type)
BY DEF Pair, Token

\* A token that survives a tick has one less left.
LEMMA AgedTyped ==
  ASSUME NEW toks \in SUBSET Token, NEW t \in Aged(toks)
  PROVE  /\ t \in Token
         /\ \E x \in toks : t.user = x.user /\ t.type = x.type /\ t.left = x.left - 1
<1>1. PICK x \in toks : x.left > 1 /\ t = [x EXCEPT !.left = @ - 1]
  BY DEF Aged
<1>2. x \in Token
  BY <1>1
<1>3. /\ x \in [user : User, type : Types, left : Nat \ {0}]
      /\ x.left <= Life(x.type) /\ x.left \in Nat
  BY <1>2 DEF Token
<1>4. t.user = x.user /\ t.type = x.type /\ t.left = x.left - 1
  BY <1>1, <1>3
<1>5. t.left \in Nat \ {0} /\ t.left <= Life(t.type)
  BY <1>1, <1>3, <1>4
<1> QED BY <1>1, <1>3, <1>4, <1>5 DEF Token

\* The counters stay within the horizon, and count by one up to it.
LEMMA CountedTyped ==
  ASSUME NEW n \in 0..Horizon
  PROVE  Counted(n) \in 0..Horizon /\ Counted(n) <= n + 1 /\ Counted(n) >= n
BY DEF Counted

-------------------------------------------------------------------------------
(* Frames *)

\* What a worker's step does to the requests of one account.
LEMMA GotoFrame ==
  ASSUME SessionTypeOK, NEW w \in Worker, NEW r \in Request \cup {Idle}, Goto(w, r)
  PROVE  /\ req' \in [Worker -> Request \cup {Idle}]
         /\ req'[w] = r
         /\ \A v \in Worker : v # w => req'[v] = req[v]
BY DEF Goto, SessionTypeOK

\* A request that is past its login or its check is in flight for its user.
LEMMA InFlight ==
  ASSUME SessionTypeOK, NEW w \in Worker, req[w] # Idle
  PROVE  /\ req[w] \in Request /\ req[w].user \in User
         /\ req[w].pc = "mint" => req[w] = [pc |-> "mint", user |-> req[w].user]
         /\ (req[w].pc = "lookup" /\ req[w].op = "refresh")
              => req[w] = [pc |-> "lookup", op |-> "refresh", user |-> req[w].user]
<1>1. req[w] \in Request
  BY DEF SessionTypeOK
<1>2. CASE req[w] \in [pc : {"lookup"}, op : Types, user : User]
  BY <1>1, <1>2
<1>3. CASE req[w] \in [pc : {"mint", "serve"}, user : User]
  BY <1>1, <1>3
<1> QED BY <1>1, <1>2, <1>3 DEF Request
\* Only the worker that moved can have become one that mints or renews.
LEMMA FlightFrame ==
  ASSUME SessionTypeOK, NEW w \in Worker, NEW r \in Request \cup {Idle}, Goto(w, r),
         NEW u \in User
  PROVE  /\ Minting(u)' => Minting(u) \/ r = [pc |-> "mint", user |-> u]
         /\ Renewing(u)' => Renewing(u) \/ r = [pc |-> "lookup", op |-> "refresh", user |-> u]
<1> req'[w] = r /\ \A v \in Worker : v # w => req'[v] = req[v]
  BY GotoFrame
<1> QED BY DEF Minting, Renewing

\* A step that gives nothing to mint or renew with, and mints and counts nothing,
\* keeps the invariant.
LEMMA NothingGained ==
  ASSUME SessionInv, SessionTypeOK', UNCHANGED shut,
         \A u \in User : dry'[u] = dry[u] \/ dry'[u] = 0,
         \A u \in User : MayMint(u)' => MayMint(u),
         \A u \in User : CanRenew(u)' => CanRenew(u) \/ dry'[u] = 0,
         tokens' \subseteq tokens
  PROVE  SessionInv'
<1>1. \A t \in tokens : t \in Token /\ t.user \in User
  BY DEF SessionInv, SessionTypeOK, Token
<1>2. ShutBounds'
  BY <1>1 DEF SessionInv, ShutBounds
<1>3. DryBounds'
  BY <1>1 DEF SessionInv, DryBounds
<1> QED BY <1>2, <1>3 DEF SessionInv

-------------------------------------------------------------------------------
(* Requests keep the invariant *)

LEMMA BeginLoginKeeps ==
  ASSUME SessionInv, NEW w \in Worker, NEW u \in User, BeginLogin(w, u)
  PROVE  SessionInv'
<1> DEFINE r == [pc |-> "mint", user |-> u]
<1>1. r \in Request /\ Goto(w, r) /\ u \in active
  BY DEF BeginLogin, Request
<1>2. SessionTypeOK
  BY DEF SessionInv
<1>3. SessionTypeOK'
  BY <1>1, <1>2, GotoFrame DEF BeginLogin, SessionTypeOK
<1>4. \A x \in User : MayMint(x)' => MayMint(x)
  BY <1>1, <1>2, FlightFrame DEF MayMint, BeginLogin
<1>5. \A x \in User : CanRenew(x)' => CanRenew(x) \/ dry'[x] = 0
  BY <1>1, <1>2, FlightFrame DEF CanRenew, BeginLogin, SessionTypeOK
<1>6. \A x \in User : dry'[x] = dry[x] \/ dry'[x] = 0
  BY <1>2 DEF BeginLogin, SessionTypeOK
<1> QED BY <1>3, <1>4, <1>5, <1>6, NothingGained DEF BeginLogin

LEMMA BeginWithTokenKeeps ==
  ASSUME SessionInv, NEW w \in Worker, NEW t \in tokens, NEW op \in Types,
         BeginWithToken(w, t, op)
  PROVE  SessionInv'
<1> DEFINE r == [pc |-> "lookup", op |-> op, user |-> t.user]
<1>1. SessionTypeOK
  BY DEF SessionInv
<1>2. t.user \in User /\ t.type = op
  BY <1>1 DEF BeginWithToken, Accepts, SessionTypeOK, Token
<1>3. r \in Request /\ Goto(w, r)
  BY <1>2 DEF BeginWithToken, Request
<1>4. SessionTypeOK'
  BY <1>1, <1>3, GotoFrame DEF BeginWithToken, SessionTypeOK
<1>5. \A x \in User : MayMint(x)' => MayMint(x)
  BY <1>1, <1>3, FlightFrame DEF MayMint, BeginWithToken
<1>6. \A x \in User : CanRenew(x)' => CanRenew(x)
  <2> SUFFICES ASSUME NEW x \in User, CanRenew(x)' PROVE CanRenew(x)
    OBVIOUS
  <2>1. CASE Renewing(x)' /\ ~Renewing(x)
    <3>1. r = [pc |-> "lookup", op |-> "refresh", user |-> x]
      BY <2>1, <1>1, <1>3, FlightFrame
    <3>2. t.user = x /\ t.type = "refresh"
      BY <3>1, <1>2
    <3> QED BY <3>2 DEF CanRenew
  <2>2. CASE ~(Renewing(x)' /\ ~Renewing(x))
    BY <2>2, <1>1, <1>3, FlightFrame DEF CanRenew, BeginWithToken
  <2> QED BY <2>1, <2>2
<1> QED BY <1>4, <1>5, <1>6, NothingGained DEF BeginWithToken

LEMMA LookUpKeeps ==
  ASSUME SessionInv, NEW w \in Worker, LookUp(w)
  PROVE  SessionInv'
<1> DEFINE r == IF req[w].user \notin active THEN Idle
                ELSE [pc   |-> IF req[w].op = "refresh" THEN "mint" ELSE "serve",
                      user |-> req[w].user]
<1>1. SessionTypeOK
  BY DEF SessionInv
<1>2. req[w] # Idle /\ req[w].pc = "lookup" /\ Goto(w, r) /\ req[w].user \in User
  BY <1>1, InFlight DEF LookUp
<1>3. r \in Request \cup {Idle}
  BY <1>2 DEF Request
<1>4. SessionTypeOK'
  BY <1>1, <1>2, <1>3, GotoFrame DEF LookUp, SessionTypeOK
<1>5. \A x \in User : r = [pc |-> "mint", user |-> x] => x \in active /\ Renewing(x)
  <2> SUFFICES ASSUME NEW x \in User, r = [pc |-> "mint", user |-> x]
               PROVE  x \in active /\ Renewing(x)
    OBVIOUS
  <2>1. r # Idle
    BY DEF Request
  <2>2. req[w].user \in active /\ req[w].user = x /\ req[w].op = "refresh"
    BY <2>1
  <2> QED BY <1>1, <1>2, <2>2, InFlight DEF Renewing
<1>6. \A x \in User : MayMint(x)' => MayMint(x)
  BY <1>1, <1>2, <1>3, <1>5, FlightFrame DEF MayMint, LookUp
<1>7. \A x \in User : r # [pc |-> "lookup", op |-> "refresh", user |-> x]
  <2> SUFFICES ASSUME NEW x \in User, r = [pc |-> "lookup", op |-> "refresh", user |-> x]
               PROVE  FALSE
    OBVIOUS
  <2>1. r # Idle
    BY DEF Request
  <2> QED BY <2>1
<1>8. \A x \in User : CanRenew(x)' => CanRenew(x)
  BY <1>1, <1>2, <1>3, <1>5, <1>7, FlightFrame DEF CanRenew, LookUp
<1> QED BY <1>4, <1>6, <1>8, NothingGained DEF LookUp

\* The end of a request, whether it is served or lost.
LEMMA EndKeeps ==
  ASSUME SessionInv, NEW w \in Worker, Goto(w, Idle), UNCHANGED <<active, tokens, shut, dry>>
  PROVE  SessionInv'
<1>1. SessionTypeOK
  BY DEF SessionInv
<1>2. SessionTypeOK'
  BY <1>1, GotoFrame DEF SessionTypeOK
<1>3. \A x \in User : Idle # [pc |-> "mint", user |-> x]
                     /\ Idle # [pc |-> "lookup", op |-> "refresh", user |-> x]
  BY DEF Request
<1>4. \A x \in User : (MayMint(x)' => MayMint(x)) /\ (CanRenew(x)' => CanRenew(x))
  BY <1>1, <1>3, FlightFrame DEF MayMint, CanRenew
<1> QED BY <1>2, <1>4, NothingGained

\* Who mints is still counted as active, so the new pair has nothing to make up.
LEMMA MintKeeps ==
  ASSUME SessionInv, NEW w \in Worker, Mint(w)
  PROVE  SessionInv'
<1> DEFINE u == req[w].user
<1>1. SessionTypeOK
  BY DEF SessionInv
<1>2. req[w] # Idle /\ req[w].pc = "mint" /\ u \in User /\ Minting(u)
  BY <1>1, InFlight DEF Mint, Minting
<1>3. shut[u] = 0 /\ dry[u] = 0
  BY <1>1, <1>2 DEF SessionInv, ShutBounds, DryBounds, MayMint, CanRenew, SessionTypeOK
<1>4. /\ tokens' = tokens \cup Pair(u) /\ Goto(w, Idle)
      /\ UNCHANGED <<active, shut, dry>>
  BY DEF Mint
<1>5. SessionTypeOK'
  BY <1>1, <1>2, <1>4, GotoFrame, PairTyped DEF SessionTypeOK
<1>6. \A x \in User : Idle # [pc |-> "mint", user |-> x]
                     /\ Idle # [pc |-> "lookup", op |-> "refresh", user |-> x]
  BY DEF Request
<1>7. \A x \in User : MayMint(x)' => MayMint(x)
  BY <1>1, <1>4, <1>6, FlightFrame DEF MayMint
<1>8. \A t \in tokens' : t \in tokens \/ (t.user = u /\ t.left = Life(t.type))
  BY <1>2, <1>4, PairTyped
<1>9. \A x \in User : CanRenew(x)' => CanRenew(x) \/ x = u
  BY <1>1, <1>4, <1>6, <1>8, FlightFrame DEF CanRenew
<1>10. \A t \in tokens' : t.type \in Types /\ t.user \in User /\ t.left \in Nat
  BY <1>5 DEF SessionTypeOK, Token
<1>11. ShutBounds'
  BY <1>3, <1>4, <1>7, <1>8, <1>10 DEF SessionInv, ShutBounds
<1>12. DryBounds'
  BY <1>3, <1>4, <1>8, <1>9, <1>10 DEF SessionInv, DryBounds
<1> QED BY <1>5, <1>11, <1>12 DEF SessionInv

-------------------------------------------------------------------------------
(* So does what happens around them *)

LEMMA DeactivateKeeps ==
  ASSUME SessionInv, NEW u \in User, Deactivate(u)
  PROVE  SessionInv'
<1>1. SessionTypeOK'
  BY DEF SessionInv, SessionTypeOK, Deactivate
<1>2. \A x \in User : (MayMint(x)' => MayMint(x)) /\ (CanRenew(x)' => CanRenew(x))
  BY DEF Deactivate, MayMint, CanRenew, Minting, Renewing
<1> QED BY <1>1, <1>2, NothingGained DEF Deactivate

LEMMA DiscardKeeps ==
  ASSUME SessionInv, NEW t \in tokens, Discard(t)
  PROVE  SessionInv'
<1>1. SessionTypeOK'
  BY DEF SessionInv, SessionTypeOK, Discard
<1>2. \A x \in User : (MayMint(x)' => MayMint(x)) /\ (CanRenew(x)' => CanRenew(x))
  BY DEF Discard, MayMint, CanRenew, Minting, Renewing
<1> QED BY <1>1, <1>2, NothingGained DEF Discard

LEMMA TickKeeps ==
  ASSUME SessionInv, Tick
  PROVE  SessionInv'
<1>1. SessionTypeOK /\ ShutBounds /\ DryBounds
  BY DEF SessionInv
<1>2. /\ \A u \in User : shut[u] \in 0..Horizon /\ dry[u] \in 0..Horizon
      /\ tokens \in SUBSET Token
  BY <1>1 DEF SessionTypeOK
<1>3. \A u \in User :
        /\ shut'[u] = IF MayMint(u) THEN 0 ELSE Counted(shut[u])
        /\ dry'[u] = IF CanRenew(u) /\ dry[u] = 0 THEN 0 ELSE Counted(dry[u])
  BY DEF Tick
<1>4. \A u \in User :
        /\ shut'[u] \in 0..Horizon /\ shut'[u] <= shut[u] + 1
        /\ dry'[u] \in 0..Horizon /\ dry'[u] <= dry[u] + 1
  BY <1>2, <1>3, CountedTyped
<1>5. \A t \in tokens' :
        /\ t \in Token
        /\ \E x \in tokens : t.user = x.user /\ t.type = x.type /\ t.left = x.left - 1
  BY <1>2, AgedTyped DEF Tick
<1>6. SessionTypeOK'
  BY <1>1, <1>4, <1>5 DEF SessionTypeOK, Tick
<1>7. \A u \in User : MayMint(u)' => MayMint(u)
  BY DEF Tick, MayMint, Minting
<1>8. \A u \in User : CanRenew(u)' => CanRenew(u)
  <2>1. \A u \in User : (Minting(u)' => Minting(u)) /\ (Renewing(u)' => Renewing(u))
    BY DEF Tick, Minting, Renewing
  <2>2. ASSUME NEW u \in User, NEW t \in tokens', t.user = u, t.type = "refresh"
        PROVE  \E x \in tokens : x.user = u /\ x.type = "refresh"
    BY <1>5, <2>2
  <2> QED BY <2>1, <2>2 DEF CanRenew
<1>9. \A x \in tokens : x.user \in User /\ x.type \in Types /\ x.left \in Nat
                       /\ x.left <= Life(x.type)
  BY <1>2 DEF Token
<1>10. ShutBounds'
  <2>1. \A u \in User : shut'[u] > 0 => ~MayMint(u)'
    BY <1>3, <1>7
  <2>2. \A t \in tokens' : t.left + shut'[t.user] <= Life(t.type)
    BY <1>1, <1>2, <1>4, <1>5, <1>9 DEF ShutBounds
  <2> QED BY <2>1, <2>2 DEF ShutBounds
<1>11. DryBounds'
  <2>1. \A u \in User : dry'[u] > 0 => ~CanRenew(u)'
    BY <1>1, <1>2, <1>3, <1>8 DEF DryBounds
  <2>2. ASSUME NEW t \in tokens', dry'[t.user] > 0
        PROVE  t.left + dry'[t.user] <= ACCESS_TOKEN_EXPIRE
    <3>1. PICK x \in tokens : t.user = x.user /\ t.type = x.type /\ t.left = x.left - 1
      BY <1>5
    <3>2. CASE dry[x.user] > 0
      BY <1>1, <1>2, <1>4, <1>9, <3>1, <3>2 DEF DryBounds
    <3>3. CASE dry[x.user] = 0
      <4>1. ~CanRenew(x.user)
        BY <1>3, <1>9, <2>2, <3>1, <3>3
      <4>2. x.type = "access"
        BY <1>9, <4>1 DEF CanRenew
      <4>3. x.left <= ACCESS_TOKEN_EXPIRE
        BY <1>9, <4>2
      <4> QED BY <1>4, <1>9, <3>1, <3>3, <4>3
    <3> QED BY <1>2, <1>9, <3>1, <3>2, <3>3
  <2> QED BY <2>1, <2>2 DEF DryBounds
<1> QED BY <1>6, <1>10, <1>11 DEF SessionInv

-------------------------------------------------------------------------------
(* The invariant *)

LEMMA SessionInitInv == SessionInit => SessionInv
<1> SUFFICES ASSUME SessionInit PROVE SessionInv
  OBVIOUS
<1>1. SessionTypeOK
  BY DEF SessionInit, SessionTypeOK
<1>2. ShutBounds /\ DryBounds
  BY DEF SessionInit, ShutBounds, DryBounds
<1> QED BY <1>1, <1>2 DEF SessionInv

LEMMA SessionStepInv == SessionInv /\ [SessionNext]_svars => SessionInv'
<1> SUFFICES ASSUME SessionInv, [SessionNext]_svars PROVE SessionInv'
  OBVIOUS
<1>1. ASSUME NEW w \in Worker, Arrive(w) PROVE SessionInv'
  BY <1>1, BeginLoginKeeps, BeginWithTokenKeeps DEF Arrive
<1>2. ASSUME NEW w \in Worker, Proceed(w) PROVE SessionInv'
  BY <1>2, LookUpKeeps, MintKeeps, EndKeeps DEF Proceed, Serve
<1>3. ASSUME NEW w \in Worker, Fail(w) PROVE SessionInv'
  BY <1>3, EndKeeps DEF Fail
<1>4. CASE Tick
  BY <1>4, TickKeeps
<1>5. CASE UNCHANGED svars
  BY <1>5 DEF svars, SessionInv, SessionTypeOK, ShutBounds, DryBounds, MayMint, CanRenew,
              Minting, Renewing
<1> QED BY <1>1, <1>2, <1>3, <1>4, <1>5, DeactivateKeeps, DiscardKeeps DEF SessionNext

THEOREM SessionInvariant == SessionSpec => []SessionInv
BY SessionInitInv, SessionStepInv, PTL DEF SessionSpec

\* Tokens are within their lifetimes, and requests are what they should be.
THEOREM SessionsTyped == SessionSpec => []SessionTypeOK
<1>1. SessionInv => SessionTypeOK
  BY DEF SessionInv
<1> QED BY <1>1, SessionInvariant, PTL

\* A deactivated account is shut out one lifetime after the last pair that was
\* on its way, whatever races its deactivation.
THEOREM ShutOut == SessionSpec => []ShutOutInTime
<1>1. SessionInv => ShutOutInTime
  <2> SUFFICES ASSUME SessionInv, NEW u \in User, NEW t \in tokens, t.user = u
               PROVE  shut[u] < Life(t.type)
    BY DEF ShutOutInTime
  <2>1. t.left \in Nat \ {0} /\ t.type \in Types /\ shut[u] \in 0..Horizon
    BY DEF SessionInv, SessionTypeOK, Token
  <2>2. t.left + shut[u] <= Life(t.type)
    BY DEF SessionInv, ShutBounds
  <2> QED BY <2>1, <2>2
<1> QED BY <1>1, SessionInvariant, PTL

\* Without a refresh token a session does not outlive its access tokens.
THEOREM LoggedOut == SessionSpec => []LoggedOutInTime
<1>1. SessionInv => LoggedOutInTime
  <2> SUFFICES ASSUME SessionInv, NEW u \in User, NEW t \in tokens, t.user = u
               PROVE  dry[u] < ACCESS_TOKEN_EXPIRE
    BY DEF LoggedOutInTime
  <2>1. t.left \in Nat \ {0} /\ dry[u] \in 0..Horizon
    BY DEF SessionInv, SessionTypeOK, Token
  <2>2. dry[u] > 0 => t.left + dry[u] <= ACCESS_TOKEN_EXPIRE
    BY DEF SessionInv, DryBounds
  <2> QED BY <2>1, <2>2
<1> QED BY <1>1, SessionInvariant, PTL

-------------------------------------------------------------------------------
(* What a deactivated account cannot get again *)

\* Only a login and a look-up let a request past its check, and both find the
\* account active.
LEMMA NobodyAdmitted ==
  ASSUME SessionTypeOK, [SessionNext]_svars, NEW u \in User \ active,
         NEW v \in Worker, Admitted(v, u)'
  PROVE  Admitted(v, u)
<1>1. CASE UNCHANGED req
  BY <1>1 DEF Admitted
<1>2. ASSUME NEW w \in Worker, NEW r \in Request \cup {Idle}, Goto(w, r),
             r # Idle /\ r.pc # "lookup" => r.user \in active
      PROVE  Admitted(v, u)
  BY <1>2, GotoFrame DEF Admitted
<1>3. ASSUME NEW w \in Worker, NEW x \in User, BeginLogin(w, x) PROVE Admitted(v, u)
  <2>1. [pc |-> "mint", user |-> x] \in Request
    BY DEF Request
  <2> QED BY <1>2, <1>3, <2>1 DEF BeginLogin
<1>4. ASSUME NEW w \in Worker, NEW t \in tokens, NEW op \in Types, BeginWithToken(w, t, op)
      PROVE  Admitted(v, u)
  <2>1. [pc |-> "lookup", op |-> op, user |-> t.user] \in Request
    BY DEF Request, SessionTypeOK, Token
  <2> QED BY <1>2, <1>4, <2>1 DEF BeginWithToken
<1>5. ASSUME NEW w \in Worker, LookUp(w) PROVE Admitted(v, u)
  <2>1. req[w].user \in User
    BY <1>5, InFlight DEF LookUp
  <2>2. CASE req[w].user \notin active
    BY <1>2, <1>5, <2>2 DEF LookUp
  <2>3. CASE req[w].user \in active
    <3> DEFINE r == [pc |-> IF req[w].op = "refresh" THEN "mint" ELSE "serve",
                     user |-> req[w].user]
    <3>1. r \in Request /\ r.user \in active
      BY <2>1, <2>3 DEF Request
    <3>2. Goto(w, r)
      BY <1>5, <2>3 DEF LookUp
    <3> QED BY <1>2, <3>1, <3>2
  <2> QED BY <2>2, <2>3
<1>6. ASSUME NEW w \in Worker, Mint(w) \/ Serve(w) \/ Fail(w) PROVE Admitted(v, u)
  BY <1>2, <1>6 DEF Mint, Serve, Fail
<1>7. (\E x \in User : Deactivate(x)) \/ (\E t \in tokens : Discard(t)) \/ Tick => UNCHANGED req
  BY DEF Deactivate, Discard, Tick
<1> QED BY <1>1, <1>3, <1>4, <1>5, <1>6, <1>7 DEF SessionNext, Arrive, Proceed, svars

\* Only a mint makes tokens; time and clients only take.
LEMMA NothingMinted ==
  ASSUME SessionTypeOK, [SessionNext]_svars, NEW u \in User, ~Minting(u),
         NEW t \in tokens', t.user = u
  PROVE  \E x \in tokens : x.user = u /\ x.type = t.type /\ x.left >= t.left
<1>1. \A x \in tokens : x \in Token /\ x.left \in Nat
  BY DEF SessionTypeOK, Token
<1>2. CASE t \in tokens
  BY <1>1, <1>2
<1>3. CASE Tick
  <2>1. PICK x \in tokens : t.user = x.user /\ t.type = x.type /\ t.left = x.left - 1
    BY <1>3, AgedTyped DEF Tick, SessionTypeOK
  <2> QED BY <1>1, <2>1
<1>4. ASSUME NEW w \in Worker, Mint(w) PROVE t \in tokens
  <2>1. /\ req[w].user \in User /\ req[w].user # u
        /\ tokens' = tokens \cup Pair(req[w].user)
    BY <1>4, InFlight DEF Mint, Minting
  <2> QED BY <2>1, PairTyped
<1>5. CASE ~Tick /\ ~\E w \in Worker : Mint(w)
  BY <1>2, <1>5 DEF SessionNext, Arrive, Proceed, BeginLogin, BeginWithToken, LookUp, Serve,
     Fail, Deactivate, Discard, svars
<1> QED BY <1>2, <1>3, <1>4, <1>5

\* A deactivated account passes no check again, and gets no token that was not on
\* its way already, whatever its clients hold and send.
THEOREM ShutForGood == SessionSpec => NeverReadmitted
<1>1. ASSUME SessionTypeOK, [SessionNext]_svars
      PROVE  [\A u \in User \ active :
                /\ u \notin active'
                /\ \A w \in Worker : Admitted(w, u)' => Admitted(w, u)
                /\ Minting(u) \/ \A t \in tokens' : t.user = u =>
                     \E x \in tokens : x.user = u /\ x.type = t.type /\ x.left >= t.left]_svars
  <2>1. active' \subseteq active
    BY <1>1 DEF SessionNext, Arrive, Proceed, BeginLogin, BeginWithToken, LookUp, Mint, Serve,
       Fail, Deactivate, Discard, Tick, svars
  <2> QED BY <1>1, <2>1, NobodyAdmitted, NothingMinted
<1> QED BY <1>1, SessionsTyped, PTL DEF SessionSpec, NeverReadmitted
=============================================================================
