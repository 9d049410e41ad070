------------------------------- MODULE Sessions -------------------------------
(***************************************************************************)
(* Access and refresh tokens.  The server stores nothing about them: a     *)
(* token is good until it expires, and an account that is deactivated is   *)
(* shut out because every use of a token looks the account up again.  A    *)
(* request checks first and mints later, and an admin may deactivate the   *)
(* account in between.                                                     *)
(***************************************************************************)
EXTENDS Naturals

CONSTANTS
  User,
  ACCESS_TOKEN_EXPIRE,    \* lifetimes, in ticks of a coarse clock
  REFRESH_TOKEN_EXPIRE,
  Worker,                 \* requests that may be in flight at once
  MayFail,                \* may the server lose a request half way?
  Idle                    \* no request is in flight

ASSUME LifetimeAssumption ==
  ACCESS_TOKEN_EXPIRE \in Nat \ {0} /\ REFRESH_TOKEN_EXPIRE \in Nat \ {0}
ASSUME FailureAssumption == MayFail \in BOOLEAN

Types == {"access", "refresh"}

Life(type) == IF type = "access" THEN ACCESS_TOKEN_EXPIRE ELSE REFRESH_TOKEN_EXPIRE

\* A token that has not expired, with the ticks it has left.
Token == {t \in [user : User, type : Types, left : Nat \ {0}] : t.left <= Life(t.type)}

Request == [pc : {"lookup"}, op : Types, user : User] \cup [pc : {"mint", "serve"}, user : User]

ASSUME IdleAssumption == Idle \notin Request

VARIABLES
  active,   \* the accounts that are not deactivated
  tokens,   \* the tokens clients hold that have not expired
  req,      \* what each worker does
  (* history, counted up to Horizon *)
  shut,     \* ticks since nothing could be minted for the account any more
  dry       \* ticks since the account's clients could not renew, up to a login

svars == <<active, tokens, req, shut, dry>>

Horizon == IF ACCESS_TOKEN_EXPIRE > REFRESH_TOKEN_EXPIRE
             THEN ACCESS_TOKEN_EXPIRE ELSE REFRESH_TOKEN_EXPIRE

-------------------------------------------------------------------------------
\* Mutant: the type claim is not looked at.
AcceptsAny(t, expected_type) == t \in tokens /\ expected_type \in Types

\* decode_token: the signature, the expiry and the type claim.
Accepts(t, expected_type) == t \in tokens /\ t.type = expected_type

\* Mutant: both tokens are minted with the longer lifetime.
PairForLong(u) ==
  {[user |-> u, type |-> y, left |-> REFRESH_TOKEN_EXPIRE] : y \in Types}

\* _tokens_for
Pair(u) == {[user |-> u, type |-> y, left |-> Life(y)] : y \in Types}

Minting(u) == \E w \in Worker : req[w] = [pc |-> "mint", user |-> u]

Renewing(u) == \E w \in Worker : req[w] = [pc |-> "lookup", op |-> "refresh", user |-> u]

\* A pair may still be minted for the account, now or later.
MayMint(u) == u \in active \/ Minting(u)

\* The account's clients can get new tokens without a password.
CanRenew(u) ==
  Minting(u) \/ Renewing(u) \/ \E t \in tokens : t.user = u /\ t.type = "refresh"

-------------------------------------------------------------------------------
(* Requests *)

Goto(w, r) == req' = [req EXCEPT ![w] = r]

\* login: the account is read by its email and its password and activity checked.
BeginLogin(w, u) ==
  /\ req[w] = Idle
  /\ u \in active
  /\ Goto(w, [pc |-> "mint", user |-> u])
  /\ dry' = [dry EXCEPT ![u] = 0]
  /\ UNCHANGED <<active, tokens, shut>>

\* refresh, and get_current_user for any other endpoint: the token is decoded.
BeginWithToken(w, t, op) ==
  /\ req[w] = Idle
  /\ Accepts(t, op)
  /\ Goto(w, [pc |-> "lookup", op |-> op, user |-> t.user])
  /\ UNCHANGED <<active, tokens, shut, dry>>

\* Mutant: a refresh token that decodes is enough.
LookUpToServe(w) ==
  /\ req[w] # Idle /\ req[w].pc = "lookup"
  /\ Goto(w, IF req[w].op = "refresh" THEN [pc |-> "mint", user |-> req[w].user]
             ELSE IF req[w].user \in active THEN [pc |-> "serve", user |-> req[w].user]
             ELSE Idle)
  /\ UNCHANGED <<active, tokens, shut, dry>>

\* user_crud.get and the check of is_active, which answers 401.
LookUp(w) ==
  /\ req[w] # Idle /\ req[w].pc = "lookup"
  /\ Goto(w, IF req[w].user \notin active THEN Idle
             ELSE [pc   |-> IF req[w].op = "refresh" THEN "mint" ELSE "serve",
                   user |-> req[w].user])
  /\ UNCHANGED <<active, tokens, shut, dry>>

\* login and refresh answer with a new pair.  The refresh token stays good.
Mint(w) ==
  /\ req[w] # Idle /\ req[w].pc = "mint"
  /\ tokens' = tokens \cup Pair(req[w].user)
  /\ Goto(w, Idle)
  /\ UNCHANGED <<active, shut, dry>>

\* The endpoint does its work.
Serve(w) ==
  /\ req[w] # Idle /\ req[w].pc = "serve"
  /\ Goto(w, Idle)
  /\ UNCHANGED <<active, tokens, shut, dry>>

Fail(w) ==
  /\ MayFail
  /\ req[w] # Idle
  /\ Goto(w, Idle)
  /\ UNCHANGED <<active, tokens, shut, dry>>

-------------------------------------------------------------------------------
(* What happens around them *)

\* An admin deactivates the account; no endpoint activates one.
Deactivate(u) ==
  /\ u \in active
  /\ active' = active \ {u}
  /\ UNCHANGED <<tokens, req, shut, dry>>

\* The client forgets a token.  That is all a logout comes to: the endpoint
\* revokes nothing.
Discard(t) ==
  /\ t \in tokens
  /\ tokens' = tokens \ {t}
  /\ UNCHANGED <<active, req, shut, dry>>

\* Mutant: refresh tokens are minted without exp.
AgedAccess(toks) ==
  {t \in toks : t.type = "refresh"} \cup
  {[t EXCEPT !.left = @ - 1] : t \in {x \in toks : x.type = "access" /\ x.left > 1}}

\* The tokens a tick later.
Aged(toks) == {[t EXCEPT !.left = @ - 1] : t \in {x \in toks : x.left > 1}}

Counted(n) == IF n < Horizon THEN n + 1 ELSE n

Tick ==
  /\ tokens' = Aged(tokens)
  /\ shut' = [u \in User |-> IF MayMint(u) THEN 0 ELSE Counted(shut[u])]
  /\ dry' = [u \in User |-> IF CanRenew(u) /\ dry[u] = 0 THEN 0 ELSE Counted(dry[u])]
  /\ UNCHANGED <<active, req>>

-------------------------------------------------------------------------------
Arrive(w) ==
  \/ \E u \in User : BeginLogin(w, u)
  \/ \E t \in tokens, op \in Types : BeginWithToken(w, t, op)

Proceed(w) == LookUp(w) \/ Mint(w) \/ Serve(w)

\* The accounts are registered, nobody is logged in.
SessionInit ==
  /\ active = User
  /\ tokens = {}
  /\ req = [w \in Worker |-> Idle]
  /\ shut = [u \in User |-> 0]
  /\ dry = [u \in User |-> 0]

SessionNext ==
  \/ \E w \in Worker : Arrive(w) \/ Proceed(w) \/ Fail(w)
  \/ \E u \in User : Deactivate(u)
  \/ \E t \in tokens : Discard(t)
  \/ Tick

SessionSpec == SessionInit /\ [][SessionNext]_svars

\* Time passes, and the event loop runs every request on.  Nobody has to log in,
\* and nobody has to be deactivated.
FairSessionSpec ==
  SessionSpec /\ WF_svars(Tick) /\ \A w \in Worker : WF_svars(Proceed(w))

-------------------------------------------------------------------------------
(* Properties *)

\* Tokens are within their lifetimes, requests and counters well typed.
SessionTypeOK ==
  /\ active \subseteq User
  /\ tokens \subseteq Token
  /\ req \in [Worker -> Request \cup {Idle}]
  /\ shut \in [User -> 0..Horizon] /\ dry \in [User -> 0..Horizon]

\* Nothing revokes a token, and yet a deactivated account is shut out in time:
\* one lifetime after the deactivation and the last pair a request then in flight
\* was still to mint, its access tokens are gone, then its refresh tokens.
ShutOutInTime ==
  \A u \in User, t \in tokens : t.user = u => shut[u] < Life(t.type)

\* Whose clients dropped their refresh tokens (a logout) is logged out within
\* the lifetime of an access token, until the next login: an access token renews
\* nothing.
LoggedOutInTime ==
  \A u \in User, t \in tokens : t.user = u => dry[u] < ACCESS_TOKEN_EXPIRE

\* A request of the account is past its check.
Admitted(w, u) == req[w] # Idle /\ req[w].pc # "lookup" /\ req[w].user = u

\* A deactivated account is never let in again: no request of it passes a check
\* once more, and unless a pair was on its way, its clients hold no token they did
\* not hold before, nor one for any longer, whatever they send.
NeverReadmitted ==
  [][\A u \in User \ active :
       /\ u \notin active'
       /\ \A w \in Worker : Admitted(w, u)' => Admitted(w, u)
       /\ Minting(u) \/ \A t \in tokens' : t.user = u =>
            \E x \in tokens : x.user = u /\ x.type = t.type /\ x.left >= t.left]_svars

\* A deactivated account comes to have no token and no request in flight that is
\* past its check, and never has again, whatever its clients go on sending.
DeactivatedGone ==
  \A u \in User :
    u \notin active ~>
      [](/\ \A t \in tokens : t.user # u
         /\ \A w \in Worker : ~Admitted(w, u))
=============================================================================
