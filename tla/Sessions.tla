------------------------------ MODULE Sessions ------------------------------
(***************************************************************************)
(* What a token is worth, and for how long: the tokens AuthService issues  *)
(* (issueTokens, refreshTokens), the two global guards every request       *)
(* passes (src/src/core/auth/guards/: AuthenticationGuard with             *)
(* AccessTokenGuard, then RolesGuard) and the routes behind them. One      *)
(* action per await; time passes between any two of them.                  *)
(*                                                                         *)
(* A token carries the row it was issued from: its wallet and the role the *)
(* wallet had when the row was read. Access and refresh tokens differ in   *)
(* their lifetime only. The role column is edited by an operator; no route *)
(* of the service writes it.                                               *)
(***************************************************************************)
EXTENDS Integers

CONSTANTS
    Wallets,
    Calls,       \* HTTP calls, each made at most once
    AccessTtl,   \* lifetime of an access token (15 hours)
    RefreshTtl,  \* lifetime of a refresh token (7 days)
    Horizon,     \* bound on the clock
    MaxEdits,    \* bound on the edits of roles
    NoToken

ASSUME TtlAssumption == /\ {AccessTtl, RefreshTtl, Horizon, MaxEdits} \subseteq Nat
                        /\ AccessTtl < RefreshTtl

VARIABLES
    now,      \* the clock, in units longer than a call takes
    role,     \* the role column of each wallet's row
    demoted,  \* when a wallet last ceased to be an administrator
    edits,    \* edits of roles so far
    tokens,   \* tokens issued so far
    pc,       \* where each call is
    started,  \* when it came in
    route,    \* the route it calls
    bearer,   \* the token in its header
    body,     \* the token in its body
    held      \* the payload or row its handler works with

clock == <<now, demoted>>
account == <<role, edits>>
request == <<started, route, bearer, body>>
vars == <<clock, account, tokens, pc, request, held>>

Roles == {"User", "Admin"}
Routes == {"verify", "refresh", "token"}
Ttls == {AccessTtl, RefreshTtl}

Payloads == [wallet : Wallets, role : Roles]
Tokens == [wallet : Wallets, role : Roles, exp : 0 .. Horizon + RefreshTtl]

\* Before any token that is still valid was issued.
LongAgo == -RefreshTtl - 2

Open == {c \in Calls : pc[c] \in {"guard", "roles", "body", "load", "issue", "handler"}}

SessionsTypeOK ==
    /\ now \in 0 .. Horizon
    /\ role \in [Wallets -> Roles]
    /\ demoted \in [Wallets -> LongAgo .. Horizon]
    /\ edits \in 0 .. MaxEdits
    /\ tokens \subseteq Tokens
    /\ pc \in [Calls -> {"idle", "guard", "roles", "body", "load", "issue", "handler",
                         "answered", "refused"}]
    /\ started \in [Calls -> 0 .. Horizon]
    /\ \A c \in Open : started[c] \in {now, now - 1}
    /\ route \in [Calls -> Routes]
    /\ bearer \in [Calls -> tokens \union {NoToken}]
    /\ body \in [Calls -> tokens \union {NoToken}]
    /\ held \in [Calls -> Payloads]
    /\ \A w \in Wallets : demoted[w] <= now

Init ==
    /\ now = 0
    /\ role \in [Wallets -> Roles]
    /\ demoted = [w \in Wallets |-> LongAgo]
    /\ edits = 0
    /\ tokens = {}
    /\ pc = [c \in Calls |-> "idle"]
    /\ started = [c \in Calls |-> 0]
    /\ route \in [Calls -> Routes]
    /\ bearer = [c \in Calls |-> NoToken]
    /\ body = [c \in Calls |-> NoToken]
    /\ held \in [Calls -> {[wallet |-> w, role |-> "User"] : w \in Wallets}]

Goto(c, s) == pc' = [pc EXCEPT ![c] = s]

\* verifyAsync: the signature is the service's and the token has not expired.
Valid(t) == t # NoToken /\ now < t.exp

\* A call arrives, with tokens the client was given; verify reads none.
Arrives(c) ==
    /\ pc[c] = "idle"
    /\ started' = [started EXCEPT ![c] = now]
    /\ IF route[c] # "verify"
         THEN \E t \in tokens \union {NoToken} : bearer' = [bearer EXCEPT ![c] = t]
         ELSE UNCHANGED bearer
    /\ IF route[c] = "refresh"
         THEN \E t \in tokens \union {NoToken} : body' = [body EXCEPT ![c] = t]
         ELSE UNCHANGED body
    /\ Goto(c, "guard")
    /\ UNCHANGED <<clock, account, tokens, route, held>>

-----------------------------------------------------------------------------
(* The guards.                                                             *)

\* @Auth: one of the named types has to let the call in, Bearer if none is named.
AuthTypes(r) == IF r = "verify" THEN {"None"} ELSE {"Bearer"}

\* @Roles of the controller; a route without it is open to every role.
AllowedRoles(r) == IF r = "token" THEN {"Admin"} ELSE Roles

\* What follows the guards: verify has a signed nonce (SignIn) and reads the row
\* next, refresh looks at the token in the body.
AfterGuards(r) == CASE r = "verify"  -> "load"
                    [] r = "refresh" -> "body"
                    [] r = "token"   -> "handler"

\* The payload of the bearer token becomes the user of the request.
AuthenticationGuard(c) ==
    /\ pc[c] = "guard"
    /\ \/ /\ "None" \in AuthTypes(route[c])
          /\ Goto(c, "roles")
          /\ UNCHANGED held
       \/ /\ "Bearer" \in AuthTypes(route[c])
          /\ Valid(bearer[c])
          /\ held' = [held EXCEPT ![c] = [wallet |-> bearer[c].wallet, role |-> bearer[c].role]]
          /\ Goto(c, "roles")
       \/ /\ "Bearer" \in AuthTypes(route[c])
          /\ ~Valid(bearer[c])
          /\ Goto(c, "refused")
          /\ UNCHANGED held
    /\ UNCHANGED <<clock, account, tokens, request>>

\* The role is the one in the token.
RolesGuard(c) ==
    /\ pc[c] = "roles"
    /\ Goto(c, IF route[c] = "verify" \/ held[c].role \in AllowedRoles(route[c])
               THEN AfterGuards(route[c]) ELSE "refused")
    /\ UNCHANGED <<clock, account, tokens, request, held>>

-----------------------------------------------------------------------------
(* The handlers.                                                           *)

\* Mutant: the session of the header's wallet is carried on.
VerifyRefreshToken_Bearer(c) ==
    /\ pc[c] = "body"
    /\ IF Valid(body[c])
         THEN /\ held' = [held EXCEPT ![c].wallet = bearer[c].wallet]
              /\ Goto(c, "load")
         ELSE Goto(c, "refused") /\ UNCHANGED held
    /\ UNCHANGED <<clock, account, tokens, request>>

\* verifyRefreshToken up to the look-up: any token of the service will do.
VerifyRefreshToken(c) ==
    /\ pc[c] = "body"
    /\ IF Valid(body[c])
         THEN /\ held' = [held EXCEPT ![c] = [wallet |-> body[c].wallet, role |-> body[c].role]]
              /\ Goto(c, "load")
         ELSE Goto(c, "refused") /\ UNCHANGED held
    /\ UNCHANGED <<clock, account, tokens, request>>

\* Mutant: a refresh issues the new tokens from the old one.
LoadUser_FromToken(c) ==
    /\ pc[c] = "load"
    /\ held' = IF route[c] = "refresh" THEN held
               ELSE [held EXCEPT ![c].role = role[held[c].wallet]]
    /\ Goto(c, "issue")
    /\ UNCHANGED <<clock, account, tokens, request>>

\* findUserByWalletAddress: the row, with the role it has now.
LoadUser(c) ==
    /\ pc[c] = "load"
    /\ held' = [held EXCEPT ![c].role = role[held[c].wallet]]
    /\ Goto(c, "issue")
    /\ UNCHANGED <<clock, account, tokens, request>>

\* signToken
Signed(p, ttl) == [wallet |-> p.wallet, role |-> p.role, exp |-> now + ttl]

\* issueTokens
IssueTokens(c) ==
    /\ pc[c] = "issue"
    /\ tokens' = tokens \union {Signed(held[c], ttl) : ttl \in Ttls}
    /\ Goto(c, "answered")
    /\ UNCHANGED <<clock, account, request, held>>

\* A route of the token catalogue does its work.
RunTokenRoute(c) ==
    /\ pc[c] = "handler"
    /\ Goto(c, "answered")
    /\ UNCHANGED <<clock, account, tokens, request, held>>

-----------------------------------------------------------------------------

\* An operator edits the role column.
SetRole(w) ==
    /\ edits < MaxEdits
    /\ edits' = edits + 1
    /\ role' = [role EXCEPT ![w] = IF @ = "Admin" THEN "User" ELSE "Admin"]
    /\ demoted' = IF role[w] = "Admin" THEN [demoted EXCEPT ![w] = now] ELSE demoted
    /\ UNCHANGED <<now, tokens, pc, request, held>>

\* A call does not outlast the unit after the one it came in.
Tick ==
    /\ now < Horizon
    /\ \A c \in Open : started[c] = now
    /\ now' = now + 1
    /\ UNCHANGED <<demoted, account, tokens, pc, request, held>>

Next ==
    \/ \E c \in Calls : \/ Arrives(c) \/ AuthenticationGuard(c) \/ RolesGuard(c)
                        \/ VerifyRefreshToken(c) \/ LoadUser(c) \/ IssueTokens(c)
                        \/ RunTokenRoute(c)
    \/ \E w \in Wallets : SetRole(w)
    \/ Tick

Spec == Init /\ [][Next]_vars

-----------------------------------------------------------------------------
(* Properties.                                                             *)

\* Only administrators reach the catalogue, and a wallet that lost the role does
\* for at most the lifetime of a refresh token and one unit for the calls that
\* were running, however often it refreshes, although no guard reads the row
\* (access-token.guard.ts:21-23, roles.guard.ts:24-26, auth.service.ts:78-97).
RoleIsLostInTime ==
    \A c \in Calls : pc[c] = "handler" =>
        LET w == held[c].wallet
        IN  role[w] = "Admin" \/ now <= demoted[w] + RefreshTtl + 1

\* A session is carried on from a token that was live when the refresh call came
\* in, and for the wallet of that token, not of the one in the header
\* (auth.service.ts:78-97).
RefreshFromLiveToken ==
    \A c \in Calls : (route[c] = "refresh" /\ pc[c] \in {"load", "issue"})
        => started[c] < body[c].exp /\ held[c].wallet = body[c].wallet

=============================================================================
