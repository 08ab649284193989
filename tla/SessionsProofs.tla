--------------------------- MODULE SessionsProofs ---------------------------
(***************************************************************************)
(* Theorems about Sessions: for any lifetimes of the two tokens, any       *)
(* number of wallets and calls, and any edits of roles.                    *)
(***************************************************************************)
EXTENDS Sessions, TLAPS

\* An administrator's token outlives the role by a refresh lifetime and a unit.
TokensFade ==
    \A t \in tokens :
        /\ t.exp <= now + RefreshTtl
        /\ t.role = "Admin" =>
             role[t.wallet] = "Admin" \/ t.exp <= demoted[t.wallet] + RefreshTtl + 1

\* A call past the guards holds a token that was live when the call came in.
GuardsKnow ==
    \A c \in Calls :
        /\ (pc[c] = "roles" /\ route[c] = "token" /\ held[c].role = "Admin") \/ pc[c] = "handler"
             => \/ role[held[c].wallet] = "Admin"
                \/ started[c] <= demoted[held[c].wallet] + RefreshTtl
        /\ pc[c] = "handler" => route[c] = "token"

\* A row that was read since the call came in had the role it is taken for.
RowsAreFresh ==
    \A c \in Calls : (pc[c] = "issue" /\ held[c].role = "Admin")
        => role[held[c].wallet] = "Admin" \/ started[c] <= demoted[held[c].wallet]

SessionsInv ==
    /\ SessionsTypeOK
    /\ TokensFade
    /\ GuardsKnow
    /\ RowsAreFresh
    /\ RefreshFromLiveToken

LEMMA SessionsInit == Init => SessionsInv
<1> SUFFICES ASSUME Init PROVE SessionsInv
  OBVIOUS
<1>1. SessionsTypeOK
  BY TtlAssumption DEF Init, SessionsTypeOK, Open, LongAgo, Payloads, Roles, Routes
<1>2. QED
  BY <1>1 DEF Init, SessionsInv, TokensFade, GuardsKnow, RowsAreFresh, RefreshFromLiveToken

LEMMA SessionsStutter == SessionsInv /\ UNCHANGED vars => SessionsInv'
BY DEF SessionsInv, SessionsTypeOK, TokensFade, GuardsKnow, RowsAreFresh, RefreshFromLiveToken,
       Open, Tokens, vars, clock, account, request

\* A call runs within the unit it came in or the next.
LEMMA CallsAreShort ==
    ASSUME SessionsTypeOK, NEW c \in Calls,
           pc[c] \in {"guard", "roles", "body", "load", "issue", "handler"}
    PROVE  started[c] <= now /\ now <= started[c] + 1 /\ started[c] \in Int /\ now \in Int
BY TtlAssumption DEF SessionsTypeOK, Open

-----------------------------------------------------------------------------
(* Types.                                                                  *)

LEMMA TypesOfCalls ==
    ASSUME SessionsTypeOK, NEW c \in Calls,
           \/ Arrives(c) \/ AuthenticationGuard(c) \/ RolesGuard(c)
           \/ VerifyRefreshToken(c) \/ LoadUser(c) \/ RunTokenRoute(c)
    PROVE  SessionsTypeOK'
<1>1. /\ UNCHANGED <<clock, account, tokens, route>>
      /\ \E s \in {"guard", "roles", "refused", "body", "load", "issue", "handler", "answered"} : Goto(c, s)
  BY DEF Arrives, AuthenticationGuard, RolesGuard, VerifyRefreshToken, LoadUser, RunTokenRoute,
         AfterGuards, request, SessionsTypeOK, Routes
<1>2. /\ bearer' \in [Calls -> tokens \union {NoToken}]
      /\ body' \in [Calls -> tokens \union {NoToken}]
  BY DEF Arrives, AuthenticationGuard, RolesGuard, VerifyRefreshToken, LoadUser, RunTokenRoute,
         request, SessionsTypeOK
<1>3. held' \in [Calls -> Payloads]
  <2>1. CASE AuthenticationGuard(c)
    <3>1. bearer[c] # NoToken => bearer[c] \in Tokens
      BY DEF SessionsTypeOK
    <3>2. bearer[c] # NoToken => [wallet |-> bearer[c].wallet, role |-> bearer[c].role] \in Payloads
      BY <3>1 DEF Tokens, Payloads
    <3>3. QED BY <2>1, <3>2 DEF AuthenticationGuard, Valid, SessionsTypeOK
  <2>2. CASE VerifyRefreshToken(c)
    <3>1. body[c] # NoToken => body[c] \in Tokens
      BY DEF SessionsTypeOK
    <3>2. body[c] # NoToken => [wallet |-> body[c].wallet, role |-> body[c].role] \in Payloads
      BY <3>1 DEF Tokens, Payloads
    <3>3. QED BY <2>2, <3>2 DEF VerifyRefreshToken, Valid, SessionsTypeOK
  <2>3. CASE LoadUser(c)
    BY <2>3 DEF LoadUser, SessionsTypeOK, Payloads
  <2>4. CASE UNCHANGED held
    BY <2>4 DEF SessionsTypeOK
  <2>5. QED
    BY <2>1, <2>2, <2>3, <2>4 DEF Arrives, RolesGuard, RunTokenRoute
<1>4. /\ started' \in [Calls -> 0 .. Horizon]
      /\ \A d \in Open' : started'[d] \in {now, now - 1}
  <2>1. CASE Arrives(c)
    <3>1. started' = [started EXCEPT ![c] = now] /\ \A d \in Calls : d # c => pc'[d] = pc[d]
      BY <2>1 DEF Arrives, Goto, SessionsTypeOK
    <3>2. QED BY <3>1 DEF SessionsTypeOK, Open
  <2>2. CASE ~Arrives(c)
    <3>1. UNCHANGED started /\ \A d \in Calls : d # c => pc'[d] = pc[d]
      BY <2>2, <1>1 DEF AuthenticationGuard, RolesGuard, VerifyRefreshToken, LoadUser,
                        RunTokenRoute, request, Goto, SessionsTypeOK
    <3>2. c \in Open
      BY <2>2 DEF AuthenticationGuard, RolesGuard, VerifyRefreshToken, LoadUser, RunTokenRoute, Open
    <3>3. QED BY <3>1, <3>2 DEF SessionsTypeOK, Open
  <2>3. QED BY <2>1, <2>2
<1>5. pc' \in [Calls -> {"idle", "guard", "roles", "body", "load", "issue", "handler",
                         "answered", "refused"}]
  BY <1>1 DEF Goto, SessionsTypeOK
<1>6. QED
  BY <1>1, <1>2, <1>3, <1>4, <1>5 DEF SessionsTypeOK, clock, account

LEMMA TypesOfIssue ==
    ASSUME SessionsTypeOK, NEW c \in Calls, IssueTokens(c)
    PROVE  SessionsTypeOK'
<1>1. \A ttl \in Ttls : Signed(held[c], ttl) \in Tokens
  BY TtlAssumption DEF SessionsTypeOK, Signed, Ttls, Tokens, Payloads
<1>2. tokens \subseteq tokens' /\ tokens' \subseteq Tokens
  BY <1>1 DEF IssueTokens, SessionsTypeOK
<1>3. /\ UNCHANGED <<now, demoted, role, edits, started, route, bearer, body, held>>
      /\ pc' = [pc EXCEPT ![c] = "answered"]
  BY DEF IssueTokens, Goto, clock, account, request
<1>4. Open' \subseteq Open
  BY <1>3 DEF Open, SessionsTypeOK
<1>5. QED BY <1>2, <1>3, <1>4 DEF SessionsTypeOK

LEMMA TypesOfRest ==
    ASSUME SessionsTypeOK, Tick \/ \E w \in Wallets : SetRole(w)
    PROVE  SessionsTypeOK'
<1>1. CASE Tick
  <2>1. /\ now' = now + 1 /\ now < Horizon /\ Open' = Open
        /\ UNCHANGED <<demoted, role, edits, tokens, pc, started, route, bearer, body, held>>
    BY <1>1 DEF Tick, Open, account, request
  <2>2. \A c \in Open' : started'[c] \in {now', now' - 1}
    BY <1>1, <2>1, TtlAssumption DEF Tick, SessionsTypeOK
  <2>3. now' \in 0 .. Horizon /\ \A w \in Wallets : demoted[w] <= now'
    BY <2>1, TtlAssumption DEF SessionsTypeOK, LongAgo
  <2>4. QED BY <2>1, <2>2, <2>3 DEF SessionsTypeOK
<1>2. ASSUME NEW w \in Wallets, SetRole(w) PROVE SessionsTypeOK'
  <2>1. /\ UNCHANGED <<now, tokens, pc, started, route, bearer, body, held>>
        /\ Open' = Open
    BY <1>2 DEF SetRole, Open, request
  <2>2. role' \in [Wallets -> Roles] /\ edits' \in 0 .. MaxEdits
    BY <1>2, TtlAssumption DEF SetRole, SessionsTypeOK, Roles
  <2>3. demoted' \in [Wallets -> LongAgo .. Horizon] /\ \A v \in Wallets : demoted'[v] <= now
    BY <1>2, TtlAssumption DEF SetRole, SessionsTypeOK, LongAgo
  <2>4. QED BY <2>1, <2>2, <2>3 DEF SessionsTypeOK
<1>3. QED BY <1>1, <1>2

LEMMA TypesNext == SessionsTypeOK /\ Next => SessionsTypeOK'
BY TypesOfCalls, TypesOfIssue, TypesOfRest DEF Next

\* Calls, tokens and the clock stay within their types, and no open call is older
\* than a unit.
THEOREM TypesHold == Spec => []SessionsTypeOK
<1>1. Init => SessionsTypeOK
  BY SessionsInit DEF SessionsInv
<1>2. SessionsTypeOK /\ UNCHANGED vars => SessionsTypeOK'
  BY DEF SessionsTypeOK, Open, Tokens, vars, clock, account, request
<1>3. QED BY <1>1, <1>2, TypesNext, PTL DEF Spec

-----------------------------------------------------------------------------
(* What tokens and calls carry.                                            *)

\* What a step of call c leaves alone, and how it moves.
LEMMA StepOfCall ==
    ASSUME SessionsTypeOK, NEW c \in Calls,
           \/ Arrives(c) \/ AuthenticationGuard(c) \/ RolesGuard(c)
           \/ VerifyRefreshToken(c) \/ LoadUser(c) \/ IssueTokens(c) \/ RunTokenRoute(c)
    PROVE  /\ UNCHANGED <<now, demoted, role, edits, route>>
           /\ \A d \in Calls : d # c => /\ pc'[d] = pc[d] /\ held'[d] = held[d]
                                        /\ started'[d] = started[d] /\ body'[d] = body[d]
BY DEF Arrives, AuthenticationGuard, RolesGuard, VerifyRefreshToken, LoadUser, IssueTokens,
       RunTokenRoute, Goto, clock, account, request, SessionsTypeOK

LEMMA FadeNext == SessionsInv /\ Next => TokensFade'
<1> SUFFICES ASSUME SessionsInv, Next PROVE TokensFade'
  OBVIOUS
<1> SessionsTypeOK /\ TokensFade
  BY DEF SessionsInv
<1>1. ASSUME NEW c \in Calls, IssueTokens(c) PROVE TokensFade'
  <2>1. pc[c] = "issue" /\ UNCHANGED <<now, demoted, role>>
    BY <1>1 DEF IssueTokens, clock, account
  <2>2. held[c] \in Payloads /\ demoted[held[c].wallet] \in Int
    BY DEF SessionsTypeOK, Payloads
  <2>3. held[c].role = "Admin" => \/ role[held[c].wallet] = "Admin"
                                  \/ now <= demoted[held[c].wallet] + 1
    BY <2>1, <2>2, CallsAreShort DEF SessionsInv, RowsAreFresh
  <2>4. ASSUME NEW ttl \in Ttls
        PROVE  LET t == Signed(held[c], ttl)
               IN  /\ t.exp <= now + RefreshTtl
                   /\ t.role = "Admin" => \/ role[t.wallet] = "Admin"
                                          \/ t.exp <= demoted[t.wallet] + RefreshTtl + 1
    <3>1. ttl <= RefreshTtl /\ ttl \in Int /\ RefreshTtl \in Int /\ now \in Int
      BY TtlAssumption DEF Ttls, SessionsTypeOK
    <3>2. QED BY <2>2, <2>3, <3>1 DEF Signed
  <2>5. QED BY <1>1, <2>1, <2>4 DEF IssueTokens, TokensFade
<1>2. ASSUME NEW c \in Calls,
             \/ Arrives(c) \/ AuthenticationGuard(c) \/ RolesGuard(c)
             \/ VerifyRefreshToken(c) \/ LoadUser(c) \/ RunTokenRoute(c)
      PROVE  TokensFade'
  <2>1. UNCHANGED <<now, demoted, role, tokens>>
    BY <1>2 DEF Arrives, AuthenticationGuard, RolesGuard, VerifyRefreshToken, LoadUser,
                RunTokenRoute, clock, account
  <2>2. QED BY <2>1 DEF TokensFade
<1>3. ASSUME NEW w \in Wallets, SetRole(w) PROVE TokensFade'
  <2> SUFFICES ASSUME NEW t \in tokens
               PROVE  /\ t.exp <= now + RefreshTtl
                      /\ t.role = "Admin" => \/ role'[t.wallet] = "Admin"
                                             \/ t.exp <= demoted'[t.wallet] + RefreshTtl + 1
    BY <1>3 DEF SetRole, TokensFade
  <2>1. t \in Tokens /\ t.wallet \in Wallets /\ t.exp \in Int
    BY TtlAssumption DEF SessionsTypeOK, Tokens
  <2>2. CASE t.wallet # w
    BY <1>3, <2>1, <2>2 DEF SetRole, TokensFade, SessionsTypeOK
  <2>3. CASE t.wallet = w /\ role[w] = "Admin"
    <3>1. demoted'[w] = now
      BY <1>3, <2>3 DEF SetRole, SessionsTypeOK
    <3>2. QED BY <2>1, <2>3, <3>1, TtlAssumption DEF TokensFade, SessionsTypeOK
  <2>4. CASE t.wallet = w /\ role[w] # "Admin"
    BY <1>3, <2>4 DEF SetRole, TokensFade, SessionsTypeOK
  <2>5. QED BY <2>2, <2>3, <2>4
<1>4. CASE Tick
  <2>1. now' = now + 1 /\ UNCHANGED <<demoted, role, tokens>>
    BY <1>4 DEF Tick, account
  <2>2. \A t \in tokens : t.exp \in Int /\ now \in Int /\ RefreshTtl \in Int
    BY TtlAssumption DEF SessionsTypeOK, Tokens
  <2>3. QED BY <2>1, <2>2 DEF TokensFade
<1>5. QED BY <1>1, <1>2, <1>3, <1>4 DEF Next

\* A call is past its guards, or at the catalogue, with a token that was live.
Admitted(c) ==
    \/ pc[c] = "roles" /\ route[c] = "token" /\ held[c].role = "Admin"
    \/ pc[c] = "handler"

LEMMA GuardsNext == SessionsInv /\ Next => GuardsKnow'
<1> SUFFICES ASSUME SessionsInv, Next, NEW d \in Calls
             PROVE  /\ Admitted(d)' => \/ role'[held'[d].wallet] = "Admin"
                                       \/ started'[d] <= demoted'[held'[d].wallet] + RefreshTtl
                    /\ pc'[d] = "handler" => route'[d] = "token"
  BY DEF GuardsKnow, Admitted
<1> SessionsTypeOK /\ GuardsKnow
  BY DEF SessionsInv
<1>1. /\ Admitted(d) => \/ role[held[d].wallet] = "Admin"
                        \/ started[d] <= demoted[held[d].wallet] + RefreshTtl
      /\ pc[d] = "handler" => route[d] = "token"
  BY DEF GuardsKnow, Admitted
<1>2. ASSUME NEW c \in Calls, d # c,
             \/ Arrives(c) \/ AuthenticationGuard(c) \/ RolesGuard(c)
             \/ VerifyRefreshToken(c) \/ LoadUser(c) \/ IssueTokens(c) \/ RunTokenRoute(c)
      PROVE  /\ Admitted(d)' => \/ role'[held'[d].wallet] = "Admin"
                                \/ started'[d] <= demoted'[held'[d].wallet] + RefreshTtl
             /\ pc'[d] = "handler" => route'[d] = "token"
  BY <1>1, <1>2, StepOfCall DEF Admitted
<1>3. CASE Arrives(d) \/ VerifyRefreshToken(d) \/ LoadUser(d) \/ IssueTokens(d) \/ RunTokenRoute(d)
  <2>1. pc'[d] \notin {"roles", "handler"}
    BY <1>3 DEF Arrives, VerifyRefreshToken, LoadUser, IssueTokens, RunTokenRoute, Goto, SessionsTypeOK
  <2>2. QED BY <2>1 DEF Admitted
<1>4. CASE AuthenticationGuard(d)
  <2>1. /\ UNCHANGED <<now, demoted, role, route, started>>
        /\ pc[d] = "guard" /\ pc'[d] \in {"roles", "refused"}
    BY <1>4 DEF AuthenticationGuard, Goto, clock, account, request, SessionsTypeOK
  <2>2. ASSUME pc'[d] = "roles", route[d] = "token", held'[d].role = "Admin"
        PROVE  \/ role[held'[d].wallet] = "Admin"
               \/ started[d] <= demoted[held'[d].wallet] + RefreshTtl
    <3>1. /\ Valid(bearer[d])
          /\ held'[d] = [wallet |-> bearer[d].wallet, role |-> bearer[d].role]
      BY <1>4, <2>2 DEF AuthenticationGuard, AuthTypes, Goto, SessionsTypeOK
    <3>2. bearer[d] \in tokens /\ bearer[d] \in Tokens
      BY <3>1 DEF Valid, SessionsTypeOK
    <3>3. \/ role[bearer[d].wallet] = "Admin"
          \/ bearer[d].exp <= demoted[bearer[d].wallet] + RefreshTtl + 1
      BY <2>2, <3>1, <3>2 DEF SessionsInv, TokensFade
    <3>4. started[d] <= now /\ now < bearer[d].exp /\ started[d] \in Int /\ now \in Int
      BY <2>1, <3>1, CallsAreShort DEF Valid
    <3>5. bearer[d].exp \in Int /\ demoted[bearer[d].wallet] \in Int /\ RefreshTtl \in Int
      BY <3>2, TtlAssumption DEF Tokens, SessionsTypeOK
    <3>6. QED BY <3>1, <3>3, <3>4, <3>5
  <2>3. QED BY <2>1, <2>2 DEF Admitted
<1>5. CASE RolesGuard(d)
  <2>1. UNCHANGED <<demoted, role, route, started, held>> /\ pc[d] = "roles"
    BY <1>5 DEF RolesGuard, clock, account, request
  <2>2. pc'[d] # "roles"
    BY <1>5 DEF RolesGuard, Goto, AfterGuards, SessionsTypeOK, Routes
  <2>3. pc'[d] = "handler" => route[d] = "token" /\ held[d].role = "Admin"
    BY <1>5 DEF RolesGuard, Goto, AfterGuards, AllowedRoles, SessionsTypeOK, Routes
  <2>4. QED BY <1>1, <2>1, <2>2, <2>3 DEF Admitted
<1>6. ASSUME NEW w \in Wallets, SetRole(w)
      PROVE  /\ Admitted(d)' => \/ role'[held'[d].wallet] = "Admin"
                                \/ started'[d] <= demoted'[held'[d].wallet] + RefreshTtl
             /\ pc'[d] = "handler" => route'[d] = "token"
  <2>1. UNCHANGED <<now, pc, held, started, route>>
    BY <1>6 DEF SetRole, request
  <2>2. ASSUME Admitted(d)
        PROVE  \/ role'[held[d].wallet] = "Admin"
               \/ started[d] <= demoted'[held[d].wallet] + RefreshTtl
    <3>1. held[d].wallet \in Wallets
      BY DEF SessionsTypeOK, Payloads
    <3>2. started[d] <= now /\ started[d] \in Int /\ now \in Int
      BY <2>2, CallsAreShort DEF Admitted
    <3>3. CASE held[d].wallet # w
      BY <1>1, <1>6, <2>2, <3>1, <3>3 DEF SetRole, SessionsTypeOK
    <3>4. CASE held[d].wallet = w /\ role[w] = "Admin"
      <4>1. demoted'[w] = now
        BY <1>6, <3>4 DEF SetRole, SessionsTypeOK
      <4>2. QED BY <3>2, <3>4, <4>1, TtlAssumption
    <3>5. CASE held[d].wallet = w /\ role[w] # "Admin"
      BY <1>6, <3>5 DEF SetRole, SessionsTypeOK
    <3>6. QED BY <3>3, <3>4, <3>5
  <2>3. QED BY <1>1, <2>1, <2>2 DEF Admitted
<1>7. CASE Tick
  BY <1>1, <1>7 DEF Tick, Admitted, account, request
<1>8. QED
  BY <1>2, <1>3, <1>4, <1>5, <1>6, <1>7 DEF Next

LEMMA RowsNext == SessionsInv /\ Next => RowsAreFresh'
<1> SUFFICES ASSUME SessionsInv, Next, NEW d \in Calls, pc'[d] = "issue", held'[d].role = "Admin"
             PROVE  role'[held'[d].wallet] = "Admin" \/ started'[d] <= demoted'[held'[d].wallet]
  BY DEF RowsAreFresh
<1> SessionsTypeOK
  BY DEF SessionsInv
<1>1. (pc[d] = "issue" /\ held[d].role = "Admin")
         => role[held[d].wallet] = "Admin" \/ started[d] <= demoted[held[d].wallet]
  BY DEF SessionsInv, RowsAreFresh
<1>2. ASSUME NEW c \in Calls, d # c,
             \/ Arrives(c) \/ AuthenticationGuard(c) \/ RolesGuard(c)
             \/ VerifyRefreshToken(c) \/ LoadUser(c) \/ IssueTokens(c) \/ RunTokenRoute(c)
      PROVE  role'[held'[d].wallet] = "Admin" \/ started'[d] <= demoted'[held'[d].wallet]
  BY <1>1, <1>2, StepOfCall
<1>3. ASSUME Arrives(d) \/ AuthenticationGuard(d) \/ RolesGuard(d) \/ VerifyRefreshToken(d)
               \/ IssueTokens(d) \/ RunTokenRoute(d)
      PROVE  FALSE
  BY <1>3 DEF Arrives, AuthenticationGuard, RolesGuard, VerifyRefreshToken, IssueTokens,
              RunTokenRoute, AfterGuards, Goto, SessionsTypeOK, Routes
<1>4. CASE LoadUser(d)
  BY <1>4 DEF LoadUser, account, SessionsTypeOK, Payloads
<1>5. ASSUME NEW w \in Wallets, SetRole(w)
      PROVE  role'[held'[d].wallet] = "Admin" \/ started'[d] <= demoted'[held'[d].wallet]
  <2>1. UNCHANGED <<now, pc, held, started>>
    BY <1>5 DEF SetRole, request
  <2>2. held[d].wallet \in Wallets
    BY DEF SessionsTypeOK, Payloads
  <2>3. started[d] <= now
    BY <2>1, CallsAreShort
  <2>4. CASE held[d].wallet # w
    BY <1>1, <1>5, <2>1, <2>2, <2>4 DEF SetRole, SessionsTypeOK
  <2>5. CASE held[d].wallet = w /\ role[w] = "Admin"
    BY <1>5, <2>1, <2>3, <2>5 DEF SetRole, SessionsTypeOK
  <2>6. CASE held[d].wallet = w /\ role[w] # "Admin"
    BY <1>5, <2>1, <2>6 DEF SetRole, SessionsTypeOK
  <2>7. QED BY <2>4, <2>5, <2>6
<1>6. CASE Tick
  BY <1>1, <1>6 DEF Tick, account, request
<1>7. QED BY <1>2, <1>3, <1>4, <1>5, <1>6 DEF Next

LEMMA RefreshNext == SessionsInv /\ Next => RefreshFromLiveToken'
<1> SUFFICES ASSUME SessionsInv, Next, NEW d \in Calls, route'[d] = "refresh",
                    pc'[d] \in {"load", "issue"}
             PROVE  started'[d] < body'[d].exp /\ held'[d].wallet = body'[d].wallet
  BY DEF RefreshFromLiveToken
<1> SessionsTypeOK
  BY DEF SessionsInv
<1>1. (route[d] = "refresh" /\ pc[d] \in {"load", "issue"})
         => started[d] < body[d].exp /\ held[d].wallet = body[d].wallet
  BY DEF SessionsInv, RefreshFromLiveToken
<1>2. ASSUME NEW c \in Calls, d # c,
             \/ Arrives(c) \/ AuthenticationGuard(c) \/ RolesGuard(c)
             \/ VerifyRefreshToken(c) \/ LoadUser(c) \/ IssueTokens(c) \/ RunTokenRoute(c)
      PROVE  started'[d] < body'[d].exp /\ held'[d].wallet = body'[d].wallet
  BY <1>1, <1>2, StepOfCall
<1>3. ASSUME Arrives(d) \/ AuthenticationGuard(d) \/ RolesGuard(d) \/ IssueTokens(d)
               \/ RunTokenRoute(d)
      PROVE  FALSE
  BY <1>3 DEF Arrives, AuthenticationGuard, RolesGuard, IssueTokens,
              RunTokenRoute, AfterGuards, Goto, SessionsTypeOK, Routes, request
<1>4. CASE VerifyRefreshToken(d)
  <2>1. /\ pc[d] = "body" /\ Valid(body[d]) /\ UNCHANGED <<started, body>>
        /\ held'[d].wallet = body[d].wallet
    BY <1>4 DEF VerifyRefreshToken, Goto, request, SessionsTypeOK
  <2>2. body[d].exp \in Int
    BY <2>1, TtlAssumption DEF Valid, SessionsTypeOK, Tokens
  <2>3. QED BY <2>1, <2>2, CallsAreShort DEF Valid
<1>5. CASE LoadUser(d)
  <2>1. /\ pc[d] = "load" /\ UNCHANGED <<started, body, route>>
        /\ held'[d].wallet = held[d].wallet
    BY <1>5 DEF LoadUser, request, SessionsTypeOK, Payloads
  <2>2. QED BY <1>1, <2>1
<1>6. CASE Tick \/ \E w \in Wallets : SetRole(w)
  <2>1. UNCHANGED <<pc, held, started, body, route>>
    BY <1>6 DEF Tick, SetRole, request
  <2>2. QED BY <1>1, <2>1
<1>7. QED BY <1>2, <1>3, <1>4, <1>5, <1>6 DEF Next

LEMMA SessionsNext == SessionsInv /\ [Next]_vars => SessionsInv'
BY SessionsStutter, TypesNext, FadeNext, GuardsNext, RowsNext, RefreshNext DEF SessionsInv

LEMMA SessionsInvHolds == Spec => []SessionsInv
BY SessionsInit, SessionsNext, PTL DEF Spec

\* A wallet that ceased to be an administrator is kept out of the catalogue once a
\* refresh lifetime and a unit have passed, however often it refreshed.
THEOREM RolesAreLost == Spec => []RoleIsLostInTime
<1>1. SessionsInv => RoleIsLostInTime
  <2> SUFFICES ASSUME SessionsInv, NEW c \in Calls, pc[c] = "handler"
               PROVE  \/ role[held[c].wallet] = "Admin"
                      \/ now <= demoted[held[c].wallet] + RefreshTtl + 1
    BY DEF RoleIsLostInTime
  <2>1. started[c] \in Int /\ now \in Int /\ now <= started[c] + 1
    BY CallsAreShort DEF SessionsInv
  <2>2. demoted[held[c].wallet] \in Int /\ RefreshTtl \in Int
    BY TtlAssumption DEF SessionsInv, SessionsTypeOK, Payloads
  <2>3. QED BY <2>1, <2>2 DEF SessionsInv, GuardsKnow
<1>2. QED BY <1>1, SessionsInvHolds, PTL

\* A session is carried on from a token that was live when the call came in.
THEOREM SessionsCarryOn == Spec => []RefreshFromLiveToken
<1>1. SessionsInv => RefreshFromLiveToken
  BY DEF SessionsInv
<1>2. QED BY <1>1, SessionsInvHolds, PTL

=============================================================================
