------------------------------- MODULE SignIn -------------------------------
(***************************************************************************)
(* Signing in with a wallet (src/src/modules/auth/auth.controller.ts,      *)
(* auth.service.ts, src/src/modules/user/user.service.ts), one action per  *)
(* await:                                                                  *)
(*   POST /auth/nonce   the wallet's row, its Arweave keys, a fresh nonce  *)
(*   POST /auth/verify  the signed nonce is exchanged for tokens           *)
(*                                                                         *)
(* A nonce is random and is identified by the call that drew it; so is an  *)
(* Arweave key pair. A call that stops stays at the await it stopped at,   *)
(* in stopped. Signatures are abstracted: a verify call carries the nonce  *)
(* in its message, or BadSignature when the chain's check does not accept  *)
(* the message at all. Whose key made the signature is left out: the code  *)
(* ties it to the wallet on EVM and Solana, while on Arweave and Cosmos it *)
(* takes the key from the call.                                            *)
(*                                                                         *)
(* Both routes are open to everybody (AuthType.None), so any number of     *)
(* calls may name a wallet, its own client's or not.                       *)
(***************************************************************************)
CONSTANTS
    Wallets,
    Careful,       \* wallets that present one signature at a time
    Calls,         \* HTTP calls, each made at most once
    FaultyCalls,   \* the calls whose handler may stop at any await
    None,          \* no nonce, no key pair, no signature
    BadSignature

ASSUME FaultyCallsAssumption == FaultyCalls \subseteq Calls
ASSUME CarefulAssumption == Careful \subseteq Wallets
ASSUME NoneAssumption == None \notin Calls /\ BadSignature \notin Calls \union {None}

VARIABLES
    users,          \* wallets with a User row
    nonce,          \* the nonce column of the row
    lastSignature,  \* its lastSignature column: the call that signed in
    keys,           \* ArweaveKeyPair rows, by wallet
    pc,             \* the await each call is at
    wallet,         \* the wallet the call names
    presents,       \* the nonce a verify call carries
    stopped         \* calls that ended with an error of the database or process

rows == <<users, nonce, lastSignature, keys>>
request == <<wallet, presents>>
vars == <<rows, pc, request, stopped>>

AskWaits == {"find", "create", "lookup", "keep", "draw", "reply"}
VerifyWaits == {"load", "clear", "note", "issue"}
Ended == {"handed", "granted", "refused"}

TypeOK ==
    /\ users \subseteq Wallets
    /\ nonce \in [Wallets -> Calls \union {None}]
    /\ lastSignature \in [Wallets -> Calls \union {None}]
    /\ keys \in [Wallets -> Calls \union {None}]
    /\ pc \in [Calls -> {"idle"} \union AskWaits \union VerifyWaits \union Ended]
    /\ wallet \in [Calls -> Wallets]
    /\ presents \in [Calls -> Calls \union {None, BadSignature}]
    /\ stopped \subseteq Calls

Init ==
    /\ users = {}
    /\ nonce = [w \in Wallets |-> None]
    /\ lastSignature = [w \in Wallets |-> None]
    /\ keys = [w \in Wallets |-> None]
    /\ pc = [c \in Calls |-> "idle"]
    /\ wallet \in [Calls -> Wallets]
    /\ presents = [c \in Calls |-> None]
    /\ stopped = {}

\* The handler of c goes on to the await s, or ends there.
Goto(c, s) == pc' = [pc EXCEPT ![c] = s]

\* c runs and waits at s.
At(c, s) == pc[c] = s /\ c \notin stopped

\* The open calls that were made in the name of w.
Open(w) == {c \in Calls \ stopped : /\ wallet[c] = w
                                    /\ pc[c] \in AskWaits \union VerifyWaits}

\* Those that present a signature of w.
Presenting(w) == {c \in Open(w) : pc[c] \in VerifyWaits /\ presents[c] # BadSignature}

-----------------------------------------------------------------------------
(* POST /auth/nonce, for any wallet, by anybody, at any time.              *)

AskNonce(c) ==
    /\ pc[c] = "idle"
    /\ Goto(c, "find")
    /\ UNCHANGED <<rows, request, stopped>>

FindUser(c) ==
    /\ At(c, "find")
    /\ Goto(c, IF wallet[c] \in users THEN "lookup" ELSE "create")
    /\ UNCHANGED <<rows, request, stopped>>

\* Mutant: keys are made for new users only.
CreateUser_AndForget(c) ==
    /\ At(c, "create")
    /\ users' = users \union {wallet[c]}
    /\ Goto(c, IF wallet[c] \in users THEN "refused" ELSE "draw")
    /\ UNCHANGED <<nonce, lastSignature, keys, request, stopped>>

\* Mutant: the row is inserted with its keys, and the keys are set once more.
CreateUser_WithKeys(c) ==
    /\ At(c, "create")
    /\ users' = users \union {wallet[c]}
    /\ keys' = [keys EXCEPT ![wallet[c]] = c]
    /\ Goto(c, "keep")
    /\ UNCHANGED <<nonce, lastSignature, request, stopped>>

\* walletAddress is unique: of two first calls, one is refused here.
CreateUser(c) ==
    /\ At(c, "create")
    /\ users' = users \union {wallet[c]}
    /\ Goto(c, IF wallet[c] \in users THEN "refused" ELSE "lookup")
    /\ UNCHANGED <<nonce, lastSignature, keys, request, stopped>>

\* Mutant: the result of the look-up is not used.
GetArKeys_Ignored(c) ==
    /\ At(c, "lookup")
    /\ Goto(c, "keep")
    /\ UNCHANGED <<rows, request, stopped>>

GetArKeys(c) ==
    /\ At(c, "lookup")
    /\ Goto(c, IF keys[wallet[c]] = None THEN "keep" ELSE "draw")
    /\ UNCHANGED <<rows, request, stopped>>

\* Mutant: the insert is an upsert.
SetArKeys_Upsert(c) ==
    /\ At(c, "keep")
    /\ keys' = [keys EXCEPT ![wallet[c]] = c]
    /\ Goto(c, "draw")
    /\ UNCHANGED <<users, nonce, lastSignature, request, stopped>>

\* userWalletAddress is unique: a second key pair is refused.
SetArKeys(c) ==
    /\ At(c, "keep")
    /\ IF keys[wallet[c]] = None
         THEN keys' = [keys EXCEPT ![wallet[c]] = c] /\ Goto(c, "draw")
         ELSE Goto(c, "refused") /\ UNCHANGED keys
    /\ UNCHANGED <<users, nonce, lastSignature, request, stopped>>

\* generateNonce and setNonce; an older nonce is overwritten.
GenerateNonce(c) ==
    /\ At(c, "draw")
    /\ nonce' = [nonce EXCEPT ![wallet[c]] = c]
    /\ Goto(c, "reply")
    /\ UNCHANGED <<users, lastSignature, keys, request, stopped>>

AnswerNonce(c) ==
    /\ At(c, "reply")
    /\ Goto(c, "handed")
    /\ UNCHANGED <<rows, request, stopped>>

-----------------------------------------------------------------------------
(* POST /auth/verify. The wallet signs a nonce that was handed out for it  *)
(* or for another wallet; anybody may come with a bad signature. A careful *)
(* wallet, which only one on EVM or Solana can be, has its next signature  *)
(* presented only after the last call was answered, an error included, or  *)
(* the service restarted.                                                  *)

Handed == {n \in Calls : pc[n] = "handed"}

PresentSignature(c, n) ==
    /\ pc[c] = "idle"
    /\ n \in Handed \union {BadSignature}
    /\ wallet[c] \in Careful /\ n # BadSignature => Presenting(wallet[c]) = {}
    /\ presents' = [presents EXCEPT ![c] = n]
    /\ Goto(c, "load")
    /\ UNCHANGED <<rows, wallet, stopped>>

\* The check of the wallet's chain. What is kept of it is the comparison, made on
\* every chain, of the nonce in the message with the one in the row.
SignatureFits(c) == presents[c] = nonce[wallet[c]]

\* findUserByWalletAddress and the checks on the row, which are over before the
\* next write; the row read here is what the rest of the call works with.
LoadUser(c) ==
    /\ At(c, "load")
    /\ Goto(c, IF /\ wallet[c] \in users
                  /\ nonce[wallet[c]] # None
                  /\ SignatureFits(c)
               THEN "clear" ELSE "refused")
    /\ UNCHANGED <<rows, request, stopped>>

\* Mutant: the nonce stays in the row.
ClearNonce_Kept(c) ==
    /\ At(c, "clear")
    /\ Goto(c, "note")
    /\ UNCHANGED <<rows, request, stopped>>

\* Mutant: the column is written from the row that was loaded.
ClearNonce_FromRow(c) ==
    /\ At(c, "clear")
    /\ nonce' = [nonce EXCEPT ![wallet[c]] = presents[c]]
    /\ Goto(c, "note")
    /\ UNCHANGED <<users, lastSignature, keys, request, stopped>>

\* Whatever nonce the row holds by now is erased.
ClearNonce(c) ==
    /\ At(c, "clear")
    /\ nonce' = [nonce EXCEPT ![wallet[c]] = None]
    /\ Goto(c, "note")
    /\ UNCHANGED <<users, lastSignature, keys, request, stopped>>

SetLastSignature(c) ==
    /\ At(c, "note")
    /\ lastSignature' = [lastSignature EXCEPT ![wallet[c]] = c]
    /\ Goto(c, "issue")
    /\ UNCHANGED <<users, nonce, keys, request, stopped>>

\* Two signatures of the JWT service, from the row that was loaded.
IssueTokens(c) ==
    /\ At(c, "issue")
    /\ Goto(c, "granted")
    /\ UNCHANGED <<rows, request, stopped>>

-----------------------------------------------------------------------------

\* The database refuses, or the process goes down.
Stop(c) ==
    /\ pc[c] \in AskWaits \union VerifyWaits
    /\ c \notin stopped
    /\ stopped' = stopped \union {c}
    /\ UNCHANGED <<rows, pc, request>>

Handler(c) ==
    \/ FindUser(c) \/ CreateUser(c) \/ GetArKeys(c) \/ SetArKeys(c)
    \/ GenerateNonce(c) \/ AnswerNonce(c)
    \/ LoadUser(c) \/ ClearNonce(c) \/ SetLastSignature(c) \/ IssueTokens(c)

Next ==
    \/ \E c \in Calls :
         \/ AskNonce(c)
         \/ \E n \in Calls \union {BadSignature} : PresentSignature(c, n)
         \/ Handler(c)
    \/ \E c \in FaultyCalls : Stop(c)

Spec == Init /\ [][Next]_vars

\* The event loop runs every handler and the database answers: it goes on, or,
\* when it meets a fault, it stops.
FairSpec == /\ Spec
            /\ \A c \in Calls \ FaultyCalls : WF_vars(Handler(c))
            /\ \A c \in FaultyCalls : WF_vars(Handler(c) \/ Stop(c))

-----------------------------------------------------------------------------
(* Properties.                                                             *)

PastLoad == {"clear", "note", "issue", "granted"}

\* The calls that took nonce n out of the row on behalf of w.
Cleared(w, n) == {c \in Calls : /\ pc[c] \in {"note", "issue", "granted"}
                                /\ wallet[c] = w
                                /\ presents[c] = n}

\* A wallet has its Arweave keys before it is given a nonce, and so before it
\* signs in, though its row, its keys and its nonce are three separate writes
\* and a call may stop after each (auth.controller.ts:20-33).
KeysBeforeNonce ==
    /\ \A w \in Wallets : nonce[w] # None => keys[w] # None
    /\ \A c \in Calls : pc[c] = "granted" => keys[wallet[c]] # None

\* An Arweave key pair is never replaced or removed, though two first calls may
\* both find none and generate one (auth.controller.ts:26-31): what was sent to
\* its address stays within reach.
KeysAreKept ==
    [][\A w \in Wallets : keys[w] # None => keys'[w] = keys[w]]_vars

\* A call that looks at the row after a nonce was cleared does not get past the
\* comparison with that nonce, however calls overlap and wherever the call that
\* cleared it stopped (auth.controller.ts:41-47).
SpentStaysSpent ==
    [][\A c \in Calls : (pc[c] = "load" /\ pc'[c] = "clear")
                            => Cleared(wallet[c], presents[c]) = {}]_vars

\* The sign-ins that got past the comparison and not yet past clearNonce.
Accepted == {p \in Careful \X Calls :
               \E c \in Calls : At(c, "clear") /\ wallet[c] = p[1] /\ presents[c] = p[2]}

\* A wallet that presents one signature at a time has the book of NonceBook: each
\* nonce buys one sign-in, although anybody may have a nonce drawn for the wallet in
\* the middle of it, calls stop between the comparison and clearNonce, and the calls
\* of other wallets overlap (auth.controller.ts:15-20, 41-47).
Book == INSTANCE NonceBook WITH
            Wallets <- Careful,
            Tickets <- Calls,
            NoTicket <- None,
            book <- [w \in Careful |-> nonce[w]],
            issued <- {n \in Calls : wallet[n] \in Careful /\ pc[n] \in {"reply", "handed"}},
            accepted <- Accepted,
            spent <- {p \in Careful \X Calls : Cleared(p[1], p[2]) # {}}

OneNonceOneSignIn == Book!Spec

\* What a call knows once it got past an await, and keeps knowing while other
\* calls run: the strengthening of KeysBeforeNonce and SpentStaysSpent
\* that every step preserves; a nonce only signs in the wallet it was drawn for and
\* handed to (auth.controller.ts:20-50).
Bookkeeping ==
    /\ TypeOK
    /\ \A w \in Wallets : nonce[w] # None => /\ pc[nonce[w]] \in {"reply", "handed"}
                                             /\ wallet[nonce[w]] = w
    /\ \A c \in Calls : pc[c] \in {"draw", "reply", "handed"} => keys[wallet[c]] # None
    /\ \A c \in Calls : pc[c] = "load" => presents[c] \in Handed \union {BadSignature}
    /\ \A c \in Calls : pc[c] \in PastLoad =>
           /\ presents[c] \in Handed
           /\ wallet[presents[c]] = wallet[c]
    /\ \A c \in Calls : pc[c] \in PastLoad \ {"clear"} => nonce[wallet[c]] # presents[c]

\* Other calls for the wallet that ask for a nonce are under way.
Crowded(c) == \E d \in Open(wallet[c]) \ {c} : pc[d] \in AskWaits

\* What a client may rely on whoever else calls in the name of its wallet. A call
\* for a nonce is answered with one if the wallet has its keys, and otherwise if no
\* other such call is under way, also when earlier ones stopped between the row and
\* the keys. A careful wallet that presents the nonce in its row gets tokens, unless
\* a later nonce is written there before the comparison
\* (auth.controller.ts:20-33, 41-50).
OwnCallsAreAnswered ==
    \A c \in Calls \ FaultyCalls :
        /\ (pc[c] = "find" /\ keys[wallet[c]] # None) ~> (pc[c] = "handed")
        /\ (pc[c] = "find" /\ ~Crowded(c)) ~> (pc[c] = "handed" \/ Crowded(c))
        /\ (pc[c] = "load" /\ wallet[c] \in Careful /\ presents[c] = nonce[wallet[c]])
               ~> (pc[c] = "granted" \/ nonce[wallet[c]] \notin {presents[c], None})

\* When first calls of a wallet overlap, the unique columns refuse all but one:
\* unless a call stops, some call of that wallet is handed a nonce
\* (auth.controller.ts:20-31).
SomeCallIsAnswered ==
    \A c \in Calls : (pc[c] = "find") ~>
        (\E d \in Calls : wallet[d] = wallet[c] /\ (pc[d] = "handed" \/ d \in stopped))

=============================================================================
