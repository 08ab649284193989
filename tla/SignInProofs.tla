---------------------------- MODULE SignInProofs ----------------------------
(***************************************************************************)
(* Theorems about SignIn, for any number of wallets and calls, any set of  *)
(* calls that may stop, and any overlap; the last one for wallets that     *)
(* present one signature at a time, whoever else calls in their name.      *)
(***************************************************************************)
EXTENDS SignIn, TLAPS

-----------------------------------------------------------------------------
(* Bookkeeping is inductive.                                               *)

LEMMA BookkeepingInit == Init => Bookkeeping
BY NoneAssumption DEF Init, Bookkeeping, TypeOK, PastLoad

LEMMA BookkeepingStutter == Bookkeeping /\ UNCHANGED vars => Bookkeeping'
BY DEF Bookkeeping, TypeOK, Handed, PastLoad, vars, rows, request

\* A step of one call that leaves the nonces alone and takes no keys away keeps what
\* is known of the others; what is left is what the call knows at its next await.
LEMMA QuietStep ==
    ASSUME Bookkeeping, NEW c \in Calls,
           NEW s \in AskWaits \union VerifyWaits \union Ended,
           pc' = [pc EXCEPT ![c] = s],
           UNCHANGED <<nonce, wallet, presents, stopped>>,
           users' \subseteq Wallets,
           lastSignature' \in [Wallets -> Calls \union {None}],
           keys' \in [Wallets -> Calls \union {None}],
           \A w \in Wallets : keys[w] # None => keys'[w] # None,
           pc[c] = "handed" => s = "handed",
           pc[c] = "reply" => s \in {"reply", "handed"},
           s \in {"draw", "reply", "handed"} => keys'[wallet[c]] # None,
           s = "load" => presents[c] \in Handed \union {BadSignature},
           s \in PastLoad => presents[c] \in Handed /\ wallet[presents[c]] = wallet[c],
           s \in PastLoad \ {"clear"} => nonce[wallet[c]] # presents[c]
    PROVE  Bookkeeping'
<1>1. TypeOK'
  BY DEF Bookkeeping, TypeOK
<1>2. Handed \subseteq Handed'
  BY DEF Bookkeeping, TypeOK, Handed
<1>3. \A d \in Calls : d # c => pc'[d] = pc[d]
  BY DEF Bookkeeping, TypeOK
<1>4. pc'[c] = s
  BY DEF Bookkeeping, TypeOK
<1>5. \A w \in Wallets : nonce'[w] # None => /\ pc'[nonce'[w]] \in {"reply", "handed"}
                                             /\ wallet'[nonce'[w]] = w
  <2> SUFFICES ASSUME NEW w \in Wallets, nonce[w] # None
               PROVE  pc'[nonce[w]] \in {"reply", "handed"} /\ wallet[nonce[w]] = w
    OBVIOUS
  <2>1. nonce[w] \in Calls
    BY DEF Bookkeeping, TypeOK
  <2>2. pc[nonce[w]] \in {"reply", "handed"} /\ wallet[nonce[w]] = w
    BY DEF Bookkeeping
  <2>3. QED BY <2>1, <2>2, <1>3, <1>4
<1>6. \A d \in Calls : pc'[d] \in {"draw", "reply", "handed"} => keys'[wallet'[d]] # None
  BY <1>3, <1>4 DEF Bookkeeping, TypeOK
<1>7. \A d \in Calls : pc'[d] = "load" => presents'[d] \in Handed' \union {BadSignature}
  BY <1>2, <1>3, <1>4 DEF Bookkeeping
<1>8. \A d \in Calls : pc'[d] \in PastLoad => /\ presents'[d] \in Handed'
                                              /\ wallet'[presents'[d]] = wallet'[d]
  BY <1>2, <1>3, <1>4 DEF Bookkeeping
<1>9. \A d \in Calls : pc'[d] \in PastLoad \ {"clear"} => nonce'[wallet'[d]] # presents'[d]
  BY <1>3, <1>4 DEF Bookkeeping
<1>10. QED
  BY <1>1, <1>5, <1>6, <1>7, <1>8, <1>9 DEF Bookkeeping, PastLoad

LEMMA AskNoncePreserves ==
    ASSUME Bookkeeping, NEW c \in Calls,
           AskNonce(c) \/ FindUser(c) \/ GetArKeys(c) \/ AnswerNonce(c)
    PROVE  Bookkeeping'
<1>1. CASE AskNonce(c)
  BY <1>1, QuietStep DEF AskNonce, Goto, rows, request, AskWaits, PastLoad,
     Bookkeeping, TypeOK
<1>2. CASE FindUser(c)
  BY <1>2, QuietStep DEF FindUser, At, Goto, rows, request, AskWaits, PastLoad,
     Bookkeeping, TypeOK
<1>3. CASE GetArKeys(c)
  BY <1>3, QuietStep DEF GetArKeys, At, Goto, rows, request, AskWaits, PastLoad,
     Bookkeeping, TypeOK
<1>4. CASE AnswerNonce(c)
  BY <1>4, QuietStep DEF AnswerNonce, At, Goto, rows, request, AskWaits, Ended, PastLoad,
     Bookkeeping, TypeOK
<1>5. QED BY <1>1, <1>2, <1>3, <1>4

LEMMA CreateUserPreserves ==
    ASSUME Bookkeeping, NEW c \in Calls, CreateUser(c)
    PROVE  Bookkeeping'
<1>1. PICK s \in {"refused", "lookup"} : pc' = [pc EXCEPT ![c] = s]
  BY DEF CreateUser, Goto
<1>2. /\ pc[c] = "create"
      /\ users' \subseteq Wallets
      /\ UNCHANGED <<nonce, lastSignature, keys, wallet, presents, stopped>>
  BY DEF CreateUser, At, request, Bookkeeping, TypeOK
<1>3. QED
  BY <1>1, <1>2, QuietStep DEF AskWaits, Ended, PastLoad, Bookkeeping, TypeOK

LEMMA SetArKeysPreserves ==
    ASSUME Bookkeeping, NEW c \in Calls, SetArKeys(c)
    PROVE  Bookkeeping'
<1>1. /\ pc[c] = "keep"
      /\ UNCHANGED <<users, nonce, lastSignature, wallet, presents, stopped>>
  BY DEF SetArKeys, At, request
<1>2. /\ keys' \in [Wallets -> Calls \union {None}]
      /\ \A w \in Wallets : keys[w] # None => keys'[w] # None
  BY NoneAssumption DEF SetArKeys, Bookkeeping, TypeOK
<1>3. PICK s \in {"refused", "draw"} : /\ pc' = [pc EXCEPT ![c] = s]
                                       /\ s = "draw" => keys'[wallet[c]] # None
  BY NoneAssumption DEF SetArKeys, Goto, Bookkeeping, TypeOK
<1>4. QED
  BY <1>1, <1>2, <1>3, QuietStep DEF AskWaits, Ended, PastLoad, Bookkeeping, TypeOK

LEMMA GenerateNoncePreserves ==
    ASSUME Bookkeeping, NEW c \in Calls, GenerateNonce(c)
    PROVE  Bookkeeping'
<1>1. /\ \A d \in Calls : d # c => pc'[d] = pc[d]
      /\ pc'[c] = "reply" /\ pc[c] = "draw"
  BY DEF GenerateNonce, At, Goto, Bookkeeping, TypeOK
<1>2. TypeOK'
  BY DEF GenerateNonce, At, Goto, request, Bookkeeping, TypeOK, AskWaits
<1>3. Handed' = Handed
  BY <1>1 DEF Handed
<1>4. /\ nonce'[wallet[c]] = c
      /\ \A w \in Wallets : w # wallet[c] => nonce'[w] = nonce[w]
  BY DEF GenerateNonce, Bookkeeping, TypeOK
<1>5. UNCHANGED <<keys, wallet, presents>>
  BY DEF GenerateNonce, request
<1>6. \A w \in Wallets : nonce'[w] # None => /\ pc'[nonce'[w]] \in {"reply", "handed"}
                                             /\ wallet'[nonce'[w]] = w
  BY <1>1, <1>4, <1>5 DEF Bookkeeping, TypeOK
<1>7. \A d \in Calls : pc'[d] \in PastLoad \ {"clear"} => nonce'[wallet'[d]] # presents'[d]
  BY <1>1, <1>4, <1>5 DEF Bookkeeping, TypeOK, Handed, PastLoad
<1>8. \A d \in Calls : pc'[d] \in {"draw", "reply", "handed"} => keys'[wallet'[d]] # None
  BY <1>1, <1>5 DEF Bookkeeping
<1>9. \A d \in Calls : pc'[d] = "load" => presents'[d] \in Handed' \union {BadSignature}
  BY <1>1, <1>3, <1>5 DEF Bookkeeping
<1>10. \A d \in Calls : pc'[d] \in PastLoad => /\ presents'[d] \in Handed'
                                               /\ wallet'[presents'[d]] = wallet'[d]
  BY <1>1, <1>3, <1>5 DEF Bookkeeping, PastLoad
<1>11. QED
  BY <1>2, <1>6, <1>7, <1>8, <1>9, <1>10 DEF Bookkeeping

LEMMA PresentSignaturePreserves ==
    ASSUME Bookkeeping, NEW c \in Calls, NEW n \in Calls \union {BadSignature},
           PresentSignature(c, n)
    PROVE  Bookkeeping'
<1>1. /\ \A d \in Calls : d # c => pc'[d] = pc[d] /\ presents'[d] = presents[d]
      /\ pc'[c] = "load" /\ pc[c] = "idle" /\ presents'[c] = n
  BY DEF PresentSignature, Goto, Bookkeeping, TypeOK
<1>2. TypeOK'
  BY DEF PresentSignature, Goto, rows, Bookkeeping, TypeOK, VerifyWaits
<1>3. Handed' = Handed
  BY <1>1 DEF Handed
<1>4. UNCHANGED <<nonce, keys, wallet>>
  BY DEF PresentSignature, rows
<1>5. n \in Handed \union {BadSignature}
  BY DEF PresentSignature
<1>6. \A w \in Wallets : nonce'[w] # None => /\ pc'[nonce'[w]] \in {"reply", "handed"}
                                             /\ wallet'[nonce'[w]] = w
  <2> SUFFICES ASSUME NEW w \in Wallets, nonce[w] # None
               PROVE  pc'[nonce[w]] \in {"reply", "handed"} /\ wallet[nonce[w]] = w
    BY <1>4
  <2>1. nonce[w] \in Calls
    BY DEF Bookkeeping, TypeOK
  <2>2. pc[nonce[w]] \in {"reply", "handed"} /\ wallet[nonce[w]] = w
    BY DEF Bookkeeping
  <2>3. QED BY <2>1, <2>2, <1>1
<1>7. \A d \in Calls : pc'[d] \in {"draw", "reply", "handed"} => keys'[wallet'[d]] # None
  BY <1>1, <1>4 DEF Bookkeeping
<1>8. \A d \in Calls : pc'[d] = "load" => presents'[d] \in Handed' \union {BadSignature}
  BY <1>1, <1>3, <1>5 DEF Bookkeeping
<1>9. \A d \in Calls : pc'[d] \in PastLoad => /\ presents'[d] \in Handed'
                                              /\ wallet'[presents'[d]] = wallet'[d]
  BY <1>1, <1>3, <1>4 DEF Bookkeeping, PastLoad
<1>10. \A d \in Calls : pc'[d] \in PastLoad \ {"clear"} => nonce'[wallet'[d]] # presents'[d]
  BY <1>1, <1>4 DEF Bookkeeping, PastLoad
<1>11. QED
  BY <1>2, <1>6, <1>7, <1>8, <1>9, <1>10 DEF Bookkeeping

LEMMA LoadUserPreserves ==
    ASSUME Bookkeeping, NEW c \in Calls, LoadUser(c) \/ SetLastSignature(c) \/ IssueTokens(c)
    PROVE  Bookkeeping'
<1>1. CASE LoadUser(c)
  <2>1. /\ pc[c] = "load"
        /\ UNCHANGED <<users, nonce, lastSignature, keys, wallet, presents, stopped>>
    BY <1>1 DEF LoadUser, At, rows, request
  <2>2. PICK s \in {"clear", "refused"} : /\ pc' = [pc EXCEPT ![c] = s]
                                          /\ s = "clear" => /\ nonce[wallet[c]] # None
                                                            /\ presents[c] = nonce[wallet[c]]
    BY <1>1 DEF LoadUser, Goto, SignatureFits
  <2>3. s = "clear" => presents[c] \in Handed /\ wallet[presents[c]] = wallet[c]
    BY <2>1, <2>2, NoneAssumption DEF Bookkeeping, TypeOK
  <2>4. QED
    BY <2>1, <2>2, <2>3, QuietStep DEF VerifyWaits, Ended, PastLoad, Bookkeeping, TypeOK
<1>2. CASE SetLastSignature(c)
  <2>1. /\ pc[c] = "note" /\ pc' = [pc EXCEPT ![c] = "issue"]
        /\ lastSignature' \in [Wallets -> Calls \union {None}]
        /\ UNCHANGED <<users, nonce, keys, wallet, presents, stopped>>
    BY <1>2 DEF SetLastSignature, At, Goto, request, Bookkeeping, TypeOK
  <2>2. QED
    BY <2>1, QuietStep DEF VerifyWaits, PastLoad, Bookkeeping, TypeOK
<1>3. CASE IssueTokens(c)
  BY <1>3, QuietStep DEF IssueTokens, At, Goto, rows, request, Ended, PastLoad, Bookkeeping,
     TypeOK
<1>4. QED BY <1>1, <1>2, <1>3

LEMMA ClearNoncePreserves ==
    ASSUME Bookkeeping, NEW c \in Calls, ClearNonce(c)
    PROVE  Bookkeeping'
<1>1. /\ \A d \in Calls : d # c => pc'[d] = pc[d]
      /\ pc'[c] = "note" /\ pc[c] = "clear"
  BY DEF ClearNonce, At, Goto, Bookkeeping, TypeOK
<1>2. TypeOK'
  BY DEF ClearNonce, At, Goto, request, Bookkeeping, TypeOK, VerifyWaits
<1>3. Handed' = Handed
  BY <1>1 DEF Handed
<1>4. /\ nonce'[wallet[c]] = None
      /\ \A w \in Wallets : w # wallet[c] => nonce'[w] = nonce[w]
  BY DEF ClearNonce, Bookkeeping, TypeOK
<1>5. UNCHANGED <<keys, wallet, presents>>
  BY DEF ClearNonce, request
<1>6. \A d \in Calls : pc'[d] \in PastLoad => presents[d] \in Calls
  BY <1>1 DEF Bookkeeping, Handed, PastLoad
<1>7. \A d \in Calls : pc'[d] \in PastLoad \ {"clear"} => nonce'[wallet'[d]] # presents'[d]
  BY <1>1, <1>4, <1>5, <1>6, NoneAssumption DEF Bookkeeping, TypeOK, PastLoad
<1>8. \A w \in Wallets : nonce'[w] # None => /\ pc'[nonce'[w]] \in {"reply", "handed"}
                                             /\ wallet'[nonce'[w]] = w
  BY <1>1, <1>4, <1>5 DEF Bookkeeping, TypeOK
<1>9. \A d \in Calls : pc'[d] \in {"draw", "reply", "handed"} => keys'[wallet'[d]] # None
  BY <1>1, <1>5 DEF Bookkeeping
<1>10. \A d \in Calls : pc'[d] = "load" => presents'[d] \in Handed' \union {BadSignature}
  BY <1>1, <1>3, <1>5 DEF Bookkeeping
<1>11. \A d \in Calls : pc'[d] \in PastLoad => /\ presents'[d] \in Handed'
                                               /\ wallet'[presents'[d]] = wallet'[d]
  BY <1>1, <1>3, <1>5 DEF Bookkeeping, PastLoad
<1>12. QED
  BY <1>2, <1>7, <1>8, <1>9, <1>10, <1>11 DEF Bookkeeping

LEMMA StopPreserves ==
    ASSUME Bookkeeping, NEW c \in Calls, Stop(c)
    PROVE  Bookkeeping'
BY DEF Stop, rows, request, Bookkeeping, TypeOK, Handed, PastLoad

LEMMA BookkeepingNext == Bookkeeping /\ [Next]_vars => Bookkeeping'
<1> SUFFICES ASSUME Bookkeeping, Next PROVE Bookkeeping'
  BY BookkeepingStutter
<1>1. ASSUME NEW c \in Calls, AskNonce(c) PROVE Bookkeeping'
  BY <1>1, AskNoncePreserves
<1>2. ASSUME NEW c \in Calls, NEW n \in Calls \union {BadSignature}, PresentSignature(c, n)
      PROVE  Bookkeeping'
  BY <1>2, PresentSignaturePreserves
<1>3. ASSUME NEW c \in Calls, Handler(c) PROVE Bookkeeping'
  BY <1>3, AskNoncePreserves, CreateUserPreserves, SetArKeysPreserves, GenerateNoncePreserves,
     LoadUserPreserves, ClearNoncePreserves DEF Handler
<1>4. ASSUME NEW c \in FaultyCalls, Stop(c) PROVE Bookkeeping'
  BY <1>4, StopPreserves, FaultyCallsAssumption
<1>5. QED BY <1>1, <1>2, <1>3, <1>4 DEF Next

\* Bookkeeping is an invariant of sign-in, however calls overlap and stop.
THEOREM BookkeepingHolds == Spec => []Bookkeeping
BY BookkeepingInit, BookkeepingNext, PTL DEF Spec

-----------------------------------------------------------------------------
(* What follows from it.                                                   *)

\* A wallet has its Arweave keys before it has a nonce and before it signs in.
THEOREM KeysComeFirst == Spec => []KeysBeforeNonce
<1>1. Bookkeeping => KeysBeforeNonce
  <2> SUFFICES ASSUME Bookkeeping PROVE KeysBeforeNonce
    OBVIOUS
  <2>1. ASSUME NEW w \in Wallets, nonce[w] # None PROVE keys[w] # None
    BY <2>1 DEF Bookkeeping, TypeOK
  <2>2. ASSUME NEW c \in Calls, pc[c] = "granted" PROVE keys[wallet[c]] # None
    BY <2>2 DEF Bookkeeping, TypeOK, Handed, PastLoad
  <2>3. QED BY <2>1, <2>2 DEF KeysBeforeNonce
<1>2. QED BY <1>1, BookkeepingHolds, PTL

\* An Arweave key pair stays as it is, whatever two first calls do.
THEOREM KeysStay == Spec => KeysAreKept
<1>1. Bookkeeping /\ [Next]_vars
        => [\A w \in Wallets : keys[w] # None => keys'[w] = keys[w]]_vars
  <2> SUFFICES ASSUME Bookkeeping, Next, NEW w \in Wallets, keys[w] # None
               PROVE  keys'[w] = keys[w]
    OBVIOUS
  <2>1. ASSUME NEW c \in Calls, SetArKeys(c) PROVE keys'[w] = keys[w]
    BY <2>1 DEF SetArKeys, Bookkeeping, TypeOK
  <2>2. UNCHANGED keys \/ \E c \in Calls : SetArKeys(c)
    BY DEF Next, Handler, AskNonce, FindUser, CreateUser, GetArKeys, GenerateNonce, AnswerNonce,
       PresentSignature, LoadUser, ClearNonce, SetLastSignature, IssueTokens, Stop, rows
  <2>3. QED BY <2>1, <2>2
<1>2. QED BY <1>1, BookkeepingHolds, PTL DEF Spec, KeysAreKept

\* Nobody gets past the comparison with a nonce that was cleared.
THEOREM SpentNonceIsRefused == Spec => SpentStaysSpent
<1> DEFINE Refused == \A c \in Calls : (pc[c] = "load" /\ pc'[c] = "clear")
                                          => Cleared(wallet[c], presents[c]) = {}
<1>1. Bookkeeping /\ [Next]_vars => [Refused]_vars
  <2> SUFFICES ASSUME Bookkeeping, Next, NEW c \in Calls, pc[c] = "load", pc'[c] = "clear"
               PROVE  Cleared(wallet[c], presents[c]) = {}
    OBVIOUS
  <2>1. LoadUser(c)
    BY DEF Next, Handler, AskNonce, FindUser, CreateUser, GetArKeys, SetArKeys, GenerateNonce,
       AnswerNonce, PresentSignature, LoadUser, ClearNonce, SetLastSignature, IssueTokens, Stop,
       Goto, At, Bookkeeping, TypeOK
  <2>2. nonce[wallet[c]] = presents[c]
    BY <2>1 DEF LoadUser, Goto, SignatureFits, Bookkeeping, TypeOK
  <2>3. QED BY <2>2 DEF Cleared, Bookkeeping, PastLoad
<1>2. QED BY <1>1, BookkeepingHolds, PTL DEF Spec, SpentStaysSpent

-----------------------------------------------------------------------------
(* Careful wallets: one signature at a time.                               *)

\* c presents a signature and has not been answered.
Presents(c) == /\ c \notin stopped
               /\ pc[c] \in VerifyWaits
               /\ presents[c] # BadSignature

\* A careful wallet has one signature under way, and a call that is about to clear
\* the nonce comes with one that bought nothing yet.
CarefulKnows ==
    /\ \A c, d \in Calls : (/\ Presents(c) /\ Presents(d)
                            /\ wallet[c] = wallet[d] /\ wallet[c] \in Careful) => c = d
    /\ \A c \in Calls : (At(c, "clear") /\ wallet[c] \in Careful)
                            => Cleared(wallet[c], presents[c]) = {}

\* What a step of c leaves alone, and where c may have come from.
StepOf(c) ==
    /\ \A d \in Calls : d # c => pc'[d] = pc[d] /\ presents'[d] = presents[d]
    /\ wallet' = wallet
    /\ stopped \subseteq stopped'
    /\ Presents(c)' => Presents(c) \/ wallet[c] \notin Careful \/ Presenting(wallet[c]) = {}
    /\ At(c, "clear")' => /\ pc[c] = "load"
                          /\ presents'[c] = presents[c]
                          /\ presents[c] = nonce[wallet[c]]
    /\ pc'[c] \in {"note", "issue", "granted"}
           => /\ presents'[c] = presents[c]
              /\ pc[c] \in {"note", "issue", "granted"} \/ At(c, "clear")

\* The shape of every step: it is the step of one call.
LEMMA StepOfOneCall ==
    ASSUME TypeOK, Next
    PROVE  \E c \in Calls : StepOf(c)
<1>1. ASSUME NEW c \in Calls, AskNonce(c) PROVE StepOf(c)
  BY <1>1 DEF StepOf, AskNonce, Goto, rows, request, TypeOK, Presents, At, VerifyWaits
<1>2. ASSUME NEW c \in Calls, NEW n \in Calls \union {BadSignature}, PresentSignature(c, n)
      PROVE  StepOf(c)
  <2>1. /\ pc' = [pc EXCEPT ![c] = "load"] /\ presents' = [presents EXCEPT ![c] = n]
        /\ UNCHANGED <<wallet, stopped>>
        /\ wallet[c] \in Careful /\ n # BadSignature => Presenting(wallet[c]) = {}
    BY <1>2 DEF PresentSignature, Goto
  <2>2. Presents(c)' => wallet[c] \notin Careful \/ Presenting(wallet[c]) = {}
    BY <2>1 DEF Presents, TypeOK
  <2>3. QED BY <2>1, <2>2 DEF StepOf, TypeOK, At
<1>3. ASSUME NEW c \in Calls,
             FindUser(c) \/ CreateUser(c) \/ GetArKeys(c) \/ SetArKeys(c) \/ GenerateNonce(c)
               \/ AnswerNonce(c)
      PROVE  StepOf(c)
  <2>1. UNCHANGED <<wallet, presents, stopped>> /\ pc[c] \in AskWaits /\ c \notin stopped
    BY <1>3 DEF FindUser, CreateUser, GetArKeys, SetArKeys, GenerateNonce, AnswerNonce, At, rows,
                request, AskWaits
  <2>2. \E s \in {"create", "lookup", "refused", "keep", "draw", "reply", "handed"} : Goto(c, s)
    BY <1>3 DEF FindUser, CreateUser, GetArKeys, SetArKeys, GenerateNonce, AnswerNonce, Goto
  <2>3. QED BY <2>1, <2>2 DEF StepOf, Goto, Presents, At, TypeOK, VerifyWaits
<1>4. ASSUME NEW c \in Calls, LoadUser(c) PROVE StepOf(c)
  BY <1>4 DEF StepOf, LoadUser, SignatureFits, At, Goto, Presents, rows, request, TypeOK, VerifyWaits
<1>5. ASSUME NEW c \in Calls, ClearNonce(c) \/ SetLastSignature(c) \/ IssueTokens(c)
      PROVE  StepOf(c)
  <2>1. /\ UNCHANGED <<wallet, presents, stopped>>
        /\ c \notin stopped
        /\ pc[c] \in {"note", "issue"} \/ At(c, "clear")
    BY <1>5 DEF ClearNonce, SetLastSignature, IssueTokens, At, rows, request
  <2>2. \E s \in {"note", "issue", "granted"} : Goto(c, s)
    BY <1>5 DEF ClearNonce, SetLastSignature, IssueTokens, Goto
  <2>3. QED BY <2>1, <2>2 DEF StepOf, Goto, Presents, At, TypeOK, VerifyWaits
<1>6. ASSUME NEW c \in Calls, Stop(c) PROVE StepOf(c)
  BY <1>6 DEF StepOf, Stop, Presents, At, rows, request, TypeOK
<1>7. QED
  BY <1>1, <1>2, <1>3, <1>4, <1>5, <1>6, FaultyCallsAssumption DEF Next, Handler

LEMMA CarefulNext == Bookkeeping /\ CarefulKnows /\ [Next]_vars => CarefulKnows'
<1> SUFFICES ASSUME Bookkeeping, CarefulKnows, Next PROVE CarefulKnows'
  BY DEF CarefulKnows, Presents, At, Cleared, vars, rows, request
<1> TypeOK
  BY DEF Bookkeeping
<1>1. PICK c \in Calls : StepOf(c)
  BY StepOfOneCall
<1>2. ASSUME NEW d \in Calls, d # c, Presents(d)' PROVE Presents(d)
  BY <1>1, <1>2 DEF Presents, StepOf
<1>3. ASSUME NEW d \in Calls, d # c, Presents(c)', Presents(d)', wallet[d] = wallet[c],
             wallet[c] \in Careful
      PROVE  FALSE
  <2>1. Presents(d)
    BY <1>2, <1>3
  <2>2. ~Presents(c)
    BY <2>1, <1>3 DEF CarefulKnows
  <2>3. Presenting(wallet[c]) = {}
    BY <2>2, <1>1, <1>3 DEF StepOf
  <2>4. d \in Presenting(wallet[c])
    BY <2>1, <1>3 DEF Presenting, Open, Presents
  <2>5. QED BY <2>3, <2>4
<1>4. \A d, e \in Calls : (/\ Presents(d)' /\ Presents(e)'
                           /\ wallet'[d] = wallet'[e] /\ wallet'[d] \in Careful) => d = e
  BY <1>1, <1>2, <1>3 DEF CarefulKnows, StepOf
<1>5. ASSUME NEW d \in Calls, At(d, "clear")', wallet[d] \in Careful,
             NEW e \in Calls, pc'[e] \in {"note", "issue", "granted"},
             wallet[e] = wallet[d], presents'[e] = presents'[d]
      PROVE  FALSE
  <2>1. presents'[e] = presents[e]
    BY <1>1, <1>5 DEF StepOf
  <2>2. presents'[d] = presents[d]
    BY <1>1, <1>5 DEF StepOf
  <2>3. CASE pc[e] \in {"note", "issue", "granted"}
    <3>1. e \in Cleared(wallet[d], presents[d])
      BY <1>5, <2>1, <2>2, <2>3 DEF Cleared
    <3>2. ~At(d, "clear")
      BY <3>1, <1>5 DEF CarefulKnows
    <3>3. d = c
      BY <3>2, <1>1, <1>5 DEF StepOf, At
    <3>4. presents[d] = nonce[wallet[d]]
      BY <3>3, <1>1, <1>5 DEF StepOf
    <3>5. nonce[wallet[e]] # presents[e]
      BY <2>3 DEF Bookkeeping, PastLoad
    <3>6. QED BY <3>4, <3>5, <1>5, <2>1, <2>2
  <2>4. CASE pc[e] \notin {"note", "issue", "granted"}
    <3>1. e = c /\ At(e, "clear")
      BY <2>4, <1>1, <1>5 DEF StepOf
    <3>2. d # e
      BY <1>5 DEF At
    <3>3. At(d, "clear")
      BY <3>1, <3>2, <1>1, <1>5 DEF StepOf, At
    <3>4. Presents(d) /\ Presents(e)
      BY <3>1, <3>3, NoneAssumption
         DEF Presents, At, VerifyWaits, Bookkeeping, PastLoad, Handed
    <3>5. QED BY <3>2, <3>4, <1>5 DEF CarefulKnows
  <2>5. QED BY <2>3, <2>4
<1>6. \A d \in Calls : (At(d, "clear")' /\ wallet'[d] \in Careful)
                          => Cleared(wallet[d], presents[d])' = {}
  BY <1>1, <1>5 DEF Cleared, StepOf
<1>7. QED BY <1>4, <1>6 DEF CarefulKnows

LEMMA CarefulInit == Init => CarefulKnows
BY DEF Init, CarefulKnows, Presents, At, VerifyWaits

-----------------------------------------------------------------------------
(* The book of a careful wallet.                                           *)

CarefulBook == [w \in Careful |-> nonce[w]]
Issued == {n \in Calls : wallet[n] \in Careful /\ pc[n] \in {"reply", "handed"}}
Spent == {p \in Careful \X Calls : Cleared(p[1], p[2]) # {}}

\* Steps that change neither the nonces nor who was handed, compared or cleared one.
LEMMA BookStays ==
    ASSUME TypeOK, NEW c \in Calls, NEW s, pc' = [pc EXCEPT ![c] = s],
           UNCHANGED <<nonce, wallet, stopped>>,
           \A d \in Calls : d # c => presents'[d] = presents[d],
           presents'[c] = presents[c] \/ pc[c] = "idle",
           pc[c] = "clear" <=> s = "clear",
           pc[c] \in {"reply", "handed"} <=> s \in {"reply", "handed"},
           pc[c] \in {"note", "issue", "granted"} <=> s \in {"note", "issue", "granted"}
    PROVE  UNCHANGED <<CarefulBook, Issued, Accepted, Spent>>
<1>1. \A d \in Calls : /\ pc'[d] \in {"reply", "handed"} <=> pc[d] \in {"reply", "handed"}
                       /\ pc'[d] = "clear" <=> pc[d] = "clear"
                       /\ pc'[d] \in {"note", "issue", "granted"} <=> pc[d] \in {"note", "issue", "granted"}
                       /\ pc[d] \in {"clear", "note", "issue", "granted"} => presents'[d] = presents[d]
  BY DEF TypeOK
<1>2. \A w \in Wallets, n \in Calls : Cleared(w, n)' = Cleared(w, n)
  BY <1>1 DEF Cleared
<1>3. Spent' = Spent
  BY <1>2, CarefulAssumption DEF Spent
<1>4. Accepted' = Accepted
  BY <1>1 DEF Accepted, At
<1>5. QED BY <1>1, <1>3, <1>4 DEF CarefulBook, Issued

\* Who is past the comparison and not past clearNonce, of the careful wallets.
LEMMA AcceptedIs ==
    ASSUME NEW w \in Careful, NEW n \in Calls
    PROVE  <<w, n>> \in Accepted <=> \E c \in Calls : At(c, "clear") /\ wallet[c] = w /\ presents[c] = n
BY DEF Accepted

\* The same after the step.
LEMMA AcceptedBecomes ==
    ASSUME NEW w \in Careful, NEW n \in Calls
    PROVE  <<w, n>> \in Accepted' <=>
               \E c \in Calls : At(c, "clear")' /\ wallet'[c] = w /\ presents'[c] = n
BY DEF Accepted

\* A careful wallet has no other sign-in under way than c's.
LEMMA AcceptedAlone ==
    ASSUME Bookkeeping, CarefulKnows, NEW c \in Calls, wallet[c] \in Careful, Presents(c),
           NEW d \in Calls, At(d, "clear"), wallet[d] = wallet[c]
    PROVE  d = c
<1>1. Presents(d)
  BY NoneAssumption DEF Presents, At, VerifyWaits, Bookkeeping, PastLoad, Handed
<1>2. QED BY <1>1 DEF CarefulKnows

\* The sign-in of c is no longer under way: what is accepted loses its nonce, if its
\* wallet is a careful one.
LEMMA AcceptedEnds ==
    ASSUME Bookkeeping, CarefulKnows, NEW c \in Calls, At(c, "clear"),
           ~At(c, "clear")', UNCHANGED <<wallet, presents>>,
           \A d \in Calls \ {c} : At(d, "clear")' <=> At(d, "clear")
    PROVE  /\ wallet[c] \in Careful => /\ <<wallet[c], presents[c]>> \in Accepted
                                       /\ Accepted' = Accepted \ {<<wallet[c], presents[c]>>}
           /\ wallet[c] \notin Careful => Accepted' = Accepted
<1>1. presents[c] \in Calls /\ Presents(c)
  BY NoneAssumption DEF Presents, At, VerifyWaits, Bookkeeping, PastLoad, Handed
<1>2. CASE wallet[c] \in Careful
  <2>1. <<wallet[c], presents[c]>> \in Accepted
    BY <1>1, <1>2, AcceptedIs
  <2>2. ASSUME NEW w \in Careful, NEW n \in Calls
        PROVE  <<w, n>> \in Accepted' <=> <<w, n>> \in Accepted /\ <<w, n>> # <<wallet[c], presents[c]>>
    <3>1. ASSUME <<w, n>> \in Accepted' PROVE <<w, n>> \in Accepted /\ w # wallet[c]
      <4>1. PICK d \in Calls : At(d, "clear")' /\ wallet[d] = w /\ presents[d] = n
        BY <3>1, AcceptedBecomes
      <4>2. d # c /\ At(d, "clear")
        BY <4>1
      <4>3. QED BY <4>1, <4>2, <1>1, <1>2, AcceptedAlone, AcceptedIs
    <3>2. ASSUME <<w, n>> \in Accepted, <<w, n>> # <<wallet[c], presents[c]>>
          PROVE  <<w, n>> \in Accepted'
      <4>1. PICK d \in Calls : At(d, "clear") /\ wallet[d] = w /\ presents[d] = n
        BY <3>2, AcceptedIs
      <4>2. d # c
        BY <4>1, <3>2
      <4>3. At(d, "clear")' /\ wallet'[d] = w /\ presents'[d] = n
        BY <4>1, <4>2
      <4>4. QED BY <4>3, AcceptedBecomes
    <3>3. QED BY <3>1, <3>2
  <2>3. Accepted' = Accepted \ {<<wallet[c], presents[c]>>}
    BY <2>2 DEF Accepted
  <2>4. QED BY <1>2, <2>1, <2>3
<1>3. CASE wallet[c] \notin Careful
  <2>1. \A d \in Calls : wallet[d] \in Careful => (At(d, "clear")' <=> At(d, "clear"))
    BY <1>3
  <2>2. QED BY <1>3, <2>1 DEF Accepted
<1>4. QED BY <1>2, <1>3

\* A step of Next is a step of the book of the careful wallets, or leaves it alone.
BookSteps ==
    \/ \E w \in Careful, n \in Calls :
         \/ /\ n \notin Issued
            /\ CarefulBook' = [CarefulBook EXCEPT ![w] = n]
            /\ Issued' = Issued \union {n}
            /\ UNCHANGED <<Accepted, Spent>>
         \/ /\ CarefulBook[w] = n
            /\ \A m \in Calls : <<w, m>> \notin Accepted
            /\ Accepted' = Accepted \union {<<w, n>>}
            /\ UNCHANGED <<CarefulBook, Issued, Spent>>
         \/ /\ <<w, n>> \in Accepted
            /\ <<w, n>> \notin Spent
            /\ CarefulBook' = [CarefulBook EXCEPT ![w] = None]
            /\ Accepted' = Accepted \ {<<w, n>>}
            /\ Spent' = Spent \union {<<w, n>>}
            /\ UNCHANGED Issued
         \/ /\ <<w, n>> \in Accepted
            /\ Accepted' = Accepted \ {<<w, n>>}
            /\ UNCHANGED <<CarefulBook, Issued, Spent>>
    \/ UNCHANGED <<CarefulBook, Issued, Accepted, Spent>>

LEMMA QuietBookStep ==
    ASSUME TypeOK, NEW c \in Calls,
           \/ AskNonce(c) \/ \E n \in Calls \union {BadSignature} : PresentSignature(c, n)
           \/ FindUser(c) \/ CreateUser(c) \/ GetArKeys(c) \/ SetArKeys(c) \/ AnswerNonce(c)
           \/ SetLastSignature(c) \/ IssueTokens(c)
    PROVE  BookSteps
<1>1. /\ UNCHANGED <<nonce, wallet, stopped>>
      /\ \A d \in Calls : d # c => presents'[d] = presents[d]
      /\ presents'[c] = presents[c] \/ pc[c] = "idle"
  BY DEF AskNonce, PresentSignature, FindUser, CreateUser, GetArKeys, SetArKeys, AnswerNonce,
         SetLastSignature, IssueTokens, rows, request, TypeOK
<1>2. \E s : /\ pc' = [pc EXCEPT ![c] = s]
             /\ pc[c] = "clear" <=> s = "clear"
             /\ pc[c] \in {"reply", "handed"} <=> s \in {"reply", "handed"}
             /\ pc[c] \in {"note", "issue", "granted"} <=> s \in {"note", "issue", "granted"}
  BY DEF AskNonce, PresentSignature, FindUser, CreateUser, GetArKeys, SetArKeys, AnswerNonce,
         SetLastSignature, IssueTokens, At, Goto
<1>3. QED BY <1>1, <1>2, BookStays DEF BookSteps

LEMMA GenerateNonceBookStep ==
    ASSUME TypeOK, NEW c \in Calls, GenerateNonce(c)
    PROVE  BookSteps
<1>1. /\ pc[c] = "draw" /\ pc' = [pc EXCEPT ![c] = "reply"]
      /\ nonce' = [nonce EXCEPT ![wallet[c]] = c]
      /\ UNCHANGED <<wallet, presents, stopped>>
  BY DEF GenerateNonce, At, Goto, request
<1>2. \A d \in Calls : /\ pc'[d] \in {"note", "issue", "granted"} <=> pc[d] \in {"note", "issue", "granted"}
                       /\ pc'[d] = "clear" <=> pc[d] = "clear"
  BY <1>1 DEF TypeOK
<1>3. UNCHANGED <<Accepted, Spent>>
  BY <1>1, <1>2 DEF Accepted, At, Spent, Cleared
<1>4. CASE wallet[c] \in Careful
  <2>1. c \notin Issued /\ Issued' = Issued \union {c}
    BY <1>1, <1>4 DEF Issued, TypeOK
  <2>2. CarefulBook' = [CarefulBook EXCEPT ![wallet[c]] = c]
    BY <1>1, <1>4, CarefulAssumption DEF CarefulBook, TypeOK
  <2>3. QED BY <1>3, <1>4, <2>1, <2>2 DEF BookSteps
<1>5. CASE wallet[c] \notin Careful
  <2>1. Issued' = Issued
    BY <1>1, <1>5 DEF Issued, TypeOK
  <2>2. CarefulBook' = CarefulBook
    BY <1>1, <1>5, CarefulAssumption DEF CarefulBook, TypeOK
  <2>3. QED BY <1>3, <2>1, <2>2 DEF BookSteps
<1>6. QED BY <1>4, <1>5

LEMMA LoadUserBookStep ==
    ASSUME Bookkeeping, CarefulKnows, NEW c \in Calls, LoadUser(c)
    PROVE  BookSteps
<1> TypeOK
  BY DEF Bookkeeping
<1>1. /\ pc[c] = "load" /\ At(c, "load")
      /\ UNCHANGED <<nonce, wallet, presents, stopped>>
  BY DEF LoadUser, At, rows, request
<1>2. PICK s \in {"clear", "refused"} : /\ pc' = [pc EXCEPT ![c] = s]
                                        /\ s = "clear" => /\ nonce[wallet[c]] # None
                                                          /\ presents[c] = nonce[wallet[c]]
  BY DEF LoadUser, Goto, SignatureFits
<1>3. CASE s = "refused"
  BY <1>1, <1>2, <1>3, BookStays DEF BookSteps
<1>4. CASE s = "clear"
  <2>1. /\ \A d \in Calls : At(d, "clear")' <=> At(d, "clear") \/ d = c
        /\ \A d \in Calls : /\ pc'[d] \in {"note", "issue", "granted"} <=> pc[d] \in {"note", "issue", "granted"}
                            /\ pc'[d] \in {"reply", "handed"} <=> pc[d] \in {"reply", "handed"}
    BY <1>1, <1>2, <1>4 DEF At, TypeOK
  <2>2. UNCHANGED <<CarefulBook, Issued, Spent>>
    BY <1>1, <2>1 DEF CarefulBook, Issued, Spent, Cleared
  <2>3. presents[c] \in Calls /\ (wallet[c] \in Careful => CarefulBook[wallet[c]] = presents[c])
    BY <1>2, <1>4 DEF CarefulBook, TypeOK
  <2>4. CASE wallet[c] \notin Careful
    <3>1. Accepted' = Accepted
      BY <1>1, <2>1, <2>4 DEF Accepted
    <3>2. QED BY <2>2, <3>1 DEF BookSteps
  <2>5. CASE wallet[c] \in Careful
    <3>1. Presents(c)
      BY <1>1, <2>3, <2>5, NoneAssumption DEF Presents, At, VerifyWaits
    <3>2. \A m \in Calls : <<wallet[c], m>> \notin Accepted
      <4> SUFFICES ASSUME NEW m \in Calls, <<wallet[c], m>> \in Accepted PROVE FALSE
        OBVIOUS
      <4>1. PICK d \in Calls : At(d, "clear") /\ wallet[d] = wallet[c]
        BY <2>5, AcceptedIs
      <4>2. d = c
        BY <4>1, <3>1, <2>5, AcceptedAlone
      <4>3. QED BY <4>1, <4>2, <1>1 DEF At
    <3>3. \A w \in Careful, n \in Calls :
            <<w, n>> \in Accepted' <=> <<w, n>> \in Accepted \/ (w = wallet[c] /\ n = presents[c])
      <4> SUFFICES ASSUME NEW w \in Careful, NEW n \in Calls
                   PROVE  <<w, n>> \in Accepted' <=>
                              <<w, n>> \in Accepted \/ (w = wallet[c] /\ n = presents[c])
        OBVIOUS
      <4>1. <<w, n>> \in Accepted' <=>
                \E d \in Calls : At(d, "clear")' /\ wallet'[d] = w /\ presents'[d] = n
        BY AcceptedBecomes
      <4>2. <<w, n>> \in Accepted <=>
                \E d \in Calls : At(d, "clear") /\ wallet[d] = w /\ presents[d] = n
        BY AcceptedIs
      <4>3. QED BY <4>1, <4>2, <1>1, <2>1
    <3>4. Accepted' = Accepted \union {<<wallet[c], presents[c]>>}
      BY <3>3, <2>3, <2>5 DEF Accepted
    <3>5. QED BY <2>2, <2>3, <2>5, <3>2, <3>4 DEF BookSteps
  <2>6. QED BY <2>4, <2>5
<1>5. QED BY <1>2, <1>3, <1>4

LEMMA ClearNonceBookStep ==
    ASSUME Bookkeeping, CarefulKnows, NEW c \in Calls, ClearNonce(c)
    PROVE  BookSteps
<1> TypeOK
  BY DEF Bookkeeping
<1>1. /\ pc[c] = "clear" /\ At(c, "clear") /\ pc' = [pc EXCEPT ![c] = "note"]
      /\ nonce' = [nonce EXCEPT ![wallet[c]] = None]
      /\ UNCHANGED <<wallet, presents, stopped>>
  BY DEF ClearNonce, At, Goto, request
<1>2. UNCHANGED Issued
  BY <1>1 DEF Issued, TypeOK
<1>3. presents[c] \in Calls
  BY <1>1 DEF Bookkeeping, PastLoad, Handed
<1>4. \A w \in Wallets, n \in Calls :
        Cleared(w, n)' = IF w = wallet[c] /\ n = presents[c] THEN Cleared(w, n) \union {c}
                         ELSE Cleared(w, n)
  BY <1>1 DEF Cleared, TypeOK
<1>5. ~At(c, "clear")' /\ \A d \in Calls \ {c} : At(d, "clear")' <=> At(d, "clear")
  BY <1>1 DEF At, TypeOK
<1>6. /\ wallet[c] \in Careful => /\ <<wallet[c], presents[c]>> \in Accepted
                                  /\ Accepted' = Accepted \ {<<wallet[c], presents[c]>>}
      /\ wallet[c] \notin Careful => Accepted' = Accepted
  BY <1>1, <1>5, AcceptedEnds
<1>7. CASE wallet[c] \in Careful
  <2>1. <<wallet[c], presents[c]>> \notin Spent
    BY <1>1, <1>7 DEF CarefulKnows, Spent
  <2>2. CarefulBook' = [CarefulBook EXCEPT ![wallet[c]] = None]
    BY <1>1, <1>7, CarefulAssumption DEF CarefulBook, TypeOK
  <2>3. \A w \in Careful, n \in Calls :
          <<w, n>> \in Spent' <=> <<w, n>> \in Spent \/ (w = wallet[c] /\ n = presents[c])
    BY <1>4, CarefulAssumption DEF Spent
  <2>4. Spent' = Spent \union {<<wallet[c], presents[c]>>}
    BY <2>3, <1>3, <1>7 DEF Spent
  <2>5. QED BY <1>2, <1>3, <1>6, <1>7, <2>1, <2>2, <2>4 DEF BookSteps
<1>8. CASE wallet[c] \notin Careful
  <2>1. \A w \in Careful, n \in Calls : Cleared(w, n)' = Cleared(w, n)
    BY <1>4, <1>8, CarefulAssumption
  <2>2. Spent' = Spent
    BY <2>1 DEF Spent
  <2>3. CarefulBook' = CarefulBook
    BY <1>1, <1>8, CarefulAssumption DEF CarefulBook, TypeOK
  <2>4. QED BY <1>2, <1>6, <1>8, <2>2, <2>3 DEF BookSteps
<1>9. QED BY <1>7, <1>8

LEMMA StopBookStep ==
    ASSUME Bookkeeping, CarefulKnows, NEW c \in Calls, Stop(c)
    PROVE  BookSteps
<1>1. UNCHANGED <<nonce, pc, wallet, presents>> /\ stopped' = stopped \union {c} /\ c \notin stopped
  BY DEF Stop, rows, request
<1>2. UNCHANGED <<CarefulBook, Issued, Spent>>
  BY <1>1 DEF CarefulBook, Issued, Spent, Cleared
<1>3. CASE pc[c] # "clear"
  <2>1. \A d \in Calls : At(d, "clear")' <=> At(d, "clear")
    BY <1>1, <1>3 DEF At
  <2>2. QED BY <1>1, <1>2, <2>1 DEF Accepted, BookSteps
<1>4. CASE pc[c] = "clear"
  <2>1. /\ At(c, "clear") /\ ~At(c, "clear")'
        /\ \A d \in Calls \ {c} : At(d, "clear")' <=> At(d, "clear")
    BY <1>1, <1>4 DEF At
  <2>2. /\ wallet[c] \in Careful => /\ <<wallet[c], presents[c]>> \in Accepted
                                    /\ Accepted' = Accepted \ {<<wallet[c], presents[c]>>}
        /\ wallet[c] \notin Careful => Accepted' = Accepted
    BY <1>1, <2>1, AcceptedEnds
  <2>3. presents[c] \in Calls
    BY <1>4 DEF Bookkeeping, PastLoad, Handed
  <2>4. QED BY <1>2, <2>2, <2>3 DEF BookSteps
<1>5. QED BY <1>3, <1>4

LEMMA BookStep ==
    ASSUME Bookkeeping, CarefulKnows, Next
    PROVE  BookSteps
<1> TypeOK
  BY DEF Bookkeeping
<1>1. PICK c \in Calls : \/ AskNonce(c) \/ \E n \in Calls \union {BadSignature} : PresentSignature(c, n)
                         \/ Handler(c) \/ Stop(c)
  BY FaultyCallsAssumption DEF Next
<1>2. QED
  BY <1>1, QuietBookStep, GenerateNonceBookStep, LoadUserBookStep, ClearNonceBookStep, StopBookStep
     DEF Handler

\* A wallet that presents one signature at a time has a book of nonces, in which each
\* one buys one sign-in, although anybody may have nonces drawn for it meanwhile and
\* the calls of other wallets overlap.
THEOREM CarefulBookKept == Spec => OneNonceOneSignIn
<1>1. Init => Book!Init
  BY CarefulAssumption DEF Init, Book!Init, Cleared, Accepted, At
<1>2. Bookkeeping /\ CarefulKnows /\ [Next]_vars => [Book!Next]_(Book!vars)
  <2>1. ASSUME UNCHANGED vars PROVE UNCHANGED <<CarefulBook, Issued, Accepted, Spent>>
    BY <2>1 DEF vars, rows, request, CarefulBook, Issued, Spent, Cleared, Accepted, At
  <2>2. QED
    BY <2>1, BookStep DEF BookSteps, Book!Next, Book!Issue, Book!Accept, Book!Spend, Book!Drop,
       Book!vars, CarefulBook, Issued, Spent
<1>3. QED
  BY <1>1, <1>2, BookkeepingHolds, CarefulInit, CarefulNext, PTL
     DEF Spec, OneNonceOneSignIn, Book!Spec

=============================================================================
