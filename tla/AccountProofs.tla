----------------------------- MODULE AccountProofs -----------------------------
(***************************************************************************)
(* Proofs about accounts, for any clients, addresses and ids and any       *)
(* number of requests: each promise that the statements of a service keep  *)
(* when two requests of its kind do not overlap.                           *)
(*                                                                         *)
(* Sessions and wallets, by IInv: what the first statement of a request    *)
(* has read is still true at the later one that relies on it, unless       *)
(* another request of the kind was in flight, which raced records (Alone). *)
(*                                                                         *)
(* Groups, by GInv: a user whose additions did not overlap has one at a    *)
(* time (OneAdd) and watches nothing that it has not counted, so at the    *)
(* insert the cap of its check bounds both together (CountStands).         *)
(*                                                                         *)
(* The login limiter, by LInv: the requests that passed are those counted  *)
(* in the window of the bucket, those of the window before, and older ones *)
(* (Current), or there is no bucket and one window at most (Vacant); as a  *)
(* request takes at most Delay, no span of a window less two delays meets  *)
(* three windows (Spans).                                                  *)
(*                                                                         *)
(* Telegram, by TInv: what is polled starts at the offset (Polled), and    *)
(* until a restart what is before the offset is handled once and the rest  *)
(* is not (HandledBefore).                                                 *)
(*                                                                         *)
(* Settings, by CInv: unless a writer is about to invalidate, a reader     *)
(* holds the row, or knows it is late (ReadersHold), and so does the cache *)
(* (CacheHolds).                                                           *)
(*                                                                         *)
(* Messages have no history: each event is followed to its text.           *)
(***************************************************************************)
EXTENDS MCAccounts, FiniteSetTheorems, SequenceTheorems, NaturalsInduction, WellFoundedInduction, TLAPS

\* The columns of the rows; sessions and wallets are of accounts that exist.
Rows ==
  /\ \A u \in DOMAIN users : DOMAIN users[u] = {"email", "hash", "role", "status", "method"}
  /\ \A t \in DOMAIN tokens :
       /\ DOMAIN tokens[t] = {"user", "revoked", "expired", "deleted", "exchanges", "hash"}
       /\ tokens[t].user \in DOMAIN users
  /\ \A w \in DOMAIN wallets :
       /\ DOMAIN wallets[w] = {"user", "address", "primary", "deleted"}
       /\ wallets[w].user \in DOMAIN users
  /\ \A n \in DOMAIN nonces : DOMAIN nonces[n] = {"address", "used", "expired", "accepted"}

Ops == {"idle", "register", "login", "refresh", "password", "verify", "link", "unlink"}

\* What a request carries from one statement to the next.
HasFields(r) ==
  /\ {"op", "at", "reply"} \subseteq DOMAIN r /\ r.op \in Ops
  /\ r.op = "register" => {"email", "password", "user"} \subseteq DOMAIN r
  /\ r.op \in {"login", "refresh", "password", "verify", "link"} => "user" \in DOMAIN r
  /\ r.op = "refresh" => {"token", "hash"} \subseteq DOMAIN r
  /\ r.op = "password" => "password" \in DOMAIN r
  /\ r.op \in {"verify", "link"} => {"nonce", "address"} \subseteq DOMAIN r
  /\ r.op = "unlink" => "wallet" \in DOMAIN r

\* The rows it names exist.
NamesRows(r) ==
  /\ r.op \in {"login", "refresh", "password", "link"} => r.user \in DOMAIN users
  /\ r.op \in {"register", "verify"} /\ r.at = "token" => r.user \in DOMAIN users
  /\ r.op = "refresh" => r.token \in DOMAIN tokens
  /\ r.op \in {"verify", "link"} => r.nonce \in DOMAIN nonces
  /\ r.op = "unlink" => r.wallet \in DOMAIN wallets

\* An access token was given out for an account that exists.
BearerOf(b) == DOMAIN b = {"user", "role", "expired"} /\ (b = NoClaims \/ b.user \in DOMAIN users)

Calls ==
  /\ DOMAIN call = Clients /\ DOMAIN bearer = Clients /\ requests \in Nat
  /\ \A c \in Clients : BearerOf(bearer[c])
  /\ \A c \in Clients : HasFields(call[c]) /\ NamesRows(call[c])
  /\ requests = 0 => \A c \in Clients : call[c].op = "idle"

\* Two requests of a kind that did not overlap are not both in flight, and
\* nothing is in flight beside a password change that nothing overlapped.
Alone ==
  \A c, d \in Clients : c # d =>
    /\ Kind(call[c].op) = Kind(call[d].op) => call[c].op = "idle" \/ Kind(call[c].op) \in raced
    /\ call[c].op = "password" => call[d].op = "idle" \/ "password" \in raced

\* The address of a registration is still free when the account is created.
Registering ==
  "register" \notin raced =>
    \A c \in Clients : At(c, "register", "create") /\ call[c].email # NoEmail =>
                         GetUserByEmail(call[c].email) = {}

\* A refresh carries the hash of the account from before it to the new token.
Carrying ==
  "password" \notin raced =>
    \A c \in Clients : call[c].op = "refresh" => call[c].hash = users[call[c].user].hash

\* The wallet to be deleted still has a companion.
Unlinking ==
  "unlink" \notin raced =>
    \A c \in Clients : call[c].op = "unlink" =>
      \E w \in GetWalletsByUserID(wallets[call[c].wallet].user) : w # call[c].wallet

\* A token that was exchanged is revoked; one in a refresh was not exchanged.
Exchanged ==
  "refresh" \notin raced =>
    /\ \A t \in DOMAIN tokens :
         tokens[t].exchanges = 0 \/ (tokens[t].exchanges = 1 /\ tokens[t].revoked)
    /\ \A c \in Clients : call[c].op = "refresh" =>
         /\ tokens[call[c].token].exchanges = 0
         /\ call[c].at = "token" => tokens[call[c].token].revoked

\* The same for the nonce of a signed message.
Accepted ==
  "message" \notin raced =>
    /\ \A n \in DOMAIN nonces :
         nonces[n].accepted = 0 \/ (nonces[n].accepted = 1 /\ nonces[n].used)
    /\ \A c \in Clients : call[c].op \in {"verify", "link"} /\ call[c].at = "mark" =>
         nonces[call[c].nonce].accepted = 0

IInv ==
  /\ Rows /\ Calls /\ Alone
  /\ OneAccountPerEmail /\ Registering
  /\ OldSessionsEnd /\ Carrying
  /\ KeepsAWallet /\ Unlinking
  /\ Exchanged /\ Accepted

-----------------------------------------------------------------------------
(* Lemmas about rows and ids.                                              *)

\* A set of numbers that is not empty has a least element.
LEMMA LeastExists ==
  ASSUME NEW S \in SUBSET Nat, S # {}
  PROVE  \E m \in S : \A s \in S : m <= s
<1>1. PICK m \in S : \A s \in S : ~(<<s, m>> \in OpToRel(<, Nat))
    BY NatLessThanWellFounded, WFMin
<1>2. \A s \in S : ~(s < m)
    BY <1>1 DEF OpToRel
<1> QED BY <1>2

\* The next id of a table is one it does not have.
LEMMA FreshIds ==
  /\ UserIds \ DOMAIN users # {} => FreshUser \in UserIds \ DOMAIN users
  /\ TokenIds \ DOMAIN tokens # {} => FreshToken \in TokenIds \ DOMAIN tokens
  /\ WalletIds \ DOMAIN wallets # {} => Free(WalletIds, wallets) \in WalletIds \ DOMAIN wallets
  /\ NonceIds \ DOMAIN nonces # {} => Free(NonceIds, nonces) \in NonceIds \ DOMAIN nonces
<1>1. UserIds \subseteq Nat /\ TokenIds \subseteq Nat /\ WalletIds \subseteq Nat /\ NonceIds \subseteq Nat
    BY SessionsAssumption, WalletAssumption
<1>2. UserIds \ DOMAIN users # {} => FreshUser \in UserIds \ DOMAIN users
    BY <1>1, LeastExists DEF FreshUser
<1>3. TokenIds \ DOMAIN tokens # {} => FreshToken \in TokenIds \ DOMAIN tokens
    BY <1>1, LeastExists DEF FreshToken
<1>4. WalletIds \ DOMAIN wallets # {} => Free(WalletIds, wallets) \in WalletIds \ DOMAIN wallets
    BY <1>1, LeastExists DEF Free
<1>5. NonceIds \ DOMAIN nonces # {} => Free(NonceIds, nonces) \in NonceIds \ DOMAIN nonces
    BY <1>1, LeastExists DEF Free
<1> QED BY <1>2, <1>3, <1>4, <1>5

LEMMA InitInv == InitWallets => IInv
<1> SUFFICES ASSUME InitWallets PROVE IInv
    OBVIOUS
<1>1. /\ DOMAIN users = {} /\ DOMAIN tokens = {} /\ DOMAIN wallets = {} /\ DOMAIN nonces = {}
      /\ call = [c \in Clients |-> Idle] /\ requests = 0
    BY DEF InitWallets, Init
<1>2. \A c \in Clients : /\ call[c].op = "idle" /\ call[c].at = ""
                         /\ HasFields(call[c]) /\ NamesRows(call[c])
    BY <1>1 DEF Idle, HasFields, NamesRows, Ops
<1>3. DOMAIN bearer = Clients /\ \A c \in Clients : BearerOf(bearer[c])
    BY DEF InitWallets, Init, BearerOf, NoClaims
<1>4. Rows /\ Calls /\ Alone
    BY <1>1, <1>2, <1>3 DEF Rows, Calls, Alone
<1>5. OneAccountPerEmail /\ Registering /\ OldSessionsEnd /\ Carrying
    BY <1>1, <1>2 DEF OneAccountPerEmail, Registering, OldSessionsEnd, Carrying, At
<1>6. KeepsAWallet /\ Unlinking /\ Exchanged /\ Accepted
    BY <1>1, <1>2 DEF KeepsAWallet, Unlinking, Exchanged, Accepted
<1> QED BY <1>4, <1>5, <1>6 DEF IInv

-----------------------------------------------------------------------------
(* What a step that leaves a promise alone has to respect.                 *)

LEMMA CallsStay ==
  ASSUME IInv, DOMAIN call' = Clients, requests' = requests,
         DOMAIN users \subseteq DOMAIN users', DOMAIN tokens \subseteq DOMAIN tokens',
         DOMAIN wallets \subseteq DOMAIN wallets', DOMAIN nonces \subseteq DOMAIN nonces',
         \A d \in Clients :
           \/ call'[d] = call[d]
           \/ call[d].op # "idle" /\ (HasFields(call[d]) /\ NamesRows(call[d]))',
         DOMAIN bearer' = Clients,
         \A d \in Clients : bearer'[d] = bearer[d] \/ BearerOf(bearer[d])'
  PROVE  Calls'
<1>1. ASSUME NEW d \in Clients PROVE HasFields(call[d])' /\ NamesRows(call[d])'
  <2>1. CASE call'[d] = call[d]
    <3>1. HasFields(call[d]) /\ NamesRows(call[d])
        BY DEF IInv, Calls
    <3>2. HasFields(call[d])'
        BY <2>1, <3>1 DEF HasFields
    <3>3. NamesRows(call[d])'
        BY <2>1, <3>1 DEF NamesRows
    <3> QED BY <3>2, <3>3
  <2> QED BY <2>1
<1>2. requests = 0 => \A d \in Clients : call'[d].op = "idle"
    BY DEF IInv, Calls
<1>3. ASSUME NEW d \in Clients PROVE BearerOf(bearer[d])'
    BY DEF IInv, Calls, BearerOf
<1> QED BY <1>1, <1>2, <1>3 DEF IInv, Calls

LEMMA TokenGiven ==
  ASSUME IInv, NEW c \in Clients, NEW u \in DOMAIN users, GenerateToken(c, u), UNCHANGED users
  PROVE  /\ DOMAIN bearer' = Clients
         /\ \A d \in Clients : bearer'[d] = bearer[d] \/ BearerOf(bearer[d])'
<1>1. /\ DOMAIN bearer' = Clients /\ \A d \in Clients \ {c} : bearer'[d] = bearer[d]
      /\ bearer'[c] = [user |-> u, role |-> users[u].role, expired |-> FALSE]
    BY DEF GenerateToken, IInv, Calls
<1>2. BearerOf(bearer[c])'
    BY <1>1 DEF BearerOf
<1> QED BY <1>1, <1>2

LEMMA AloneStays ==
  ASSUME IInv, raced \subseteq raced',
         \A d \in Clients : call'[d].op = call[d].op \/ call'[d].op = "idle"
  PROVE  Alone'
BY DEF IInv, Alone, Kind

LEMMA EmailsStay ==
  ASSUME IInv, raced \subseteq raced', DOMAIN users' = DOMAIN users,
         \A u \in DOMAIN users : users'[u].email = users[u].email,
         \A d \in Clients : At(d, "register", "create")' => call'[d] = call[d]
  PROVE  OneAccountPerEmail' /\ Registering'
<1>1. OneAccountPerEmail'
    BY DEF IInv, OneAccountPerEmail
<1>2. Registering'
    BY DEF IInv, Registering, At, GetUserByEmail
<1> QED BY <1>1, <1>2

\* An account is added: its address is free, or it is the empty one.
LEMMA EmailsGrow ==
  ASSUME IInv, raced \subseteq raced', NEW i, DOMAIN users' = DOMAIN users \cup {i},
         i \notin DOMAIN users,
         \A u \in DOMAIN users : users'[u].email = users[u].email,
         \A d \in Clients : At(d, "register", "create")' => call'[d] = call[d],
         users'[i].email # NoEmail /\ "register" \notin raced =>
           /\ GetUserByEmail(users'[i].email) = {}
           /\ \A d \in Clients : ~At(d, "register", "create")'
  PROVE  OneAccountPerEmail' /\ Registering'
<1>1. OneAccountPerEmail'
    BY DEF IInv, OneAccountPerEmail, GetUserByEmail
<1>2. Registering'
    BY DEF IInv, Registering, At, GetUserByEmail
<1> QED BY <1>1, <1>2

LEMMA SessionsStay ==
  ASSUME IInv, raced \subseteq raced',
         \A u \in DOMAIN users : users'[u].hash = users[u].hash,
         \A t \in DOMAIN tokens :
           /\ tokens'[t].user = tokens[t].user /\ tokens'[t].hash = tokens[t].hash
           /\ Stale(t) => Stale(t)',
         \A t \in DOMAIN tokens' \ DOMAIN tokens : "password" \notin raced =>
           /\ tokens'[t].user \in DOMAIN users
           /\ tokens'[t].hash = users[tokens'[t].user].hash,
         \A d \in Clients : call'[d].op = "refresh" =>
           /\ call[d].op = "refresh"
           /\ call'[d].user = call[d].user /\ call'[d].hash = call[d].hash,
         \A d \in Clients : At(d, "password", "revoke") =>
           At(d, "password", "revoke")' /\ call'[d].user = call[d].user
  PROVE  OldSessionsEnd' /\ Carrying'
<1>1. OldSessionsEnd'
  <2> SUFFICES ASSUME "password" \notin raced, NEW t \in DOMAIN tokens'
               PROVE  \/ Stale(t)' \/ tokens'[t].hash = users'[tokens'[t].user].hash
                      \/ \E d \in Clients : At(d, "password", "revoke")' /\ call'[d].user = tokens'[t].user
      BY DEF OldSessionsEnd
  <2>1. CASE t \in DOMAIN tokens
    <3>1. tokens[t].user \in DOMAIN users
        BY <2>1 DEF IInv, Rows
    <3>2. \/ Stale(t) \/ tokens[t].hash = users[tokens[t].user].hash
          \/ \E d \in Clients : At(d, "password", "revoke") /\ call[d].user = tokens[t].user
        BY <2>1 DEF IInv, OldSessionsEnd
    <3> QED BY <2>1, <3>1, <3>2
  <2>2. CASE t \notin DOMAIN tokens
      BY <2>2
  <2> QED BY <2>1, <2>2
<1>2. Carrying'
  <2> SUFFICES ASSUME "password" \notin raced, NEW d \in Clients, call'[d].op = "refresh"
               PROVE  call'[d].hash = users'[call'[d].user].hash
      BY DEF Carrying
  <2>1. call[d].op = "refresh" /\ call[d].user \in DOMAIN users
      BY DEF IInv, Calls, NamesRows
  <2> QED BY <2>1 DEF IInv, Carrying
<1> QED BY <1>1, <1>2

LEMMA WalletsStay ==
  ASSUME IInv, raced \subseteq raced',
         \A w \in DOMAIN wallets : w \in DOMAIN wallets' /\ wallets'[w] = wallets[w],
         \A u \in DOMAIN users' : users'[u].method = "wallet" =>
           \/ u \in DOMAIN users /\ users[u].method = "wallet"
           \/ \E w \in DOMAIN wallets' : wallets'[w].user = u /\ ~wallets'[w].deleted,
         \A d \in Clients : call'[d].op = "unlink" => call'[d] = call[d]
  PROVE  KeepsAWallet' /\ Unlinking'
<1>1. \A u : GetWalletsByUserID(u) \subseteq GetWalletsByUserID(u)'
    BY DEF GetWalletsByUserID
<1>2. KeepsAWallet'
  <2> SUFFICES ASSUME "unlink" \notin raced, NEW u \in DOMAIN users', users'[u].method = "wallet"
               PROVE  GetWalletsByUserID(u)' # {}
      BY DEF KeepsAWallet
  <2>1. CASE u \in DOMAIN users /\ users[u].method = "wallet"
      BY <1>1, <2>1 DEF IInv, KeepsAWallet
  <2>2. CASE \E w \in DOMAIN wallets' : wallets'[w].user = u /\ ~wallets'[w].deleted
      BY <2>2 DEF GetWalletsByUserID
  <2> QED BY <2>1, <2>2
<1>3. Unlinking'
  <2> SUFFICES ASSUME "unlink" \notin raced, NEW d \in Clients, call'[d].op = "unlink"
               PROVE  \E w \in GetWalletsByUserID(wallets[call[d].wallet].user)' : w # call'[d].wallet
      BY DEF Unlinking
  <2>1. call'[d] = call[d] /\ call[d].wallet \in DOMAIN wallets
      BY DEF IInv, Calls, NamesRows
  <2>2. PICK w \in GetWalletsByUserID(wallets[call[d].wallet].user) : w # call[d].wallet
      BY <2>1 DEF IInv, Unlinking
  <2>3. wallets'[w] = wallets[w] /\ wallets'[call[d].wallet] = wallets[call[d].wallet] /\ w \in DOMAIN wallets'
      BY <2>1, <2>2 DEF GetWalletsByUserID
  <2> QED BY <2>1, <2>2, <2>3 DEF GetWalletsByUserID
<1> QED BY <1>2, <1>3

LEMMA ExchangesStay ==
  ASSUME IInv, raced \subseteq raced',
         \A t \in DOMAIN tokens : /\ tokens'[t].exchanges = tokens[t].exchanges
                                  /\ tokens[t].revoked => tokens'[t].revoked,
         \A t \in DOMAIN tokens' \ DOMAIN tokens : tokens'[t].exchanges = 0,
         \A d \in Clients : call'[d].op = "refresh" => call'[d] = call[d]
  PROVE  Exchanged'
BY DEF IInv, Exchanged, Calls, NamesRows

LEMMA NoncesStay ==
  ASSUME IInv, raced \subseteq raced',
         \A n \in DOMAIN nonces : /\ nonces'[n].accepted = nonces[n].accepted
                                  /\ nonces[n].used => nonces'[n].used,
         \A n \in DOMAIN nonces' \ DOMAIN nonces : nonces'[n].accepted = 0,
         \A d \in Clients : call'[d].op \in {"verify", "link"} /\ call'[d].at = "mark" => call'[d] = call[d]
  PROVE  Accepted'
BY DEF IInv, Accepted, Calls, NamesRows

-----------------------------------------------------------------------------
(* A request begins, or is answered by its first statement.                *)

LEMMA OverlapFacts ==
  ASSUME NEW c \in Clients, NEW d \in Clients, d # c, NEW k
  PROVE  /\ Kind(call[d].op) = k /\ k # "idle" => k \in Overlaps(c, k)
         /\ call[d].op = "password" => "password" \in Overlaps(c, k)
         /\ k = "password" /\ call[d].op \in Ops \ {"idle"} => "password" \in Overlaps(c, k)
<1> DEFINE others == {Kind(call[e].op) : e \in Clients \ {c}} \ {"idle"}
<1>1. Overlaps(c, k) = (others \cap {k}) \cup (IF others = {} THEN {} ELSE {"password"} \cap (others \cup {k}))
    BY DEF Overlaps
<1>2. Kind(call[d].op) # "idle" => Kind(call[d].op) \in others
    OBVIOUS
<1>3. /\ call[d].op = "password" => Kind(call[d].op) = "password"
      /\ call[d].op \in Ops \ {"idle"} => Kind(call[d].op) # "idle"
    BY DEF Kind, Ops
<1> HIDE DEF others
<1> QED BY <1>1, <1>2, <1>3

LEMMA AloneStarts ==
  ASSUME IInv, NEW c \in Clients, call[c].op = "idle", NEW r, r.op \in Ops,
         call'[c] = r, \A d \in Clients \ {c} : call'[d] = call[d],
         raced' = raced \cup Overlaps(c, Kind(r.op))
  PROVE  Alone'
<1> SUFFICES ASSUME NEW e \in Clients, NEW d \in Clients, e # d
             PROVE  /\ Kind(call'[e].op) = Kind(call'[d].op) =>
                         call'[e].op = "idle" \/ Kind(call'[e].op) \in raced'
                    /\ call'[e].op = "password" => call'[d].op = "idle" \/ "password" \in raced'
    BY DEF Alone
<1>1. CASE e # c /\ d # c
    BY <1>1 DEF IInv, Alone
<1>2. \A x \in Clients : call[x].op \in Ops
    BY DEF IInv, Calls, HasFields
<1>3. \A op \in Ops : (Kind(op) = "idle" <=> op = "idle") /\ (Kind(op) = "password" <=> op = "password")
    BY DEF Kind, Ops
<1>4. CASE e = c
    BY <1>2, <1>3, <1>4, OverlapFacts
<1>5. CASE d = c
    BY <1>2, <1>3, <1>5, OverlapFacts
<1> QED BY <1>1, <1>4, <1>5

LEMMA StartStep ==
  ASSUME IInv, NEW c \in Clients, call[c].op = "idle",
         UNCHANGED <<users, tokens, wallets, nonces, bearer>>, NEW r,
         call' = [call EXCEPT ![c] = r], requests' = requests + 1,
         (r.op = "idle" /\ raced' = raced)
           \/ raced' = raced \cup Overlaps(c, Kind(r.op)),
         HasFields(r), NamesRows(r),
         r.op = "register" /\ r.email # NoEmail => GetUserByEmail(r.email) = {},
         r.op = "refresh" => /\ ~Stale(r.token) /\ r.at = "revoke"
                             /\ r.user = tokens[r.token].user /\ r.hash = tokens[r.token].hash,
         r.op = "password" => r.at = "write",
         r.op = "unlink" =>
           \E w \in GetWalletsByUserID(wallets[r.wallet].user) : w # r.wallet,
         r.op \in {"verify", "link"} => ~nonces[r.nonce].used
  PROVE  IInv'
<1>1. /\ call'[c] = r /\ \A d \in Clients \ {c} : call'[d] = call[d]
      /\ DOMAIN call' = Clients /\ raced \subseteq raced'
    BY DEF IInv, Calls
<1>2. Rows'
    BY DEF IInv, Rows
<1>3. Calls'
  <2>1. ASSUME NEW d \in Clients PROVE HasFields(call'[d]) /\ NamesRows(call[d])'
    <3>1. CASE d = c
        BY <1>1, <3>1 DEF NamesRows
    <3>2. CASE d # c
        BY <1>1, <3>2 DEF IInv, Calls, NamesRows
    <3> QED BY <3>1, <3>2
  <2>2. \A d \in Clients : BearerOf(bearer[d])'
      BY DEF IInv, Calls, BearerOf
  <2> QED BY <1>1, <2>1, <2>2 DEF IInv, Calls, HasFields
<1>4. Alone'
  <2>1. r.op \in Ops
      BY DEF HasFields
  <2>2. CASE r.op = "idle" /\ raced' = raced
      BY <1>1, <2>2, AloneStays
  <2>3. CASE raced' = raced \cup Overlaps(c, Kind(r.op))
      BY <1>1, <2>1, <2>3, AloneStarts
  <2> QED BY <2>2, <2>3
<1>5. OneAccountPerEmail' /\ OldSessionsEnd' /\ KeepsAWallet'
  <2>1. OneAccountPerEmail'
      BY <1>1 DEF IInv, OneAccountPerEmail
  <2>2. OldSessionsEnd'
      BY <1>1 DEF IInv, OldSessionsEnd, Stale, At
  <2>3. KeepsAWallet'
      BY <1>1 DEF IInv, KeepsAWallet, GetWalletsByUserID
  <2> QED BY <2>1, <2>2, <2>3
<1>6. Registering'
    BY <1>1 DEF IInv, Registering, At, GetUserByEmail
<1>7. Carrying'
  <2> SUFFICES ASSUME "password" \notin raced', NEW d \in Clients, call'[d].op = "refresh"
               PROVE  call'[d].hash = users[call'[d].user].hash
      BY DEF Carrying
  <2>1. CASE d = c
    <3>1. raced' = raced \cup Overlaps(c, Kind(r.op)) /\ r.token \in DOMAIN tokens
        BY <1>1, <2>1 DEF NamesRows
    <3>2. \A x \in Clients : call[x].op # "password"
        BY <3>1, OverlapFacts
    <3>3. tokens[r.token].hash = users[tokens[r.token].user].hash
        BY <1>1, <2>1, <3>1, <3>2 DEF IInv, OldSessionsEnd, At
    <3> QED BY <1>1, <2>1, <3>3
  <2>2. CASE d # c
      BY <1>1, <2>2 DEF IInv, Carrying
  <2> QED BY <2>1, <2>2
<1>8. Unlinking'
    BY <1>1 DEF IInv, Unlinking, GetWalletsByUserID
<1>9. Exchanged'
    BY <1>1 DEF IInv, Exchanged, NamesRows, Stale
<1>10. Accepted'
    BY <1>1 DEF IInv, Accepted, NamesRows
<1> QED BY <1>2, <1>3, <1>4, <1>5, <1>6, <1>7, <1>8, <1>9, <1>10 DEF IInv

LEMMA RefusedStep ==
  ASSUME IInv, NEW c \in Clients, NEW x, AnswerAtOnce(c, x),
         UNCHANGED <<users, tokens, wallets, nonces, bearer>>
  PROVE  IInv'
<1>1. PICK r : r = [Idle EXCEPT !.reply = x]
    OBVIOUS
<1>2. r.op = "idle" /\ r.at = "" /\ DOMAIN r = {"op", "at", "reply"}
    BY <1>1 DEF Idle
<1>3. HasFields(r) /\ NamesRows(r)
    BY <1>2 DEF HasFields, NamesRows, Ops
<1>4. call[c].op = "idle" /\ call' = [call EXCEPT ![c] = r] /\ requests' = requests + 1 /\ raced' = raced
    BY <1>1 DEF AnswerAtOnce, Admit
<1> QED BY <1>2, <1>3, <1>4, StartStep

LEMMA RegisterCheckStep ==
  ASSUME IInv, NEW c \in Clients, NEW e, NEW p, RegisterCheck(c, e, p), UNCHANGED walletVars
  PROVE  IInv'
<1> DEFINE r == [op |-> "register", at |-> "create", email |-> e, password |-> p,
                 user |-> NoUser, reply |-> NoResponse]
<1>1. UNCHANGED <<users, tokens, wallets, nonces, bearer>>
    BY DEF RegisterCheck, walletVars
<1>2. (\E code : Refuse(c, code)) \/ (~ExistsByEmail(e) /\ Begin(c, r))
    BY DEF RegisterCheck
<1>3. CASE \E code : Refuse(c, code)
    BY <1>1, <1>3, RefusedStep DEF Refuse
<1>4. CASE ~ExistsByEmail(e) /\ Begin(c, r)
  <2>1. HasFields(r) /\ NamesRows(r) /\ r.op = "register" /\ r.email = e
      BY DEF HasFields, NamesRows, Ops
  <2>2. GetUserByEmail(e) = {}
      BY <1>4 DEF ExistsByEmail
  <2>3. /\ call[c].op = "idle" /\ call' = [call EXCEPT ![c] = r] /\ requests' = requests + 1
        /\ raced' = raced \cup Overlaps(c, Kind(r.op))
      BY <1>4 DEF Begin, Admit
  <2> HIDE DEF r
  <2> QED BY <1>1, <2>1, <2>2, <2>3, StartStep
<1> QED BY <1>2, <1>3, <1>4

LEMMA LoginCheckStep ==
  ASSUME IInv, NEW c \in Clients, NEW e, NEW p, LoginCheck(c, e, p), UNCHANGED walletVars
  PROVE  IInv'
<1>1. UNCHANGED <<users, tokens, wallets, nonces, bearer>>
    BY DEF LoginCheck, walletVars
<1>2. \/ \E code : Refuse(c, code)
      \/ \E u \in DOMAIN users :
           Begin(c, [op |-> "login", at |-> "token", user |-> u, reply |-> NoResponse])
    BY DEF LoginCheck, GetUserByEmail
<1>3. CASE \E code : Refuse(c, code)
    BY <1>1, <1>3, RefusedStep DEF Refuse
<1>4. ASSUME NEW u \in DOMAIN users,
             Begin(c, [op |-> "login", at |-> "token", user |-> u, reply |-> NoResponse])
      PROVE  IInv'
  <2> DEFINE r == [op |-> "login", at |-> "token", user |-> u, reply |-> NoResponse]
  <2>1. HasFields(r) /\ NamesRows(r) /\ r.op = "login"
      BY DEF HasFields, NamesRows, Ops
  <2>2. /\ call[c].op = "idle" /\ call' = [call EXCEPT ![c] = r] /\ requests' = requests + 1
        /\ raced' = raced \cup Overlaps(c, Kind(r.op))
      BY <1>4 DEF Begin, Admit
  <2> HIDE DEF r
  <2> QED BY <1>1, <2>1, <2>2, StartStep
<1> QED BY <1>2, <1>3, <1>4

LEMMA RefreshCheckStep ==
  ASSUME IInv, NEW c \in Clients, NEW t, RefreshCheck(c, t), UNCHANGED walletVars
  PROVE  IInv'
<1> DEFINE r == [op |-> "refresh", at |-> "revoke", token |-> t, user |-> tokens[t].user,
                 hash |-> tokens[t].hash, reply |-> NoResponse]
<1>1. UNCHANGED <<users, tokens, wallets, nonces, bearer>>
    BY DEF RefreshCheck, walletVars
<1>2. \/ \E code : Refuse(c, code)
      \/ t \in DOMAIN tokens /\ ~tokens[t].revoked /\ ~tokens[t].expired /\ Begin(c, r)
    BY DEF RefreshCheck, GetRefreshTokenByHash
<1>3. CASE \E code : Refuse(c, code)
    BY <1>1, <1>3, RefusedStep DEF Refuse
<1>4. CASE t \in DOMAIN tokens /\ ~tokens[t].revoked /\ ~tokens[t].expired /\ Begin(c, r)
  <2>1. tokens[t].user \in DOMAIN users
      BY <1>4 DEF IInv, Rows
  <2>2. /\ HasFields(r) /\ NamesRows(r) /\ r.op = "refresh" /\ r.at = "revoke" /\ r.token = t
        /\ r.user = tokens[r.token].user /\ r.hash = tokens[r.token].hash
      BY <1>4, <2>1 DEF HasFields, NamesRows, Ops
  <2>3. /\ call[c].op = "idle" /\ call' = [call EXCEPT ![c] = r] /\ requests' = requests + 1
        /\ raced' = raced \cup Overlaps(c, Kind(r.op))
      BY <1>4 DEF Begin, Admit
  <2>4. ~Stale(r.token)
      BY <1>4, <2>2 DEF Stale
  <2> HIDE DEF r
  <2> QED BY <1>1, <2>2, <2>3, <2>4, StartStep
<1> QED BY <1>2, <1>3, <1>4

LEMMA ChangePasswordCheckStep ==
  ASSUME IInv, NEW c \in Clients, NEW old, NEW new, ChangePasswordCheck(c, old, new),
         UNCHANGED walletVars
  PROVE  IInv'
<1> DEFINE r == [op |-> "password", at |-> "write", user |-> bearer[c].user,
                 password |-> new, reply |-> NoResponse]
<1>1. UNCHANGED <<users, tokens, wallets, nonces, bearer>>
    BY DEF ChangePasswordCheck, JWT, walletVars
<1>2. \/ \E code : Refuse(c, code)
      \/ bearer[c].user \in DOMAIN users /\ Begin(c, r)
    BY DEF ChangePasswordCheck, JWT, GetUserByID
<1>3. CASE \E code : Refuse(c, code)
    BY <1>1, <1>3, RefusedStep DEF Refuse
<1>4. CASE bearer[c].user \in DOMAIN users /\ Begin(c, r)
  <2>1. HasFields(r) /\ NamesRows(r) /\ r.op = "password" /\ r.at = "write"
      BY <1>4 DEF HasFields, NamesRows, Ops
  <2>2. /\ call[c].op = "idle" /\ call' = [call EXCEPT ![c] = r] /\ requests' = requests + 1
        /\ raced' = raced \cup Overlaps(c, Kind(r.op))
      BY <1>4 DEF Begin, Admit
  <2> HIDE DEF r
  <2> QED BY <1>1, <2>1, <2>2, StartStep
<1> QED BY <1>2, <1>3, <1>4

\* A signed message that is accepted names a nonce nobody has used.
LEMMA CheckMessageStep ==
  ASSUME IInv, NEW c \in Clients, NEW op \in {"verify", "link"}, NEW n, NEW a, NEW u,
         CheckMessage(c, op, n, a, u), op = "link" => u \in DOMAIN users,
         UNCHANGED <<users, tokens, wallets, nonces, bearer>>
  PROVE  IInv'
<1> DEFINE r == [op |-> op, at |-> "mark", nonce |-> n, address |-> a, user |-> u,
                 reply |-> NoResponse]
<1>1. \/ \E code : Refuse(c, code)
      \/ GetValidNonce(n, a) /\ Begin(c, r)
    BY DEF CheckMessage
<1>2. CASE \E code : Refuse(c, code)
    BY <1>2, RefusedStep DEF Refuse
<1>3. CASE GetValidNonce(n, a) /\ Begin(c, r)
  <2>1. n \in DOMAIN nonces /\ ~nonces[n].used
      BY <1>3 DEF GetValidNonce
  <2>2. HasFields(r) /\ NamesRows(r) /\ r.op \in {"verify", "link"} /\ r.nonce = n
      BY <2>1 DEF HasFields, NamesRows, Ops
  <2>3. /\ call[c].op = "idle" /\ call' = [call EXCEPT ![c] = r] /\ requests' = requests + 1
        /\ raced' = raced \cup Overlaps(c, Kind(r.op))
      BY <1>3 DEF Begin, Admit
  <2> HIDE DEF r
  <2> QED BY <2>1, <2>2, <2>3, StartStep
<1> QED BY <1>1, <1>2, <1>3

\* A wallet that may be unlinked is not the only one of its account.
LEMMA UnlinkCheckStep ==
  ASSUME IInv, NEW c \in Clients, NEW w, UnlinkCheck(c, w)
  PROVE  IInv'
<1> DEFINE r == [op |-> "unlink", at |-> "delete", wallet |-> w, reply |-> NoResponse]
           mine == GetWalletsByUserID(bearer[c].user)
<1>1. UNCHANGED <<users, tokens, wallets, nonces, bearer>>
    BY DEF UnlinkCheck, JWT, walletVars
<1>2. \/ \E code : Refuse(c, code)
      \/ w \in mine /\ ~(Cardinality(mine) <= 1) /\ Begin(c, r)
    BY DEF UnlinkCheck, JWT, IsWalletOwnedBy
<1>3. CASE \E code : Refuse(c, code)
    BY <1>1, <1>3, RefusedStep DEF Refuse
<1>4. CASE w \in mine /\ ~(Cardinality(mine) <= 1) /\ Begin(c, r)
  <2>1. mine # {w}
    <3>1. Cardinality({w}) = 1
        BY FS_Singleton
    <3> QED BY <1>4, <3>1
  <2>2. w \in DOMAIN wallets /\ wallets[w].user = bearer[c].user
      BY <1>4 DEF GetWalletsByUserID
  <2>3. /\ HasFields(r) /\ NamesRows(r) /\ r.op = "unlink" /\ r.wallet = w
      BY <2>2 DEF HasFields, NamesRows, Ops
  <2>4. \E v \in GetWalletsByUserID(wallets[r.wallet].user) : v # r.wallet
      BY <1>4, <2>1, <2>2, <2>3
  <2>5. /\ call[c].op = "idle" /\ call' = [call EXCEPT ![c] = r] /\ requests' = requests + 1
        /\ raced' = raced \cup Overlaps(c, Kind(r.op))
      BY <1>4 DEF Begin, Admit
  <2> HIDE DEF r
  <2> QED BY <1>1, <2>3, <2>4, <2>5, StartStep
<1> QED BY <1>2, <1>3, <1>4

\* Requests of one statement that change no row.
LEMMA ReadStep ==
  ASSUME IInv, NEW c \in Clients,
         ((Me(c) \/ AdminRoute(c)) /\ UNCHANGED walletVars) \/ ListWallets(c)
  PROVE  IInv'
<1>1. UNCHANGED <<users, tokens, wallets, nonces, bearer>> /\ \E x : AnswerAtOnce(c, x)
    BY DEF Me, AdminRoute, ListWallets, JWT, Refuse, walletVars
<1> QED BY <1>1, RefusedStep

-----------------------------------------------------------------------------
(* The later statements of a request.                                      *)

LEMMA Settled ==
  ASSUME IInv, NEW c \in Clients, NEW x, call' = [call EXCEPT ![c] = [Idle EXCEPT !.reply = x]]
  PROVE  /\ DOMAIN call' = Clients /\ \A d \in Clients \ {c} : call'[d] = call[d]
         /\ call'[c].op = "idle" /\ call'[c].at = "" /\ (HasFields(call[c]) /\ NamesRows(call[c]))'
<1>1. /\ DOMAIN call' = Clients /\ \A d \in Clients \ {c} : call'[d] = call[d]
      /\ call'[c] = [Idle EXCEPT !.reply = x]
    BY DEF IInv, Calls
<1>2. call'[c].op = "idle" /\ call'[c].at = "" /\ DOMAIN call'[c] = {"op", "at", "reply"}
    BY <1>1 DEF Idle
<1>3. (HasFields(call[c]) /\ NamesRows(call[c]))'
    BY <1>2 DEF HasFields, NamesRows, Ops
<1> QED BY <1>1, <1>2, <1>3

LEMMA Moved ==
  ASSUME IInv, NEW c \in Clients, NEW p, call' = [call EXCEPT ![c].at = p]
  PROVE  /\ DOMAIN call' = Clients /\ \A d \in Clients \ {c} : call'[d] = call[d]
         /\ call'[c].op = call[c].op /\ call'[c].at = p
         /\ \A f \in {"user", "hash", "token", "nonce", "wallet", "email"} :
              f \in DOMAIN call[c] => call'[c][f] = call[c][f]
         /\ HasFields(call[c])'
<1>1. /\ DOMAIN call' = Clients /\ \A d \in Clients \ {c} : call'[d] = call[d]
      /\ call'[c] = [call[c] EXCEPT !.at = p] /\ HasFields(call[c])
    BY DEF IInv, Calls
<1>2. call'[c].op = call[c].op /\ call'[c].at = p /\ DOMAIN call'[c] = DOMAIN call[c]
    BY <1>1 DEF HasFields
<1>3. HasFields(call[c])'
    BY <1>1, <1>2 DEF HasFields
<1> QED BY <1>1, <1>2, <1>3

\* The request gets the account it found or made, and goes on to its token.
LEMMA GotAccount ==
  ASSUME IInv, NEW c \in Clients, call[c].op \in {"register", "verify"}, NEW p, NEW u,
         call' = [call EXCEPT ![c].at = p, ![c].user = u]
  PROVE  /\ DOMAIN call' = Clients /\ \A d \in Clients \ {c} : call'[d] = call[d]
         /\ call'[c].op = call[c].op /\ call'[c].at = p /\ call'[c].user = u
         /\ call[c].op = "verify" => call'[c].nonce = call[c].nonce
         /\ HasFields(call[c])'
<1>1. /\ DOMAIN call' = Clients /\ \A d \in Clients \ {c} : call'[d] = call[d]
      /\ call'[c] = [call[c] EXCEPT !.at = p, !.user = u] /\ HasFields(call[c])
    BY DEF IInv, Calls
<1>2. /\ call'[c].op = call[c].op /\ call'[c].at = p /\ DOMAIN call'[c] = DOMAIN call[c]
      /\ call'[c].user = u /\ call[c].op = "verify" => call'[c].nonce = call[c].nonce
    BY <1>1 DEF HasFields
<1>3. HasFields(call[c])'
    BY <1>1, <1>2 DEF HasFields
<1> QED BY <1>1, <1>2, <1>3

LEMMA RegisterCreateStep ==
  ASSUME IInv, NEW c \in Clients, RegisterCreate(c), UNCHANGED walletVars
  PROVE  IInv'
<1> DEFINE row == User(call[c].email, call[c].password, "user", "email")
<1>1. PICK i : i = FreshUser /\ i \notin DOMAIN users
    BY FreshIds DEF RegisterCreate
<1>2. /\ users' = Insert(users, i, row) /\ call' = [call EXCEPT ![c].at = "token", ![c].user = i]
      /\ call[c].op = "register" /\ call[c].at = "create"
      /\ UNCHANGED <<tokens, wallets, nonces, bearer, raced, requests>>
    BY <1>1 DEF RegisterCreate, CreateUser, At, walletVars
<1>3. /\ DOMAIN users' = DOMAIN users \cup {i} /\ users'[i] = row
      /\ \A u \in DOMAIN users : users'[u] = users[u]
    BY <1>1, <1>2 DEF Insert
<1>4. /\ row.email = call[c].email /\ row.method = "email"
      /\ DOMAIN row = {"email", "hash", "role", "status", "method"}
    BY DEF User
<1> HIDE DEF row
<1>5. /\ DOMAIN call' = Clients /\ \A d \in Clients \ {c} : call'[d] = call[d]
      /\ call'[c].op = "register" /\ call'[c].at = "token" /\ call'[c].user = i
      /\ HasFields(call[c])'
    BY <1>2, GotAccount
<1>6. Rows'
    BY <1>2, <1>3, <1>4 DEF IInv, Rows
<1>7. Calls'
  <2>1. NamesRows(call[c])'
      BY <1>3, <1>5 DEF NamesRows
  <2>2. DOMAIN bearer = Clients
      BY DEF IInv, Calls
  <2> QED BY <1>2, <1>3, <1>5, <2>1, <2>2, CallsStay
<1>8. Alone'
    BY <1>2, <1>5, AloneStays
<1>9. OneAccountPerEmail' /\ Registering'
  <2>1. \A d \in Clients : At(d, "register", "create")' => call'[d] = call[d]
      BY <1>5 DEF At
  <2>2. users'[i].email # NoEmail /\ "register" \notin raced =>
           /\ GetUserByEmail(users'[i].email) = {}
           /\ \A d \in Clients : ~At(d, "register", "create")'
      BY <1>2, <1>3, <1>4, <1>5 DEF IInv, Registering, Alone, At, Kind
  <2> QED BY <1>1, <1>2, <1>3, <2>1, <2>2, EmailsGrow
<1>10. OldSessionsEnd' /\ Carrying'
    BY <1>2, <1>3, <1>5, SessionsStay DEF At, Stale
<1>11. KeepsAWallet' /\ Unlinking'
    BY <1>2, <1>3, <1>4, <1>5, WalletsStay
<1>12. Exchanged' /\ Accepted'
    BY <1>2, <1>5, ExchangesStay, NoncesStay
<1> QED BY <1>6, <1>7, <1>8, <1>9, <1>10, <1>11, <1>12 DEF IInv

\* A new token carries the hash of its account.
LEMMA AuthResponseStep ==
  ASSUME IInv, NEW c \in Clients, call[c].op \in {"register", "login", "verify"}, NEW x,
         GenerateAuthResponse(c, x), UNCHANGED walletVars
  PROVE  IInv'
<1>1. PICK y : call' = [call EXCEPT ![c] = [Idle EXCEPT !.reply = y]]
    BY DEF GenerateAuthResponse, Answer
<1>2. call[c].at = "token" /\ call[c].user \in DOMAIN users
    BY DEF GenerateAuthResponse, At, IInv, Calls, NamesRows
<1>3. UNCHANGED <<users, wallets, nonces, raced, requests>>
    BY DEF GenerateAuthResponse, Answer, walletVars
<1>4. /\ DOMAIN call' = Clients /\ \A d \in Clients \ {c} : call'[d] = call[d]
      /\ call'[c].op = "idle" /\ call'[c].at = "" /\ (HasFields(call[c]) /\ NamesRows(call[c]))'
    BY <1>1, Settled
<1>5. /\ DOMAIN tokens \subseteq DOMAIN tokens' /\ \A t \in DOMAIN tokens : tokens'[t] = tokens[t]
      /\ \A t \in DOMAIN tokens' \ DOMAIN tokens :
           /\ tokens'[t].user = call[c].user /\ tokens'[t].hash = users[call[c].user].hash
           /\ tokens'[t].exchanges = 0
           /\ DOMAIN tokens'[t] = {"user", "revoked", "expired", "deleted", "exchanges", "hash"}
  <2>1. CASE UNCHANGED tokens
      BY <2>1
  <2>2. CASE TokenIds \ DOMAIN tokens # {} /\ CreateRefreshToken(call[c].user)
    <3>1. PICK i : i = FreshToken /\ i \notin DOMAIN tokens
        BY <2>2, FreshIds
    <3> DEFINE row == RefreshTokenOf(call[c].user, users[call[c].user].hash)
    <3>2. tokens' = Insert(tokens, i, row)
        BY <2>2, <3>1 DEF CreateRefreshToken
    <3>3. /\ row.user = call[c].user /\ row.hash = users[call[c].user].hash /\ row.exchanges = 0
          /\ DOMAIN row = {"user", "revoked", "expired", "deleted", "exchanges", "hash"}
        BY DEF RefreshTokenOf
    <3> HIDE DEF row
    <3>4. /\ DOMAIN tokens' = DOMAIN tokens \cup {i} /\ tokens'[i] = row
          /\ \A t \in DOMAIN tokens : tokens'[t] = tokens[t]
        BY <3>1, <3>2 DEF Insert
    <3> QED BY <3>3, <3>4
  <2> QED BY <2>1, <2>2 DEF GenerateAuthResponse
<1>6. Rows'
    BY <1>2, <1>3, <1>5 DEF IInv, Rows
<1>7. Calls'
  <2>1. call[c].op # "idle"
      OBVIOUS
  <2>2. /\ DOMAIN bearer' = Clients
        /\ \A d \in Clients : bearer'[d] = bearer[d] \/ BearerOf(bearer[d])'
    <3>1. CASE UNCHANGED bearer
        BY <3>1 DEF IInv, Calls
    <3>2. CASE GenerateToken(c, call[c].user)
        BY <1>2, <1>3, <3>2, TokenGiven
    <3> QED BY <3>1, <3>2 DEF GenerateAuthResponse
  <2> QED BY <1>3, <1>4, <1>5, <2>1, <2>2, CallsStay
<1>8. Alone'
    BY <1>3, <1>4, AloneStays
<1>9. OneAccountPerEmail' /\ Registering'
    BY <1>3, <1>4, EmailsStay DEF At
<1>10. OldSessionsEnd' /\ Carrying'
    BY <1>2, <1>3, <1>4, <1>5, SessionsStay DEF At, Stale
<1>11. KeepsAWallet' /\ Unlinking'
    BY <1>3, <1>4, WalletsStay
<1>12. Exchanged' /\ Accepted'
    BY <1>3, <1>4, <1>5, ExchangesStay, NoncesStay
<1> QED BY <1>6, <1>7, <1>8, <1>9, <1>10, <1>11, <1>12 DEF IInv

\* The token of a refresh is revoked before the next one is issued.
LEMMA RefreshRevokeStep ==
  ASSUME IInv, NEW c \in Clients, RefreshRevoke(c), UNCHANGED walletVars
  PROVE  IInv'
<1>1. /\ call[c].op = "refresh" /\ call[c].at = "revoke" /\ raced \subseteq raced'
      /\ call' = [call EXCEPT ![c].at = "token"]
      /\ UNCHANGED <<users, wallets, nonces, bearer, requests>>
      /\ \/ tokens' = [tokens EXCEPT ![call[c].token].revoked = TRUE]
         \/ UNCHANGED tokens /\ "refresh" \in raced'
    BY DEF RefreshRevoke, RevokeRefreshToken, Goto, At, walletVars
<1>2. /\ HasFields(call[c]) /\ NamesRows(call[c])
      /\ {"user", "hash", "token"} \subseteq DOMAIN call[c]
    BY <1>1 DEF IInv, Calls, HasFields
<1>3. /\ DOMAIN call' = Clients /\ \A d \in Clients \ {c} : call'[d] = call[d]
      /\ call'[c].op = "refresh" /\ call'[c].at = "token" /\ HasFields(call[c])'
      /\ call'[c].user = call[c].user /\ call'[c].hash = call[c].hash /\ call'[c].token = call[c].token
    BY <1>1, <1>2, Moved
<1>4. /\ DOMAIN tokens' = DOMAIN tokens
      /\ \A t \in DOMAIN tokens :
           /\ tokens'[t].user = tokens[t].user /\ tokens'[t].hash = tokens[t].hash
           /\ tokens'[t].exchanges = tokens[t].exchanges
           /\ tokens[t].revoked => tokens'[t].revoked
           /\ tokens'[t].expired = tokens[t].expired
           /\ DOMAIN tokens'[t] = DOMAIN tokens[t]
      /\ "refresh" \notin raced' => tokens'[call[c].token].revoked
    BY <1>1, <1>2 DEF IInv, Rows, NamesRows
<1>5. Rows'
    BY <1>1, <1>4 DEF IInv, Rows
<1>6. Calls'
  <2>1. NamesRows(call[c])'
      BY <1>1, <1>2, <1>3, <1>4 DEF NamesRows
  <2>2. DOMAIN bearer = Clients
      BY DEF IInv, Calls
  <2> QED BY <1>1, <1>3, <1>4, <2>1, <2>2, CallsStay
<1>7. Alone'
    BY <1>1, <1>3, AloneStays
<1>8. OneAccountPerEmail' /\ Registering'
    BY <1>1, <1>3, EmailsStay DEF At
<1>9. OldSessionsEnd' /\ Carrying'
  <2>1. \A t \in DOMAIN tokens : Stale(t) => Stale(t)'
      BY <1>4 DEF Stale
  <2>2. \A d \in Clients : At(d, "password", "revoke") =>
           At(d, "password", "revoke")' /\ call'[d].user = call[d].user
      BY <1>1, <1>3 DEF At
  <2> QED BY <1>1, <1>3, <1>4, <2>1, <2>2, SessionsStay
<1>10. KeepsAWallet' /\ Unlinking'
    BY <1>1, <1>3, WalletsStay
<1>11. Exchanged'
  <2> SUFFICES ASSUME "refresh" \notin raced'
               PROVE  /\ \A t \in DOMAIN tokens' :
                           tokens'[t].exchanges = 0 \/ (tokens'[t].exchanges = 1 /\ tokens'[t].revoked)
                      /\ \A d \in Clients : call'[d].op = "refresh" =>
                           /\ tokens'[call'[d].token].exchanges = 0
                           /\ call'[d].at = "token" => tokens'[call'[d].token].revoked
      BY DEF Exchanged
  <2>1. \A t \in DOMAIN tokens' :
           tokens'[t].exchanges = 0 \/ (tokens'[t].exchanges = 1 /\ tokens'[t].revoked)
      BY <1>1, <1>4 DEF IInv, Exchanged
  <2>2. ASSUME NEW d \in Clients, call'[d].op = "refresh"
        PROVE  /\ tokens'[call'[d].token].exchanges = 0
               /\ call'[d].at = "token" => tokens'[call'[d].token].revoked
    <3>1. call[d].op = "refresh" /\ call'[d].token = call[d].token /\ call[d].token \in DOMAIN tokens
        BY <1>1, <1>3, <2>2 DEF IInv, Calls, NamesRows
    <3>2. tokens[call[d].token].exchanges = 0 /\ (call[d].at = "token" => tokens[call[d].token].revoked)
        BY <1>1, <3>1 DEF IInv, Exchanged
    <3> QED BY <1>3, <1>4, <3>1, <3>2
  <2> QED BY <2>1, <2>2
<1>12. Accepted'
    BY <1>1, <1>3, NoncesStay
<1> QED BY <1>5, <1>6, <1>7, <1>8, <1>9, <1>10, <1>11, <1>12 DEF IInv

\* A token is exchanged by the one refresh that presented it.
LEMMA RefreshIssueStep ==
  ASSUME IInv, NEW c \in Clients, RefreshIssue(c), UNCHANGED walletVars
  PROVE  IInv'
<1> DEFINE old == call[c].token
           row == RefreshTokenOf(call[c].user, call[c].hash)
<1>1. /\ call[c].op = "refresh" /\ call[c].at = "token"
      /\ old \in DOMAIN tokens /\ call[c].user \in DOMAIN users
      /\ UNCHANGED <<users, wallets, nonces, raced, requests>>
    BY DEF RefreshIssue, At, Answer, walletVars, IInv, Calls, NamesRows
<1>2. PICK i : i = FreshToken /\ i \notin DOMAIN tokens
    BY FreshIds DEF RefreshIssue
<1>3. tokens' = Insert([tokens EXCEPT ![old].exchanges = @ + 1], i, row)
    BY <1>2 DEF RefreshIssue
<1>4. /\ row.user = call[c].user /\ row.hash = call[c].hash /\ row.exchanges = 0
      /\ DOMAIN row = {"user", "revoked", "expired", "deleted", "exchanges", "hash"}
    BY DEF RefreshTokenOf
<1> HIDE DEF row
<1>5. /\ DOMAIN tokens' = DOMAIN tokens \cup {i} /\ tokens'[i] = row
      /\ \A t \in DOMAIN tokens \ {old} : tokens'[t] = tokens[t]
      /\ tokens'[old] = [tokens[old] EXCEPT !.exchanges = @ + 1]
    BY <1>1, <1>2, <1>3 DEF Insert
<1>6. /\ \A t \in DOMAIN tokens : /\ tokens'[t].user = tokens[t].user /\ tokens'[t].hash = tokens[t].hash
                                  /\ tokens'[t].revoked = tokens[t].revoked
                                  /\ tokens'[t].expired = tokens[t].expired
                                  /\ DOMAIN tokens'[t] = DOMAIN tokens[t]
      /\ tokens'[old].exchanges = tokens[old].exchanges + 1
    BY <1>1, <1>5 DEF IInv, Rows
<1>7. PICK y : call' = [call EXCEPT ![c] = [Idle EXCEPT !.reply = y]]
    BY DEF RefreshIssue, Answer
<1>8. /\ DOMAIN call' = Clients /\ \A d \in Clients \ {c} : call'[d] = call[d]
      /\ call'[c].op = "idle" /\ call'[c].at = "" /\ (HasFields(call[c]) /\ NamesRows(call[c]))'
    BY <1>7, Settled
<1>9. Rows'
    BY <1>1, <1>4, <1>5, <1>6 DEF IInv, Rows
<1>10. Calls'
  <2>1. GenerateToken(c, call[c].user)
      BY DEF RefreshIssue
  <2>2. /\ DOMAIN bearer' = Clients
        /\ \A d \in Clients : bearer'[d] = bearer[d] \/ BearerOf(bearer[d])'
      BY <1>1, <2>1, TokenGiven
  <2> QED BY <1>1, <1>5, <1>8, <2>2, CallsStay
<1>11. Alone'
    BY <1>1, <1>8, AloneStays
<1>12. OneAccountPerEmail' /\ Registering'
    BY <1>1, <1>8, EmailsStay DEF At
<1>13. OldSessionsEnd' /\ Carrying'
  <2>1. \A t \in DOMAIN tokens : Stale(t) => Stale(t)'
      BY <1>6 DEF Stale
  <2>2. \A d \in Clients : At(d, "password", "revoke") =>
           At(d, "password", "revoke")' /\ call'[d].user = call[d].user
      BY <1>1, <1>8 DEF At
  <2>3. \A t \in DOMAIN tokens' \ DOMAIN tokens : "password" \notin raced =>
           /\ tokens'[t].user \in DOMAIN users
           /\ tokens'[t].hash = users[tokens'[t].user].hash
      BY <1>1, <1>4, <1>5 DEF IInv, Carrying
  <2> QED BY <1>1, <1>6, <1>8, <2>1, <2>2, <2>3, SessionsStay
<1>14. KeepsAWallet' /\ Unlinking'
    BY <1>1, <1>8, WalletsStay
<1>15. Exchanged'
  <2> SUFFICES ASSUME "refresh" \notin raced
               PROVE  /\ \A t \in DOMAIN tokens' :
                           tokens'[t].exchanges = 0 \/ (tokens'[t].exchanges = 1 /\ tokens'[t].revoked)
                      /\ \A d \in Clients : call'[d].op # "refresh"
      BY <1>1 DEF Exchanged
  <2>1. tokens[old].exchanges = 0 /\ tokens[old].revoked
      BY <1>1 DEF IInv, Exchanged
  <2>2. \A t \in DOMAIN tokens' :
           tokens'[t].exchanges = 0 \/ (tokens'[t].exchanges = 1 /\ tokens'[t].revoked)
    <3> SUFFICES ASSUME NEW t \in DOMAIN tokens'
                 PROVE  tokens'[t].exchanges = 0 \/ (tokens'[t].exchanges = 1 /\ tokens'[t].revoked)
        OBVIOUS
    <3>1. CASE t = i
        BY <1>4, <1>5, <3>1
    <3>2. CASE t = old
        BY <1>1, <1>6, <2>1, <3>2
    <3>3. CASE t \in DOMAIN tokens \ {old}
        BY <1>1, <1>5, <3>3 DEF IInv, Exchanged
    <3> QED BY <1>5, <3>1, <3>2, <3>3
  <2>3. \A d \in Clients : call'[d].op # "refresh"
      BY <1>1, <1>8 DEF IInv, Alone, Kind
  <2> QED BY <2>2, <2>3
<1>16. Accepted'
    BY <1>1, <1>8, NoncesStay
<1> QED BY <1>9, <1>10, <1>11, <1>12, <1>13, <1>14, <1>15, <1>16 DEF IInv

LEMMA RevokeAllFacts ==
  ASSUME IInv, NEW u, RevokeAllUserRefreshTokens(u)
  PROVE  /\ DOMAIN tokens' = DOMAIN tokens
         /\ \A t \in DOMAIN tokens :
              /\ tokens'[t].user = tokens[t].user /\ tokens'[t].hash = tokens[t].hash
              /\ tokens'[t].exchanges = tokens[t].exchanges
              /\ tokens[t].revoked => tokens'[t].revoked
              /\ tokens[t].user = u => tokens'[t].revoked
              /\ tokens'[t].expired = tokens[t].expired
              /\ DOMAIN tokens'[t] = DOMAIN tokens[t]
BY DEF RevokeAllUserRefreshTokens, IInv, Rows

\* Logout ends every session of the account.
LEMMA LogoutStep ==
  ASSUME IInv, NEW c \in Clients, Logout(c), UNCHANGED walletVars
  PROVE  IInv'
<1>1. CASE \E code : Refuse(c, code) /\ UNCHANGED <<users, tokens, bearer>>
    BY <1>1, RefusedStep DEF Refuse, walletVars
<1>2. CASE RevokeAllUserRefreshTokens(bearer[c].user) /\ AnswerAtOnce(c, RespondNoContent) /\ UNCHANGED <<users, bearer>>
  <2>1. /\ DOMAIN call' = Clients /\ \A d \in Clients \ {c} : call'[d] = call[d]
        /\ call'[c].op = "idle" /\ call'[c].at = "" /\ (HasFields(call[c]) /\ NamesRows(call[c]))'
      BY <1>2, Settled DEF AnswerAtOnce
  <2>2. call[c].op = "idle" /\ requests' = requests + 1 /\ UNCHANGED <<users, wallets, nonces, raced>>
      BY <1>2 DEF AnswerAtOnce, Admit, walletVars
  <2>3. /\ DOMAIN tokens' = DOMAIN tokens
        /\ \A t \in DOMAIN tokens :
             /\ tokens'[t].user = tokens[t].user /\ tokens'[t].hash = tokens[t].hash
             /\ tokens'[t].exchanges = tokens[t].exchanges
             /\ tokens[t].revoked => tokens'[t].revoked
             /\ tokens'[t].expired = tokens[t].expired
             /\ DOMAIN tokens'[t] = DOMAIN tokens[t]
      BY <1>2, RevokeAllFacts
  <2>4. Rows'
      BY <2>2, <2>3 DEF IInv, Rows
  <2>5. Calls'
    <3>1. \A d \in Clients \ {c} : (HasFields(call[d]) /\ NamesRows(call[d]))'
        BY <2>1, <2>2, <2>3 DEF IInv, Calls, HasFields, NamesRows
    <3>2. \A d \in Clients : HasFields(call[d])' /\ NamesRows(call[d])'
        BY <2>1, <3>1
    <3>3. requests' \in Nat /\ requests' # 0
        BY <2>2 DEF IInv, Calls
    <3>4. DOMAIN bearer' = Clients /\ \A d \in Clients : BearerOf(bearer[d])'
        BY <1>2, <2>2 DEF IInv, Calls, BearerOf
    <3> QED BY <2>1, <3>2, <3>3, <3>4 DEF Calls
  <2>6. Alone'
      BY <2>1, <2>2, AloneStays
  <2>7. OneAccountPerEmail' /\ Registering'
      BY <2>1, <2>2, EmailsStay DEF At
  <2>8. OldSessionsEnd' /\ Carrying'
    <3>1. \A t \in DOMAIN tokens : Stale(t) => Stale(t)'
        BY <2>3 DEF Stale
    <3>2. \A d \in Clients : At(d, "password", "revoke") =>
             At(d, "password", "revoke")' /\ call'[d].user = call[d].user
        BY <2>1, <2>2 DEF At
    <3> QED BY <2>1, <2>2, <2>3, <3>1, <3>2, SessionsStay
  <2>9. KeepsAWallet' /\ Unlinking'
      BY <2>1, <2>2, WalletsStay
  <2>10. Exchanged' /\ Accepted'
      BY <2>1, <2>2, <2>3, ExchangesStay, NoncesStay
  <2> QED BY <2>4, <2>5, <2>6, <2>7, <2>8, <2>9, <2>10 DEF IInv
<1> QED BY <1>1, <1>2 DEF Logout, JWT

\* A request in flight is answered, or goes on, and no row changes.
LEMMA QuietStep ==
  ASSUME IInv, NEW c \in Clients, call[c].op # "idle", ~At(c, "password", "revoke"),
         DOMAIN call' = Clients, \A d \in Clients \ {c} : call'[d] = call[d],
         \/ call'[c].op = "idle"
         \/ call'[c].op = call[c].op /\ call[c].op \in {"verify", "link"} /\ call'[c].at # "mark",
         (HasFields(call[c]) /\ NamesRows(call[c]))',
         raced \subseteq raced', UNCHANGED <<requests, users, tokens, wallets, nonces, bearer>>
  PROVE  IInv'
<1>1. Rows'
    BY DEF IInv, Rows
<1>2. Calls'
    BY CallsStay DEF IInv, Calls
<1>3. Alone'
    BY AloneStays
<1>4. OneAccountPerEmail' /\ Registering'
    BY EmailsStay DEF At
<1>5. OldSessionsEnd' /\ Carrying'
  <2>1. \A d \in Clients : At(d, "password", "revoke") =>
           At(d, "password", "revoke")' /\ call'[d].user = call[d].user
      BY DEF At
  <2>2. \A d \in Clients : call'[d].op = "refresh" => call'[d] = call[d]
      OBVIOUS
  <2> QED BY <2>1, <2>2, SessionsStay DEF Stale
<1>6. KeepsAWallet' /\ Unlinking'
    BY WalletsStay
<1>7. Exchanged' /\ Accepted'
    BY ExchangesStay, NoncesStay
<1> QED BY <1>1, <1>2, <1>3, <1>4, <1>5, <1>6, <1>7 DEF IInv

LEMMA AnsweredStep ==
  ASSUME IInv, NEW c \in Clients, call[c].op # "idle", ~At(c, "password", "revoke"), NEW x,
         Answer(c, x), UNCHANGED <<users, tokens, wallets, nonces, bearer>>
  PROVE  IInv'
<1>1. /\ call' = [call EXCEPT ![c] = [Idle EXCEPT !.reply = x]]
      /\ UNCHANGED <<raced, requests>>
    BY DEF Answer
<1> QED BY <1>1, Settled, QuietStep

\* The new password is written: what is live of the old one is to be revoked.
LEMMA ChangePasswordWriteStep ==
  ASSUME IInv, NEW c \in Clients, ChangePasswordWrite(c), UNCHANGED walletVars
  PROVE  IInv'
<1>1. /\ call[c].op = "password" /\ call[c].at = "write" /\ call[c].user \in DOMAIN users
      /\ users' = [users EXCEPT ![call[c].user].hash = call[c].password]
      /\ call' = [call EXCEPT ![c].at = "revoke"]
      /\ UNCHANGED <<tokens, wallets, nonces, bearer, raced, requests>>
    BY DEF ChangePasswordWrite, UpdatePasswordHash, Goto, At, walletVars, IInv, Calls, NamesRows
<1>2. "user" \in DOMAIN call[c]
    BY <1>1 DEF IInv, Calls, HasFields
<1>3. /\ DOMAIN call' = Clients /\ \A d \in Clients \ {c} : call'[d] = call[d]
      /\ call'[c].op = "password" /\ call'[c].at = "revoke" /\ call'[c].user = call[c].user
      /\ HasFields(call[c])'
    BY <1>1, <1>2, Moved
<1>4. /\ DOMAIN users' = DOMAIN users
      /\ \A u \in DOMAIN users :
           /\ users'[u].email = users[u].email /\ users'[u].method = users[u].method
           /\ u # call[c].user => users'[u].hash = users[u].hash
           /\ DOMAIN users'[u] = DOMAIN users[u]
    BY <1>1 DEF IInv, Rows
<1>5. Rows'
    BY <1>1, <1>4 DEF IInv, Rows
<1>6. Calls'
  <2>1. NamesRows(call[c])'
      BY <1>1, <1>3, <1>4 DEF NamesRows
  <2>2. DOMAIN bearer' = Clients /\ bearer' = bearer
      BY <1>1 DEF IInv, Calls
  <2> QED BY <1>1, <1>3, <1>4, <2>1, <2>2, CallsStay
<1>7. Alone'
    BY <1>1, <1>3, AloneStays
<1>8. OneAccountPerEmail' /\ Registering'
    BY <1>1, <1>3, <1>4, EmailsStay DEF At
<1>9. OldSessionsEnd'
  <2> SUFFICES ASSUME "password" \notin raced, NEW t \in DOMAIN tokens
               PROVE  \/ Stale(t)' \/ tokens'[t].hash = users'[tokens'[t].user].hash
                      \/ \E d \in Clients : At(d, "password", "revoke")' /\ call'[d].user = tokens'[t].user
      BY <1>1 DEF OldSessionsEnd
  <2>1. CASE tokens[t].user = call[c].user
      BY <1>1, <1>3, <2>1 DEF At
  <2>2. CASE tokens[t].user # call[c].user
    <3>1. tokens[t].user \in DOMAIN users
        BY DEF IInv, Rows
    <3>2. \A d \in Clients : ~At(d, "password", "revoke")
        BY <1>1 DEF IInv, Alone, At, Kind
    <3>3. Stale(t) \/ tokens[t].hash = users[tokens[t].user].hash
        BY <3>2 DEF IInv, OldSessionsEnd
    <3> QED BY <1>1, <1>4, <2>2, <3>1, <3>3 DEF Stale
  <2> QED BY <2>1, <2>2
<1>10. Carrying'
    BY <1>1, <1>3 DEF IInv, Alone, Carrying
<1>11. KeepsAWallet' /\ Unlinking'
    BY <1>1, <1>3, <1>4, WalletsStay
<1>12. Exchanged' /\ Accepted'
    BY <1>1, <1>3, ExchangesStay, NoncesStay
<1> QED BY <1>5, <1>6, <1>7, <1>8, <1>9, <1>10, <1>11, <1>12 DEF IInv

\* The answer to a password change: no session of the account is live.
LEMMA ChangePasswordRevokeStep ==
  ASSUME IInv, NEW c \in Clients, ChangePasswordRevoke(c), UNCHANGED walletVars
  PROVE  IInv'
<1>1. /\ call[c].op = "password" /\ call[c].at = "revoke" /\ raced \subseteq raced'
      /\ UNCHANGED <<users, wallets, nonces, bearer, requests>>
      /\ RevokeAllUserRefreshTokens(call[c].user) \/ (UNCHANGED tokens /\ "password" \in raced')
    BY DEF ChangePasswordRevoke, Answer, At, walletVars
<1>2. PICK y : call' = [call EXCEPT ![c] = [Idle EXCEPT !.reply = y]]
    BY DEF ChangePasswordRevoke, Answer
<1>3. /\ DOMAIN call' = Clients /\ \A d \in Clients \ {c} : call'[d] = call[d]
      /\ call'[c].op = "idle" /\ call'[c].at = "" /\ (HasFields(call[c]) /\ NamesRows(call[c]))'
    BY <1>2, Settled
<1>4. /\ DOMAIN tokens' = DOMAIN tokens
      /\ \A t \in DOMAIN tokens :
           /\ tokens'[t].user = tokens[t].user /\ tokens'[t].hash = tokens[t].hash
           /\ tokens'[t].exchanges = tokens[t].exchanges
           /\ tokens[t].revoked => tokens'[t].revoked
           /\ tokens[t].user = call[c].user /\ "password" \notin raced' => tokens'[t].revoked
           /\ tokens'[t].expired = tokens[t].expired
           /\ DOMAIN tokens'[t] = DOMAIN tokens[t]
    BY <1>1, RevokeAllFacts
<1>5. Rows'
    BY <1>1, <1>4 DEF IInv, Rows
<1>6. Calls'
  <2>1. DOMAIN bearer' = Clients /\ bearer' = bearer
      BY <1>1 DEF IInv, Calls
  <2> QED BY <1>1, <1>3, <1>4, <2>1, CallsStay
<1>7. Alone'
    BY <1>1, <1>3, AloneStays
<1>8. OneAccountPerEmail' /\ Registering'
    BY <1>1, <1>3, EmailsStay DEF At
<1>9. OldSessionsEnd'
  <2> SUFFICES ASSUME "password" \notin raced', NEW t \in DOMAIN tokens
               PROVE  Stale(t)' \/ tokens'[t].hash = users'[tokens'[t].user].hash
      BY <1>4 DEF OldSessionsEnd
  <2>1. CASE tokens[t].user = call[c].user
      BY <1>4, <2>1 DEF Stale
  <2>2. CASE tokens[t].user # call[c].user
    <3>1. \A d \in Clients : At(d, "password", "revoke") => d = c
        BY <1>1 DEF IInv, Alone, At, Kind
    <3>2. Stale(t) \/ tokens[t].hash = users[tokens[t].user].hash
        BY <1>1, <2>2, <3>1 DEF IInv, OldSessionsEnd
    <3> QED BY <1>1, <1>4, <3>2 DEF Stale
  <2> QED BY <2>1, <2>2
<1>10. Carrying'
    BY <1>1, <1>3 DEF IInv, Carrying
<1>11. KeepsAWallet' /\ Unlinking'
    BY <1>1, <1>3, WalletsStay
<1>12. Exchanged' /\ Accepted'
    BY <1>1, <1>3, <1>4, ExchangesStay, NoncesStay
<1> QED BY <1>5, <1>6, <1>7, <1>8, <1>9, <1>10, <1>11, <1>12 DEF IInv

-----------------------------------------------------------------------------
(* Wallets.                                                                *)

LEMMA NonceStep ==
  ASSUME IInv, NEW c \in Clients, NEW a, GenerateNonce(c, a)
  PROVE  IInv'
<1>1. CASE (\E code : Refuse(c, code)) /\ UNCHANGED <<users, tokens, wallets, nonces, bearer>>
    BY <1>1, RefusedStep DEF Refuse
<1>2. CASE /\ NonceIds \ DOMAIN nonces # {} /\ CreateNonce(a) /\ AnswerAtOnce(c, RespondSuccess)
           /\ UNCHANGED <<users, tokens, wallets, bearer>>
  <2> DEFINE row == [address |-> a, used |-> FALSE, expired |-> FALSE, accepted |-> 0]
  <2>1. PICK i : i = Free(NonceIds, nonces) /\ i \notin DOMAIN nonces
      BY <1>2, FreshIds
  <2>2. nonces' = Insert(nonces, i, row)
      BY <1>2, <2>1 DEF CreateNonce
  <2>3. row.accepted = 0 /\ DOMAIN row = {"address", "used", "expired", "accepted"}
      OBVIOUS
  <2> HIDE DEF row
  <2>4. /\ DOMAIN nonces' = DOMAIN nonces \cup {i} /\ nonces'[i] = row
        /\ \A n \in DOMAIN nonces : nonces'[n] = nonces[n]
      BY <2>1, <2>2 DEF Insert
  <2>5. /\ DOMAIN call' = Clients /\ \A d \in Clients \ {c} : call'[d] = call[d]
        /\ call'[c].op = "idle" /\ call'[c].at = "" /\ (HasFields(call[c]) /\ NamesRows(call[c]))'
      BY <1>2, Settled DEF AnswerAtOnce
  <2>6. call[c].op = "idle" /\ requests' = requests + 1 /\ UNCHANGED raced
      BY <1>2 DEF AnswerAtOnce, Admit
  <2>7. Rows'
      BY <1>2, <2>3, <2>4 DEF IInv, Rows
  <2>8. Calls'
    <3>1. \A d \in Clients \ {c} : (HasFields(call[d]) /\ NamesRows(call[d]))'
        BY <1>2, <2>4, <2>5 DEF IInv, Calls, HasFields, NamesRows
    <3>2. \A d \in Clients : HasFields(call[d])' /\ NamesRows(call[d])'
        BY <2>5, <3>1
    <3>3. requests' \in Nat /\ requests' # 0
        BY <2>6 DEF IInv, Calls
    <3>4. DOMAIN bearer' = Clients /\ \A d \in Clients : BearerOf(bearer[d])'
        BY <1>2 DEF IInv, Calls, BearerOf
    <3> QED BY <2>5, <3>2, <3>3, <3>4 DEF Calls
  <2>9. Alone'
      BY <2>5, <2>6, AloneStays
  <2>10. OneAccountPerEmail' /\ Registering'
      BY <1>2, <2>5, <2>6, EmailsStay DEF At
  <2>11. OldSessionsEnd' /\ Carrying'
    <3>1. \A d \in Clients : At(d, "password", "revoke") =>
             At(d, "password", "revoke")' /\ call'[d].user = call[d].user
        BY <2>5, <2>6 DEF At
    <3> QED BY <1>2, <2>5, <2>6, <3>1, SessionsStay DEF Stale
  <2>12. KeepsAWallet' /\ Unlinking'
      BY <1>2, <2>5, <2>6, WalletsStay
  <2>13. Exchanged' /\ Accepted'
      BY <1>2, <2>3, <2>4, <2>5, <2>6, ExchangesStay, NoncesStay
  <2> QED BY <2>7, <2>8, <2>9, <2>10, <2>11, <2>12, <2>13 DEF IInv
<1> QED BY <1>1, <1>2 DEF GenerateNonce

\* A message that is accepted has its nonce marked as used.
LEMMA MarkUsedStep ==
  ASSUME IInv, NEW c \in Clients, call[c].op \in {"verify", "link"}, MarkUsed(c)
  PROVE  IInv'
<1>1. /\ call[c].at = "mark" /\ call' = [call EXCEPT ![c].at = "wallet"] /\ raced \subseteq raced'
      /\ call[c].nonce \in DOMAIN nonces
      /\ UNCHANGED <<users, tokens, bearer, wallets, requests>>
      /\ \/ MarkNonceUsed(call[c].nonce)
         \/ UNCHANGED nonces /\ "message" \in raced'
    BY DEF MarkUsed, Goto, At, IInv, Calls, NamesRows
<1>2. HasFields(call[c]) /\ NamesRows(call[c]) /\ {"user", "nonce"} \subseteq DOMAIN call[c]
    BY DEF IInv, Calls, HasFields
<1>3. /\ DOMAIN call' = Clients /\ \A d \in Clients \ {c} : call'[d] = call[d]
      /\ call'[c].op = call[c].op /\ call'[c].at = "wallet" /\ HasFields(call[c])'
      /\ call'[c].user = call[c].user /\ call'[c].nonce = call[c].nonce
    BY <1>1, <1>2, Moved
<1>4. /\ DOMAIN nonces' = DOMAIN nonces
      /\ \A n \in DOMAIN nonces : DOMAIN nonces'[n] = DOMAIN nonces[n]
    BY <1>1 DEF MarkNonceUsed
<1>5. NamesRows(call[c])'
    BY <1>1, <1>2, <1>3, <1>4 DEF NamesRows
<1>6. Rows'
    BY <1>1, <1>4 DEF IInv, Rows
<1>7. Calls'
    BY <1>1, <1>3, <1>4, <1>5, CallsStay DEF IInv, Calls
<1>8. Alone'
    BY <1>1, <1>3, AloneStays
<1>9. OneAccountPerEmail' /\ Registering'
    BY <1>1, <1>3, EmailsStay DEF At
<1>10. OldSessionsEnd' /\ Carrying'
  <2>1. \A d \in Clients : At(d, "password", "revoke") =>
           At(d, "password", "revoke")' /\ call'[d].user = call[d].user
      BY <1>1, <1>3 DEF At
  <2>2. \A d \in Clients : call'[d].op = "refresh" => call'[d] = call[d]
      BY <1>3
  <2> QED BY <1>1, <2>1, <2>2, SessionsStay DEF Stale
<1>11. KeepsAWallet' /\ Unlinking'
    BY <1>1, <1>3, WalletsStay
<1>12. Exchanged'
    BY <1>1, <1>3, ExchangesStay
<1>13. Accepted'
  <2> SUFFICES ASSUME "message" \notin raced'
               PROVE  /\ \A n \in DOMAIN nonces' :
                           nonces'[n].accepted = 0 \/ (nonces'[n].accepted = 1 /\ nonces'[n].used)
                      /\ \A d \in Clients : ~(call'[d].op \in {"verify", "link"} /\ call'[d].at = "mark")
      BY DEF Accepted
  <2>1. nonces' = [nonces EXCEPT ![call[c].nonce].used = TRUE, ![call[c].nonce].accepted = @ + 1]
      BY <1>1 DEF MarkNonceUsed
  <2>2. nonces[call[c].nonce].accepted = 0 /\ "message" \notin raced
      BY <1>1 DEF IInv, Accepted
  <2>3. \A n \in DOMAIN nonces' :
           nonces'[n].accepted = 0 \/ (nonces'[n].accepted = 1 /\ nonces'[n].used)
      BY <1>1, <2>1, <2>2 DEF IInv, Accepted, Rows
  <2>4. \A d \in Clients \ {c} : call[d].op \notin {"verify", "link"}
      BY <2>2 DEF IInv, Alone, Kind
  <2> QED BY <1>3, <2>3, <2>4
<1> QED BY <1>6, <1>7, <1>8, <1>9, <1>10, <1>11, <1>12, <1>13 DEF IInv

LEMMA VerifyFindStep ==
  ASSUME IInv, NEW c \in Clients, VerifyFind(c)
  PROVE  IInv'
<1>1. /\ call[c].op = "verify" /\ call[c].at = "wallet"
      /\ UNCHANGED <<users, tokens, bearer, wallets, nonces, raced, requests>>
      /\ {"user", "nonce"} \subseteq DOMAIN call[c] /\ NamesRows(call[c])
    BY DEF VerifyFind, At, walletVars, IInv, Calls, HasFields
<1>2. ~At(c, "password", "revoke")
    BY <1>1 DEF At
<1> DEFINE owners == GetUserByAddress(call[c].address)
<1>3. CASE owners = {}
  <2>1. call' = [call EXCEPT ![c].at = "create"]
      BY <1>3 DEF VerifyFind
  <2>2. /\ DOMAIN call' = Clients /\ \A d \in Clients \ {c} : call'[d] = call[d]
        /\ call'[c].op = "verify" /\ call'[c].at = "create" /\ call'[c].nonce = call[c].nonce
        /\ HasFields(call[c])'
      BY <1>1, <2>1, Moved
  <2>3. NamesRows(call[c])'
      BY <1>1, <2>2 DEF NamesRows
  <2> QED BY <1>1, <1>2, <2>2, <2>3, QuietStep
<1>4. CASE owners # {}
  <2>1. PICK u \in owners : call' = [call EXCEPT ![c].at = "token", ![c].user = u]
      BY <1>4 DEF VerifyFind
  <2>2. u \in DOMAIN users
      BY <2>1 DEF GetUserByAddress, GetWalletByAddress, IInv, Rows
  <2>3. /\ DOMAIN call' = Clients /\ \A d \in Clients \ {c} : call'[d] = call[d]
        /\ call'[c].op = "verify" /\ call'[c].at = "token" /\ call'[c].user = u
        /\ call'[c].nonce = call[c].nonce /\ HasFields(call[c])'
      BY <1>1, <2>1, GotAccount
  <2>4. NamesRows(call[c])'
      BY <1>1, <2>2, <2>3 DEF NamesRows
  <2> QED BY <1>1, <1>2, <2>3, <2>4, QuietStep
<1> QED BY <1>3, <1>4

\* A new account and its first wallet, in one transaction.
LEMMA VerifyCreateStep ==
  ASSUME IInv, NEW c \in Clients, VerifyCreate(c)
  PROVE  IInv'
<1>1. /\ call[c].op = "verify" /\ call[c].at = "create" /\ UNCHANGED <<tokens, bearer, nonces>>
      /\ {"user", "nonce"} \subseteq DOMAIN call[c] /\ NamesRows(call[c])
    BY DEF VerifyCreate, At, IInv, Calls, HasFields
<1>2. CASE ~CanCreateUserWithWallet(call[c].address)
  <2>1. ~At(c, "password", "revoke") /\ call[c].op # "idle"
      BY <1>1 DEF At
  <2>2. Answer(c, RespondError("INTERNAL")) /\ UNCHANGED <<users, wallets>>
      BY <1>2 DEF VerifyCreate
  <2> QED BY <1>1, <2>1, <2>2, AnsweredStep
<1>3. CASE CanCreateUserWithWallet(call[c].address)
  <2> DEFINE row == User(NoEmail, NoEmail, "user", "wallet")
             first == WalletRow(FreshUser, call[c].address, TRUE)
  <2>1. PICK i : i = FreshUser /\ i \notin DOMAIN users
      BY <1>3, FreshIds DEF CanCreateUserWithWallet
  <2>2. PICK w : w = Free(WalletIds, wallets) /\ w \notin DOMAIN wallets
      BY <1>3, FreshIds DEF CanCreateUserWithWallet
  <2>3. /\ users' = Insert(users, i, row) /\ wallets' = Insert(wallets, w, first)
        /\ call' = [call EXCEPT ![c].at = "token", ![c].user = i]
        /\ UNCHANGED <<raced, requests>>
      BY <1>3, <2>1, <2>2 DEF VerifyCreate, CreateUserWithWallet, CreateUser
  <2>4. /\ row.email = NoEmail /\ row.method = "wallet"
        /\ DOMAIN row = {"email", "hash", "role", "status", "method"}
        /\ first.user = i /\ ~first.deleted /\ DOMAIN first = {"user", "address", "primary", "deleted"}
      BY <2>1 DEF User, WalletRow
  <2> HIDE DEF row, first
  <2>5. /\ DOMAIN users' = DOMAIN users \cup {i} /\ users'[i] = row
        /\ \A u \in DOMAIN users : users'[u] = users[u]
      BY <2>1, <2>3 DEF Insert
  <2>6. /\ DOMAIN wallets' = DOMAIN wallets \cup {w} /\ wallets'[w] = first
        /\ \A v \in DOMAIN wallets : wallets'[v] = wallets[v]
      BY <2>2, <2>3 DEF Insert
  <2>7. /\ DOMAIN call' = Clients /\ \A d \in Clients \ {c} : call'[d] = call[d]
        /\ call'[c].op = "verify" /\ call'[c].at = "token" /\ call'[c].user = i
        /\ call'[c].nonce = call[c].nonce /\ HasFields(call[c])'
      BY <1>1, <2>3, GotAccount
  <2>8. NamesRows(call[c])'
      BY <1>1, <2>5, <2>7 DEF NamesRows
  <2>9. Rows'
      BY <1>1, <2>4, <2>5, <2>6 DEF IInv, Rows
  <2>10. Calls'
    <3>1. DOMAIN bearer' = Clients /\ bearer' = bearer
        BY <1>1 DEF IInv, Calls
    <3> QED BY <1>1, <2>3, <2>5, <2>6, <2>7, <2>8, <3>1, CallsStay
  <2>11. Alone'
      BY <1>1, <2>3, <2>7, AloneStays
  <2>12. OneAccountPerEmail' /\ Registering'
    <3>1. \A d \in Clients : At(d, "register", "create")' => call'[d] = call[d]
        BY <2>7 DEF At
    <3>2. users'[i].email = NoEmail
        BY <2>4, <2>5
    <3> QED BY <2>1, <2>3, <2>5, <3>1, <3>2, EmailsGrow
  <2>13. OldSessionsEnd' /\ Carrying'
    <3>1. \A d \in Clients : At(d, "password", "revoke") =>
             At(d, "password", "revoke")' /\ call'[d].user = call[d].user
        BY <1>1, <2>7 DEF At
    <3>2. \A d \in Clients : call'[d].op = "refresh" => call'[d] = call[d]
        BY <2>7
    <3> QED BY <1>1, <2>3, <2>5, <3>1, <3>2, SessionsStay DEF Stale
  <2>14. KeepsAWallet' /\ Unlinking'
    <3>1. \A u \in DOMAIN users' : users'[u].method = "wallet" =>
             \/ u \in DOMAIN users /\ users[u].method = "wallet"
             \/ \E v \in DOMAIN wallets' : wallets'[v].user = u /\ ~wallets'[v].deleted
        BY <2>4, <2>5, <2>6
    <3> QED BY <2>3, <2>6, <2>7, <3>1, WalletsStay
  <2>15. Exchanged' /\ Accepted'
      BY <1>1, <2>3, <2>7, ExchangesStay, NoncesStay
  <2> QED BY <2>9, <2>10, <2>11, <2>12, <2>13, <2>14, <2>15 DEF IInv
<1> QED BY <1>2, <1>3

LEMMA LinkInsertStep ==
  ASSUME IInv, NEW c \in Clients, LinkInsert(c)
  PROVE  IInv'
<1>1. /\ call[c].op = "link" /\ call[c].user \in DOMAIN users
      /\ UNCHANGED <<users, tokens, bearer, nonces, raced, requests>>
      /\ \E y : call' = [call EXCEPT ![c] = [Idle EXCEPT !.reply = y]]
    BY DEF LinkInsert, At, Answer, IInv, Calls, NamesRows
<1>2. /\ DOMAIN call' = Clients /\ \A d \in Clients \ {c} : call'[d] = call[d]
      /\ call'[c].op = "idle" /\ call'[c].at = "" /\ (HasFields(call[c]) /\ NamesRows(call[c]))'
    BY <1>1, Settled
<1>3. /\ DOMAIN wallets \subseteq DOMAIN wallets'
      /\ \A w \in DOMAIN wallets : wallets'[w] = wallets[w]
      /\ \A w \in DOMAIN wallets' \ DOMAIN wallets :
           /\ wallets'[w].user = call[c].user
           /\ DOMAIN wallets'[w] = {"user", "address", "primary", "deleted"}
  <2>1. CASE UNCHANGED wallets
      BY <2>1
  <2>2. CASE /\ WalletIds \ DOMAIN wallets # {}
             /\ wallets' = Insert(wallets, Free(WalletIds, wallets),
                                  WalletRow(call[c].user, call[c].address, FALSE))
    <3> DEFINE row == WalletRow(call[c].user, call[c].address, FALSE)
    <3>1. PICK i : i = Free(WalletIds, wallets) /\ i \notin DOMAIN wallets
        BY <2>2, FreshIds
    <3>2. wallets' = Insert(wallets, i, row)
        BY <2>2, <3>1
    <3>3. row.user = call[c].user /\ DOMAIN row = {"user", "address", "primary", "deleted"}
        BY DEF WalletRow
    <3> HIDE DEF row
    <3> QED BY <3>1, <3>2, <3>3 DEF Insert
  <2> QED BY <2>1, <2>2 DEF LinkInsert, CreateWallet
<1>4. Rows'
    BY <1>1, <1>3 DEF IInv, Rows
<1>5. Calls'
    BY <1>1, <1>2, <1>3, CallsStay DEF IInv, Calls
<1>6. Alone'
    BY <1>1, <1>2, AloneStays
<1>7. OneAccountPerEmail' /\ Registering'
    BY <1>1, <1>2, EmailsStay DEF At
<1>8. OldSessionsEnd' /\ Carrying'
  <2>1. \A d \in Clients : At(d, "password", "revoke") =>
           At(d, "password", "revoke")' /\ call'[d].user = call[d].user
      BY <1>1, <1>2 DEF At
  <2> QED BY <1>1, <1>2, <2>1, SessionsStay DEF Stale
<1>9. KeepsAWallet' /\ Unlinking'
    BY <1>1, <1>2, <1>3, WalletsStay
<1>10. Exchanged' /\ Accepted'
    BY <1>1, <1>2, ExchangesStay, NoncesStay
<1> QED BY <1>4, <1>5, <1>6, <1>7, <1>8, <1>9, <1>10 DEF IInv

LEMMA LinkLookupStep ==
  ASSUME IInv, NEW c \in Clients, LinkLookup(c)
  PROVE  IInv'
<1>1. /\ call[c].op = "link" /\ ~At(c, "password", "revoke")
      /\ UNCHANGED <<users, tokens, bearer, wallets, nonces>>
      /\ {"user", "nonce"} \subseteq DOMAIN call[c] /\ NamesRows(call[c])
    BY DEF LinkLookup, At, walletVars, IInv, Calls, HasFields
<1>2. CASE \E x : Answer(c, x)
    BY <1>1, <1>2, AnsweredStep
<1>3. CASE Goto(c, "insert")
  <2>1. call' = [call EXCEPT ![c].at = "insert"] /\ UNCHANGED <<raced, requests>>
      BY <1>3 DEF Goto
  <2>2. /\ DOMAIN call' = Clients /\ \A d \in Clients \ {c} : call'[d] = call[d]
        /\ call'[c].op = "link" /\ call'[c].at = "insert" /\ call'[c].nonce = call[c].nonce
        /\ call'[c].user = call[c].user /\ HasFields(call[c])'
      BY <1>1, <2>1, Moved
  <2>3. NamesRows(call[c])'
      BY <1>1, <2>2 DEF NamesRows
  <2> QED BY <1>1, <2>1, <2>2, <2>3, QuietStep
<1> QED BY <1>2, <1>3 DEF LinkLookup

\* The wallet goes, its companion stays.
LEMMA UnlinkDeleteStep ==
  ASSUME IInv, NEW c \in Clients, UnlinkDelete(c)
  PROVE  IInv'
<1> DEFINE x == call[c].wallet
<1>1. /\ call[c].op = "unlink" /\ x \in DOMAIN wallets
      /\ wallets' = [wallets EXCEPT ![x].deleted = TRUE]
      /\ UNCHANGED <<users, tokens, bearer, nonces, raced, requests>>
      /\ call' = [call EXCEPT ![c] = [Idle EXCEPT !.reply = RespondNoContent]]
    BY DEF UnlinkDelete, DeleteWallet, At, Answer, IInv, Calls, NamesRows
<1>2. /\ DOMAIN call' = Clients /\ \A d \in Clients \ {c} : call'[d] = call[d]
      /\ call'[c].op = "idle" /\ call'[c].at = "" /\ (HasFields(call[c]) /\ NamesRows(call[c]))'
    BY <1>1, Settled
<1>3. /\ DOMAIN wallets' = DOMAIN wallets
      /\ \A w \in DOMAIN wallets : /\ w # x => wallets'[w] = wallets[w]
                                   /\ wallets'[w].user = wallets[w].user
                                   /\ DOMAIN wallets'[w] = DOMAIN wallets[w]
    BY <1>1 DEF IInv, Rows
<1>4. Rows'
    BY <1>1, <1>3 DEF IInv, Rows
<1>5. Calls'
    BY <1>1, <1>2, <1>3, CallsStay DEF IInv, Calls
<1>6. Alone'
    BY <1>1, <1>2, AloneStays
<1>7. OneAccountPerEmail' /\ Registering'
    BY <1>1, <1>2, EmailsStay DEF At
<1>8. OldSessionsEnd' /\ Carrying'
  <2>1. \A d \in Clients : At(d, "password", "revoke") =>
           At(d, "password", "revoke")' /\ call'[d].user = call[d].user
      BY <1>1, <1>2 DEF At
  <2> QED BY <1>1, <1>2, <2>1, SessionsStay DEF Stale
<1>9. KeepsAWallet'
  <2> SUFFICES ASSUME "unlink" \notin raced, NEW u \in DOMAIN users, users[u].method = "wallet"
               PROVE  \E w \in DOMAIN wallets' : wallets'[w].user = u /\ ~wallets'[w].deleted
      BY <1>1 DEF KeepsAWallet, GetWalletsByUserID
  <2>1. PICK w \in DOMAIN wallets : wallets[w].user = u /\ ~wallets[w].deleted
      BY DEF IInv, KeepsAWallet, GetWalletsByUserID
  <2>2. CASE w # x
      BY <1>3, <2>1, <2>2
  <2>3. CASE w = x
    <3>1. PICK v \in DOMAIN wallets : v # x /\ wallets[v].user = wallets[x].user /\ ~wallets[v].deleted
        BY <1>1 DEF IInv, Unlinking, GetWalletsByUserID
    <3> QED BY <1>3, <2>1, <2>3, <3>1
  <2> QED BY <2>2, <2>3
<1>10. Unlinking'
  <2>1. "unlink" \notin raced => \A d \in Clients : call'[d].op # "unlink"
    <3> SUFFICES ASSUME NEW d \in Clients, call'[d].op = "unlink" PROVE "unlink" \in raced
        OBVIOUS
    <3>1. d # c /\ call[d].op = "unlink"
        BY <1>2
    <3>2. Kind("unlink") = "unlink"
        BY DEF Kind
    <3> QED BY <1>1, <3>1, <3>2 DEF IInv, Alone
  <2> QED BY <1>1, <2>1 DEF Unlinking
<1>11. Exchanged' /\ Accepted'
    BY <1>1, <1>2, ExchangesStay, NoncesStay
<1> QED BY <1>4, <1>5, <1>6, <1>7, <1>8, <1>9, <1>10, <1>11 DEF IInv

-----------------------------------------------------------------------------
(* What happens beside the requests.                                       *)

LEMMA BackgroundCalls ==
  ASSUME IInv, UNCHANGED <<call, raced, requests>>,
         DOMAIN users \subseteq DOMAIN users', DOMAIN tokens' = DOMAIN tokens,
         DOMAIN wallets' = DOMAIN wallets, DOMAIN nonces' = DOMAIN nonces,
         DOMAIN bearer' = Clients,
         \A d \in Clients : bearer'[d] = bearer[d] \/ BearerOf(bearer[d])'
  PROVE  Calls' /\ Alone'
<1>1. Calls'
    BY CallsStay DEF IInv, Calls
<1>2. Alone'
    BY AloneStays
<1> QED BY <1>1, <1>2

\* Time, the clean-up and an operator change neither an owner nor a hash, and
\* make no token live again.
LEMMA BackgroundStep ==
  ASSUME IInv, NonceExpires \/ ((CleanupWorker \/ Expire \/ Disable) /\ UNCHANGED walletVars)
  PROVE  IInv'
<1>1. UNCHANGED <<call, raced, requests, wallets>>
    BY DEF NonceExpires, CleanupWorker, Expire, Disable, walletVars, sessionVars
<1>2. /\ DOMAIN users' = DOMAIN users
      /\ \A u \in DOMAIN users :
           /\ users'[u].email = users[u].email /\ users'[u].method = users[u].method
           /\ users'[u].hash = users[u].hash /\ DOMAIN users'[u] = DOMAIN users[u]
    BY DEF NonceExpires, CleanupWorker, Expire, Disable, sessionVars, IInv, Rows
<1>3. /\ DOMAIN tokens' = DOMAIN tokens
      /\ \A t \in DOMAIN tokens :
           /\ tokens'[t].user = tokens[t].user /\ tokens'[t].hash = tokens[t].hash
           /\ tokens'[t].exchanges = tokens[t].exchanges
           /\ tokens'[t].revoked = tokens[t].revoked
           /\ tokens[t].expired => tokens'[t].expired
           /\ DOMAIN tokens'[t] = DOMAIN tokens[t]
  <2>1. CASE UNCHANGED tokens
      BY <2>1
  <2>2. CASE DeleteExpiredRefreshTokens
      BY <2>2 DEF DeleteExpiredRefreshTokens, IInv, Rows
  <2>3. CASE \E t \in DOMAIN tokens : tokens' = [tokens EXCEPT ![t].expired = TRUE]
      BY <2>3 DEF IInv, Rows
  <2> QED BY <2>1, <2>2, <2>3 DEF NonceExpires, CleanupWorker, Expire, Disable, sessionVars
<1>4. /\ DOMAIN nonces' = DOMAIN nonces
      /\ \A n \in DOMAIN nonces :
           /\ nonces'[n].accepted = nonces[n].accepted /\ nonces'[n].used = nonces[n].used
           /\ DOMAIN nonces'[n] = DOMAIN nonces[n]
    BY DEF NonceExpires, walletVars, IInv, Rows
<1>5. /\ DOMAIN bearer' = Clients
      /\ \A d \in Clients : bearer'[d] = bearer[d] \/ BearerOf(bearer[d])'
  <2>1. CASE UNCHANGED bearer
      BY <2>1 DEF IInv, Calls
  <2>2. CASE \E c \in Clients : bearer[c] # NoClaims /\ bearer' = [bearer EXCEPT ![c].expired = TRUE]
      BY <1>2, <2>2 DEF IInv, Calls, BearerOf
  <2> QED BY <2>1, <2>2 DEF NonceExpires, CleanupWorker, Expire, Disable, sessionVars
<1>6. Rows'
    BY <1>1, <1>2, <1>3, <1>4 DEF IInv, Rows
<1>7. Calls' /\ Alone'
    BY <1>1, <1>2, <1>3, <1>4, <1>5, BackgroundCalls
<1>8. OneAccountPerEmail' /\ Registering'
    BY <1>1, <1>2, EmailsStay
<1>9. OldSessionsEnd' /\ Carrying'
    BY <1>1, <1>2, <1>3, SessionsStay DEF At, Stale
<1>10. KeepsAWallet' /\ Unlinking'
    BY <1>1, <1>2, WalletsStay
<1>11. Exchanged' /\ Accepted'
    BY <1>1, <1>3, <1>4, ExchangesStay, NoncesStay
<1> QED BY <1>6, <1>7, <1>8, <1>9, <1>10, <1>11 DEF IInv

\* The administrator is the first account, before any request.
LEMMA EnsureAdminStep ==
  ASSUME IInv, EnsureAdmin, UNCHANGED walletVars
  PROVE  IInv'
<1> DEFINE row == User(AdminEmail, AdminPassword, "admin", "email")
<1>1. PICK i : i = FreshUser
    OBVIOUS
<1>2. /\ requests = 0 /\ DOMAIN users = {} /\ users' = Insert(users, i, row)
      /\ UNCHANGED <<tokens, wallets, nonces, call, bearer, raced, requests>>
    BY <1>1 DEF EnsureAdmin, CreateUser, walletVars
<1>3. row.method = "email" /\ DOMAIN row = {"email", "hash", "role", "status", "method"}
    BY DEF User
<1> HIDE DEF row
<1>4. DOMAIN users' = {i} /\ users'[i] = row
    BY <1>2 DEF Insert
<1>5. \A d \in Clients : call[d].op = "idle"
    BY <1>2 DEF IInv, Calls
<1>6. Rows'
    BY <1>2, <1>3, <1>4 DEF IInv, Rows
<1>7. Calls' /\ Alone'
    BY <1>2, BackgroundCalls DEF IInv, Calls
<1>8. OneAccountPerEmail' /\ Registering'
    BY <1>2, <1>4, <1>5 DEF OneAccountPerEmail, Registering, At
<1>9. OldSessionsEnd' /\ Carrying'
    BY <1>2, <1>5, SessionsStay DEF At, Stale
<1>10. KeepsAWallet' /\ Unlinking'
    BY <1>2, <1>3, <1>4, WalletsStay
<1>11. Exchanged' /\ Accepted'
    BY <1>2, ExchangesStay, NoncesStay
<1> QED BY <1>6, <1>7, <1>8, <1>9, <1>10, <1>11 DEF IInv

LEMMA StutterStep == ASSUME IInv, UNCHANGED accountVars PROVE IInv'
<1>1. UNCHANGED <<users, tokens, wallets, nonces, call, bearer, raced, requests>>
    BY DEF accountVars, sessionVars, walletVars
<1>2. Rows'
    BY <1>1 DEF IInv, Rows
<1>3. Calls' /\ Alone'
    BY <1>1, BackgroundCalls DEF IInv, Calls
<1>4. OneAccountPerEmail' /\ Registering'
    BY <1>1, EmailsStay
<1>5. OldSessionsEnd' /\ Carrying'
    BY <1>1, SessionsStay DEF At, Stale
<1>6. KeepsAWallet' /\ Unlinking' /\ Exchanged' /\ Accepted'
    BY <1>1, WalletsStay, ExchangesStay, NoncesStay
<1> QED BY <1>2, <1>3, <1>4, <1>5, <1>6 DEF IInv

LEMMA SessionRequestStep ==
  ASSUME IInv, NEW c \in Clients, Step(c), UNCHANGED walletVars
  PROVE  IInv'
<1>1. CASE Register(c)
    BY <1>1, RegisterCheckStep, RegisterCreateStep, AuthResponseStep DEF Register
<1>2. CASE Login(c)
    BY <1>2, LoginCheckStep, AuthResponseStep DEF Login
<1>3. CASE Refresh(c)
    BY <1>3, RefreshCheckStep, RefreshRevokeStep, RefreshIssueStep DEF Refresh
<1>4. CASE Logout(c)
    BY <1>4, LogoutStep
<1>5. CASE ChangePassword(c)
    BY <1>5, ChangePasswordCheckStep, ChangePasswordWriteStep, ChangePasswordRevokeStep
       DEF ChangePassword
<1>6. CASE Me(c) \/ AdminRoute(c)
    BY <1>6, ReadStep
<1> QED BY <1>1, <1>2, <1>3, <1>4, <1>5, <1>6 DEF Step

LEMMA WalletRequestStep ==
  ASSUME IInv, NEW c \in Clients, VerifySignature(c) \/ LinkWallet(c) \/ UnlinkWallet(c)
  PROVE  IInv'
<1>1. CASE VerifySignature(c)
  <2>1. CASE \E n \in NonceIds, a \in Addresses : CheckMessage(c, "verify", n, a, NoUser)
             /\ UNCHANGED <<users, tokens, bearer, walletVars>>
      BY <2>1, CheckMessageStep DEF walletVars
  <2>2. CASE call[c].op = "verify" /\ MarkUsed(c)
      BY <2>2, MarkUsedStep
  <2>3. CASE VerifyFind(c) \/ VerifyCreate(c)
      BY <2>3, VerifyFindStep, VerifyCreateStep
  <2>4. CASE call[c].op = "verify" /\ GenerateAuthResponse(c, RespondSuccess) /\ UNCHANGED walletVars
      BY <2>4, AuthResponseStep
  <2> QED BY <1>1, <2>1, <2>2, <2>3, <2>4 DEF VerifySignature
<1>2. CASE LinkWallet(c)
  <2>1. CASE /\ ApplyBearer(c) /\ UNCHANGED <<users, tokens, bearer>> /\ UNCHANGED walletVars
             /\ \E n \in NonceIds, a \in Addresses : CheckMessage(c, "link", n, a, bearer[c].user)
    <3>1. bearer[c].user \in DOMAIN users
        BY <2>1 DEF ApplyBearer, IInv, Calls, BearerOf
    <3> QED BY <2>1, <3>1, CheckMessageStep DEF walletVars
  <2>2. CASE (\E code : Refuse(c, code)) /\ UNCHANGED <<users, tokens, bearer>> /\ UNCHANGED walletVars
      BY <2>2, RefusedStep DEF Refuse, walletVars
  <2>3. CASE call[c].op = "link" /\ MarkUsed(c)
      BY <2>3, MarkUsedStep
  <2>4. CASE LinkLookup(c) \/ LinkInsert(c)
      BY <2>4, LinkLookupStep, LinkInsertStep
  <2> QED BY <1>2, <2>1, <2>2, <2>3, <2>4 DEF LinkWallet, JWT
<1>3. CASE UnlinkWallet(c)
    BY <1>3, UnlinkCheckStep, UnlinkDeleteStep DEF UnlinkWallet
<1> QED BY <1>1, <1>2, <1>3

LEMMA NextInv == IInv /\ [NextAccounts]_accountVars => IInv'
<1> SUFFICES ASSUME IInv, [NextAccounts]_accountVars PROVE IInv'
    OBVIOUS
<1>1. CASE \E c \in Clients : Step(c) /\ UNCHANGED walletVars
    BY <1>1, SessionRequestStep
<1>2. CASE \E c \in Clients : GetNonce(c)
    BY <1>2, NonceStep DEF GetNonce
<1>3. CASE \E c \in Clients : VerifySignature(c) \/ LinkWallet(c) \/ UnlinkWallet(c)
    BY <1>3, WalletRequestStep
<1>4. CASE \E c \in Clients : ListWallets(c)
    BY <1>4, ReadStep
<1>5. CASE NonceExpires \/ (Background /\ UNCHANGED walletVars)
    BY <1>5, BackgroundStep, EnsureAdminStep DEF Background
<1>6. CASE UNCHANGED accountVars
    BY <1>6, StutterStep
<1> QED BY <1>1, <1>2, <1>3, <1>4, <1>5, <1>6 DEF NextAccounts

-----------------------------------------------------------------------------
(* The theorems.                                                           *)

\* The inductive invariant, of any requests of any clients.
THEOREM Invariance == AccountSpec => []IInv
<1>1. InitWallets => IInv
    BY InitInv
<1>2. IInv /\ [NextAccounts]_accountVars => IInv'
    BY NextInv
<1> QED BY <1>1, <1>2, PTL DEF AccountSpec

\* Registrations that do not overlap make one account of an address, though
\* ExistsByEmail and CreateUser are two statements and no constraint backs them.
THEOREM OneAccount == AccountSpec => []OneAccountPerEmail
<1>1. IInv => OneAccountPerEmail
    BY DEF IInv
<1> QED BY <1>1, Invariance, PTL

\* After a password change that nothing overlapped is answered, no refresh token
\* of the old password is live, those that were refreshed in between included.
THEOREM SessionsEnd == AccountSpec => []OldSessionsEnd
<1>1. IInv => OldSessionsEnd
    BY DEF IInv
<1> QED BY <1>1, Invariance, PTL

\* Unlinkings that do not overlap leave an account that signs in by wallet one
\* to sign in with, whatever is linked or verified at the same time.
THEOREM WalletKept == AccountSpec => []KeepsAWallet
<1>1. IInv => KeepsAWallet
    BY DEF IInv
<1> QED BY <1>1, Invariance, PTL

\* A refresh token buys one successor and a signed message is accepted once,
\* when the requests that carry them do not overlap and the marking succeeds.
THEOREM OnceEach == AccountSpec => []UsedOnce
<1>1. IInv => UsedOnce
  <2> SUFFICES ASSUME IInv PROVE UsedOnce
      OBVIOUS
  <2>1. "refresh" \notin raced => \A t \in DOMAIN tokens : tokens[t].exchanges <= 1
      BY DEF IInv, Exchanged
  <2>2. "message" \notin raced => \A n \in DOMAIN nonces : nonces[n].accepted <= 1
      BY DEF IInv, Accepted
  <2> QED BY <2>1, <2>2 DEF UsedOnce
<1> QED BY <1>1, Invariance, PTL

---------------------------------------------------------------------------
(* The groups of a user: the cap.                                          *)

\* The addresses a body names.
Wallets(body) == {i.wallet : i \in body}
Adding(t) == tab[t].op \in {"add", "insert"}

\* Members are in groups that are there, and are finitely many.
GroupRows ==
  /\ \A g \in DOMAIN groups : DOMAIN groups[g] = {"owner", "name", "deleted"}
  /\ IsFiniteSet(DOMAIN members)
  /\ \A m \in DOMAIN members : m[1] \in DOMAIN groups /\ ~groups[m[1]].deleted

TabFields(q) ==
  /\ q.op \in {"idle", "add", "insert", "remove"}
  /\ q.op = "idle" => DOMAIN q = {"op", "reply"}
  /\ q.op = "remove" => DOMAIN q = {"op", "group", "body", "reply"}
  /\ q.op \in {"add", "insert"} => DOMAIN q = {"op", "group", "body", "existing", "reply"}

\* What an add carries: its group is one of the user's own, its count finite.
TabsCarry ==
  /\ DOMAIN tab = Tabs
  /\ \A t \in Tabs :
       /\ TabFields(tab[t])
       /\ Adding(t) => /\ tab[t].group \in DOMAIN groups /\ groups[tab[t].group].owner = Group!User(t)
                       /\ tab[t].body \in Bodies /\ IsFiniteSet(tab[t].existing)

\* A user whose adds did not overlap has one at a time, and watches no more
\* addresses than it has counted; at the insert, the cap of a check bounds both.
OneAdd ==
  \A r, s \in Tabs : Adding(r) /\ Adding(s) /\ Group!User(r) = Group!User(s)
                     /\ Group!User(s) \notin history.overlapped => r = s
CountStands ==
  /\ DOMAIN history = {"highest", "overlapped", "requests"} /\ history.highest \in Nat
  /\ OneAdd
  /\ \A t \in Tabs : Adding(t) /\ Group!User(t) \notin history.overlapped
                     => Group!Watched(Group!User(t)) \subseteq tab[t].existing
  /\ \A t \in Tabs : tab[t].op = "insert" =>
       Cardinality(tab[t].existing) + Cardinality(Wallets(tab[t].body) \ tab[t].existing) <= history.highest
UnderCap ==
  \A u : u \notin history.overlapped => Cardinality(Group!Watched(u)) <= history.highest
GInv == GroupRows /\ TabsCarry /\ CountStands /\ UnderCap

\* The cardinality that the module of the groups counts with is the usual one.
LEMMA GroupCount == \A S : Group!Cardinality(S) = Cardinality(S)
BY DEF Group!Cardinality, Cardinality

LEMMA WatchedIsFinite == ASSUME GroupRows, NEW u PROVE IsFiniteSet(Group!Watched(u))
<1> DEFINE mine == {n \in DOMAIN members : n[1] \in Group!GroupsOf(u)}
           address == [m \in mine |-> m[3]]
<1>1. Group!Watched(u) = {address[m] : m \in mine}
  BY DEF Group!Watched
<1>2. IsFiniteSet(mine)
  BY FS_Subset DEF GroupRows
<1>3. address \in Surjection(mine, Group!Watched(u))
  BY <1>1 DEF Surjection
<1> HIDE DEF mine, address
<1> QED BY <1>2, <1>3, FS_Surjection

LEMMA WalletsAreFinite == ASSUME NEW body \in Bodies PROVE IsFiniteSet(Wallets(body))
<1> DEFINE address == [i \in body |-> i.wallet]
<1>1. IsFiniteSet(body)
  BY GroupAssumption
<1>2. address \in Surjection(body, Wallets(body))
  BY DEF Surjection, Wallets
<1> HIDE DEF address
<1> QED BY <1>1, <1>2, FS_Surjection

LEMMA CapIsNat == ASSUME NEW c, c \in Caps \cup {0} PROVE Group!MaxWallets(c) \in Nat
BY GroupAssumption DEF Group!MaxWallets

LEMMA NoMoreAdds ==
  ASSUME OneAdd, history.overlapped \subseteq history'.overlapped, \A s \in Tabs : Adding(s)' => Adding(s)
  PROVE  OneAdd'
<1> SUFFICES ASSUME NEW r \in Tabs, NEW s \in Tabs, Adding(r)', Adding(s)', Group!User(r) = Group!User(s),
                    Group!User(s) \notin history'.overlapped
             PROVE  r = s
  BY DEF OneAdd, Group!User
<1>1. Adding(r) /\ Adding(s) /\ Group!User(s) \notin history.overlapped
  OBVIOUS
<1> QED BY <1>1 DEF OneAdd

\* A request that is over or removes, and takes nobody a group or a member more,
\* leaves every count as good as it was.
LEMMA NoMoreWatched ==
  ASSUME GInv, GroupRows',
         NEW t \in Tabs, NEW q, TabFields(q), q.op \in {"idle", "remove"},
         tab' = tab \/ tab' = [tab EXCEPT ![t] = q],
         history' = history \/ history' = Group!Counted,
         \A g \in DOMAIN groups : g \in DOMAIN groups' /\ groups'[g].owner = groups[g].owner,
         \A u : Group!Watched(u)' \subseteq Group!Watched(u)
  PROVE  GInv'
<1>1. /\ DOMAIN history' = {"highest", "overlapped", "requests"}
      /\ history'.overlapped = history.overlapped /\ history'.highest = history.highest
  BY DEF GInv, CountStands, Group!Counted
<1>2. TabsCarry'
  BY DEF GInv, TabsCarry, TabFields, Adding
<1>3. \A s \in Tabs : tab'[s].op \in {"add", "insert"} => tab'[s] = tab[s]
  BY DEF GInv, TabsCarry
<1>4. CountStands'
  <2>1. OneAdd'
    BY <1>1, <1>3, NoMoreAdds DEF GInv, CountStands, Adding
  <2> QED BY <1>1, <1>3, <2>1 DEF GInv, CountStands, Adding, Wallets
<1>5. UnderCap'
  <2>1. ASSUME NEW u, u \notin history'.overlapped PROVE Cardinality(Group!Watched(u)') <= history'.highest
    <3>1. IsFiniteSet(Group!Watched(u))
      BY WatchedIsFinite DEF GInv
    <3>2. /\ Cardinality(Group!Watched(u)') <= Cardinality(Group!Watched(u))
          /\ IsFiniteSet(Group!Watched(u)')
      BY <3>1, FS_Subset
    <3>3. Cardinality(Group!Watched(u)) <= history.highest
      BY <1>1, <2>1 DEF GInv, UnderCap
    <3>4. Cardinality(Group!Watched(u)) \in Nat /\ Cardinality(Group!Watched(u)') \in Nat
      BY <3>1, <3>2, FS_CardinalityType
    <3> QED BY <1>1, <3>2, <3>3, <3>4 DEF GInv, CountStands
  <2> QED BY <2>1 DEF UnderCap
<1> QED BY <1>2, <1>4, <1>5 DEF GInv

LEMMA GroupsStart == Group!Init => GInv
<1> SUFFICES ASSUME Group!Init PROVE GInv
  OBVIOUS
<1>0. DOMAIN members = {} /\ DOMAIN groups = {}
  BY DEF Group!Init
<1>1. \A u : Group!Watched(u) = {}
  BY <1>0 DEF Group!Watched
<1>2. IsFiniteSet({}) /\ Cardinality({}) = 0
  BY FS_EmptySet
<1>3. \A t \in Tabs : tab[t] = Group!Quiet
  BY DEF Group!Init
<1>4. TabFields(Group!Quiet) /\ Group!Quiet.op = "idle"
  BY DEF Group!Quiet, TabFields
<1>5. DOMAIN history = {"highest", "overlapped", "requests"} /\ history.highest = 0
  BY DEF Group!Init
<1>6. GroupRows
  BY <1>0, <1>2 DEF GroupRows
<1>7. TabsCarry /\ CountStands
  <2>1. /\ TabsCarry /\ \A t \in Tabs : ~Adding(t) /\ tab[t].op # "insert"
    BY <1>3, <1>4 DEF Group!Init, TabsCarry, Adding
  <2> QED BY <1>5, <2>1 DEF CountStands, OneAdd, Adding
<1>8. UnderCap
  BY <1>1, <1>2, <1>5 DEF UnderCap
<1> QED BY <1>6, <1>7, <1>8 DEF GInv

LEMMA ReplyIsQuiet == ASSUME NEW response PROVE TabFields([Group!Quiet EXCEPT !.reply = response])
                                              /\ [Group!Quiet EXCEPT !.reply = response].op = "idle"
BY DEF TabFields, Group!Quiet

\* No member more, and no group of a user that had none.
LEMMA SameWatched ==
  ASSUME GroupRows, DOMAIN members' \subseteq DOMAIN members,
         \A g \in DOMAIN groups : /\ groups'[g].owner = groups[g].owner
                                  /\ groups'[g].deleted \/ ~groups[g].deleted
                                  /\ groups'[g].deleted = FALSE => ~groups[g].deleted
  PROVE  \A u : Group!Watched(u)' \subseteq Group!Watched(u)
BY DEF GroupRows, Group!Watched, Group!GroupsOf, Group!Live

LEMMA CreateStep == ASSUME GInv, NEW t \in Tabs, Group!Create(t) PROVE GInv'
<1>1. PICK name \in Names :
        /\ GroupIds \ DOMAIN groups # {} /\ members' = members
        /\ \/ Group!Once(t, Group!RespondError("GROUP_DUPLICATE")) /\ groups' = groups
           \/ /\ Group!Once(t, Group!RespondCreated)
              /\ groups' = Group!InsertGroup(CHOOSE g \in GroupIds \ DOMAIN groups : TRUE,
                                             [owner |-> Group!User(t), name |-> name, deleted |-> FALSE])
  BY DEF Group!Create
<1>2. PICK response : Group!Once(t, response)
  BY <1>1
<1> DEFINE q == [Group!Quiet EXCEPT !.reply = response]
           row == [owner |-> Group!User(t), name |-> name, deleted |-> FALSE]
<1>3. /\ TabFields(q) /\ q.op = "idle" /\ tab' = [tab EXCEPT ![t] = q] /\ history' = Group!Counted
  BY <1>2, ReplyIsQuiet DEF Group!Once, Group!Reply
<1>4. CASE groups' = groups
  <2>1. GroupRows' /\ \A u : Group!Watched(u)' \subseteq Group!Watched(u)
    BY <1>1, <1>4, SameWatched DEF GInv, GroupRows, Group!Watched, Group!GroupsOf, Group!Live
  <2> HIDE DEF q
  <2> QED BY <1>3, <1>4, <2>1, NoMoreWatched
<1>5. CASE groups' = Group!InsertGroup(CHOOSE g \in GroupIds \ DOMAIN groups : TRUE, row)
  <2>1. PICK g \in GroupIds \ DOMAIN groups : groups' = Group!InsertGroup(g, row)
    BY <1>1, <1>5
  <2>2. DOMAIN row = {"owner", "name", "deleted"}
    OBVIOUS
  <2> HIDE DEF row
  <2>3. /\ DOMAIN groups' = DOMAIN groups \cup {g} /\ groups'[g] = row
        /\ \A h \in DOMAIN groups : groups'[h] = groups[h]
    BY <2>1 DEF Group!InsertGroup
  <2>4. GroupRows'
    BY <1>1, <2>1, <2>2, <2>3 DEF GInv, GroupRows
  <2>5. \A u : Group!Watched(u)' \subseteq Group!Watched(u)
    BY <1>1, <2>1, <2>3 DEF GInv, GroupRows, Group!Watched, Group!GroupsOf, Group!Live
  <2> HIDE DEF q
  <2> QED BY <1>3, <2>3, <2>4, <2>5, NoMoreWatched
<1> QED BY <1>1, <1>4, <1>5

LEMMA UpdateStep == ASSUME GInv, NEW t \in Tabs, Group!Update(t) PROVE GInv'
<1>1. PICK g, name, response :
        /\ members' = members /\ Group!Once(t, response)
        /\ groups' = groups \/ groups' = [groups EXCEPT ![g].name = name]
  BY DEF Group!Update
<1> DEFINE q == [Group!Quiet EXCEPT !.reply = response]
<1>2. /\ TabFields(q) /\ q.op = "idle" /\ tab' = [tab EXCEPT ![t] = q] /\ history' = Group!Counted
  BY <1>1, ReplyIsQuiet DEF Group!Once, Group!Reply
<1>3. /\ DOMAIN groups' = DOMAIN groups
      /\ \A h \in DOMAIN groups : /\ groups'[h].owner = groups[h].owner
                                  /\ groups'[h].deleted = groups[h].deleted
                                  /\ DOMAIN groups'[h] = DOMAIN groups[h]
  BY <1>1 DEF GInv, GroupRows
<1>4. GroupRows' /\ \A u : Group!Watched(u)' \subseteq Group!Watched(u)
  BY <1>1, <1>3 DEF GInv, GroupRows, Group!Watched, Group!GroupsOf, Group!Live
<1> HIDE DEF q
<1> QED BY <1>2, <1>3, <1>4, NoMoreWatched

LEMMA DeleteStep == ASSUME GInv, NEW t \in Tabs, Group!Delete(t) PROVE GInv'
<1>1. PICK g, response :
        /\ Group!Once(t, response)
        /\ \/ groups' = groups /\ members' = members
           \/ /\ groups' = [groups EXCEPT ![g].deleted = TRUE]
              /\ members' = [m \in DOMAIN members \ Group!ListMembers(g) |-> members[m]]
  BY DEF Group!Delete
<1> DEFINE q == [Group!Quiet EXCEPT !.reply = response]
<1>2. /\ TabFields(q) /\ q.op = "idle" /\ tab' = [tab EXCEPT ![t] = q] /\ history' = Group!Counted
  BY <1>1, ReplyIsQuiet DEF Group!Once, Group!Reply
<1>3. CASE groups' = groups /\ members' = members
  <2>1. GroupRows' /\ \A u : Group!Watched(u)' \subseteq Group!Watched(u)
    BY <1>3 DEF GInv, GroupRows, Group!Watched, Group!GroupsOf, Group!Live
  <2> HIDE DEF q
  <2> QED BY <1>2, <1>3, <2>1, NoMoreWatched
<1>4. CASE /\ groups' = [groups EXCEPT ![g].deleted = TRUE]
           /\ members' = [m \in DOMAIN members \ Group!ListMembers(g) |-> members[m]]
  <2>1. /\ DOMAIN groups' = DOMAIN groups
        /\ \A h \in DOMAIN groups : /\ groups'[h].owner = groups[h].owner
                                    /\ h # g => groups'[h].deleted = groups[h].deleted
                                    /\ h = g => groups'[h].deleted
                                    /\ DOMAIN groups'[h] = DOMAIN groups[h]
    BY <1>4 DEF GInv, GroupRows
  <2>2. DOMAIN members' \subseteq DOMAIN members /\ \A m \in DOMAIN members' : m[1] # g
    BY <1>4 DEF Group!ListMembers
  <2>3. IsFiniteSet(DOMAIN members')
    BY <2>2, FS_Subset DEF GInv, GroupRows
  <2>4. GroupRows'
    BY <2>1, <2>2, <2>3 DEF GInv, GroupRows
  <2>5. \A u : Group!Watched(u)' \subseteq Group!Watched(u)
    BY <2>1, <2>2 DEF GInv, GroupRows, Group!Watched, Group!GroupsOf, Group!Live
  <2> HIDE DEF q
  <2> QED BY <1>2, <2>1, <2>4, <2>5, NoMoreWatched
<1> QED BY <1>1, <1>3, <1>4

\* The request reads: no group and no member changes.
LEMMA QuietTabStep ==
  ASSUME GInv, NEW t \in Tabs, NEW q, TabFields(q), q.op \in {"idle", "remove"},
         groups' = groups, DOMAIN members' \subseteq DOMAIN members,
         tab' = [tab EXCEPT ![t] = q] \/ tab' = tab, history' = history \/ history' = Group!Counted
  PROVE  GInv'
<1>1. GroupRows'
  BY FS_Subset DEF GInv, GroupRows
<1>2. \A u : Group!Watched(u)' \subseteq Group!Watched(u)
  BY DEF Group!Watched, Group!GroupsOf, Group!Live
<1> QED BY <1>1, <1>2, NoMoreWatched

LEMMA ReadGroupsStep == ASSUME GInv, NEW t \in Tabs, Group!List(t) \/ Group!Get(t) \/ Group!UpdateMembers(t) PROVE GInv'
<1>1. PICK response : Group!Once(t, response) /\ groups' = groups /\ DOMAIN members' = DOMAIN members
  <2>1. CASE Group!List(t)
    BY <2>1 DEF Group!List
  <2>2. CASE Group!Get(t)
    BY <2>2 DEF Group!Get
  <2>3. CASE Group!UpdateMembers(t)
    BY <2>3 DEF Group!UpdateMembers
  <2> QED BY <2>1, <2>2, <2>3
<1> DEFINE q == [Group!Quiet EXCEPT !.reply = response]
<1>2. /\ TabFields(q) /\ q.op = "idle" /\ tab' = [tab EXCEPT ![t] = q] /\ history' = Group!Counted
  BY <1>1, ReplyIsQuiet DEF Group!Once, Group!Reply
<1> HIDE DEF q
<1> QED BY <1>1, <1>2, QuietTabStep

LEMMA RemoveStep ==
  ASSUME GInv, NEW t \in Tabs, Group!RemoveMembers(t) \/ Group!RemoveVenue(t) PROVE GInv'
<1>1. PICK q : /\ TabFields(q) /\ q.op \in {"idle", "remove"}
               /\ tab' = [tab EXCEPT ![t] = q] /\ (history' = history \/ history' = Group!Counted)
  <2>1. CASE Group!RemoveMembers(t)
    <3>1. PICK g \in GroupIds, body \in Bodies :
            /\ tab' = [tab EXCEPT ![t] = [op |-> "remove", group |-> g, body |-> body, reply |-> Group!NoResponse]]
            /\ history' = Group!Counted
      BY <2>1 DEF Group!RemoveMembers
    <3> DEFINE q == [op |-> "remove", group |-> g, body |-> body, reply |-> Group!NoResponse]
    <3>2. TabFields(q) /\ q.op = "remove"
      BY DEF TabFields
    <3> HIDE DEF q
    <3> QED BY <3>1, <3>2 DEF q
  <2>2. CASE Group!RemoveVenue(t)
    <3>1. PICK i, left :
            /\ i \in tab[t].body
            /\ \/ \E response : Group!Reply(t, response)
               \/ tab' = [tab EXCEPT ![t].body = left]
      BY <2>2 DEF Group!RemoveVenue
    <3>2. tab[t].op = "remove" /\ TabFields(tab[t]) /\ history' = history
      BY <2>2 DEF GInv, TabsCarry, Group!RemoveVenue
    <3>3. CASE tab' = [tab EXCEPT ![t].body = left]
      <4> DEFINE q == [tab[t] EXCEPT !.body = left]
      <4>1. tab' = [tab EXCEPT ![t] = q] /\ q.op = "remove" /\ TabFields(q)
        BY <3>2, <3>3 DEF TabFields
      <4> HIDE DEF q
      <4> QED BY <3>2, <4>1
    <3>4. ASSUME NEW response, Group!Reply(t, response)
          PROVE  \E q : /\ TabFields(q) /\ q.op \in {"idle", "remove"}
                        /\ tab' = [tab EXCEPT ![t] = q] /\ (history' = history \/ history' = Group!Counted)
      <4> DEFINE q == [Group!Quiet EXCEPT !.reply = response]
      <4>1. tab' = [tab EXCEPT ![t] = q] /\ q.op = "idle" /\ TabFields(q)
        BY <3>4, ReplyIsQuiet DEF Group!Reply
      <4> HIDE DEF q
      <4> QED BY <3>2, <4>1
    <3> QED BY <3>1, <3>3, <3>4
  <2> QED BY <2>1, <2>2
<1>2. groups' = groups /\ DOMAIN members' \subseteq DOMAIN members
  BY DEF Group!RemoveMembers, Group!RemoveVenue
<1> QED BY <1>1, <1>2, QuietTabStep

LEMMA AddStep == ASSUME GInv, NEW t \in Tabs, NEW g \in GroupIds, NEW body \in Bodies, Group!AddMembers(t, g, body)
                 PROVE GInv'
<1>1. /\ groups' = groups /\ members' = members /\ tab[t].op = "idle"
  BY DEF Group!AddMembers, Group!Request
<1>2. CASE Group!RequireOwner(g, Group!User(t)) # Group!OK
  <2> DEFINE q == [Group!Quiet EXCEPT !.reply = Group!RespondError(Group!RequireOwner(g, Group!User(t)))]
  <2>1. /\ TabFields(q) /\ q.op = "idle" /\ tab' = [tab EXCEPT ![t] = q] /\ history' = Group!Counted
    BY <1>2, ReplyIsQuiet DEF Group!AddMembers, Group!Reply
  <2> HIDE DEF q
  <2> QED BY <1>1, <2>1, QuietTabStep
<1>3. CASE Group!RequireOwner(g, Group!User(t)) = Group!OK
  <2> DEFINE q == [op |-> "add", group |-> g, body |-> body, existing |-> Group!Watched(Group!User(t)),
                   reply |-> Group!NoResponse]
             twice == {Group!User(t) : s \in {s \in Tabs : Group!User(s) = Group!User(t) /\ tab[s].op \in {"add", "insert"}}}
  <2>1. g \in DOMAIN groups /\ groups[g].owner = Group!User(t)
    BY <1>3 DEF Group!RequireOwner, Group!Live, Group!OK
  <2>2. tab' = [tab EXCEPT ![t] = q] /\ history' = [Group!Counted EXCEPT !.overlapped = @ \cup twice]
    BY <1>3 DEF Group!AddMembers
  <2>3. /\ DOMAIN q = {"op", "group", "body", "existing", "reply"} /\ q.op = "add" /\ q.group = g /\ q.body = body
        /\ q.existing = Group!Watched(Group!User(t))
    OBVIOUS
  <2>4. /\ DOMAIN history' = {"highest", "overlapped", "requests"} /\ history'.highest = history.highest
        /\ history'.overlapped = history.overlapped \cup twice
    BY <2>2 DEF GInv, CountStands, Group!Counted
  <2>5. \A s \in Tabs : Adding(s) /\ Group!User(s) = Group!User(t) => Group!User(t) \in twice
    BY DEF Adding
  <2> HIDE DEF q, twice
  <2>6. tab'[t] = q /\ DOMAIN tab' = Tabs /\ \A s \in Tabs : s # t => tab'[s] = tab[s]
    BY <2>2 DEF GInv, TabsCarry
  <2>7. \A u : Group!Watched(u)' = Group!Watched(u)
    BY <1>1 DEF Group!Watched, Group!GroupsOf, Group!Live
  <2>8. GroupRows'
    BY <1>1 DEF GInv, GroupRows
  <2>9. IsFiniteSet(q.existing) /\ TabFields(q)
    BY <2>3, WatchedIsFinite DEF GInv, TabFields
  <2>10. TabsCarry'
    BY <1>1, <2>1, <2>3, <2>6, <2>9 DEF GInv, TabsCarry, Adding
  <2>11. CountStands'
    <3>1. OneAdd'
      <4>1. \A s \in Tabs : s # t => Adding(s)' = Adding(s)
        BY <2>6 DEF Adding
      <4>2. \A s \in Tabs : Adding(s) /\ Group!User(s) = Group!User(t)
                            => Group!User(s) \in history'.overlapped
        BY <2>4, <2>5
      <4>3. OneAdd /\ history.overlapped \subseteq history'.overlapped
        BY <2>4 DEF GInv, CountStands
      <4> SUFFICES ASSUME NEW r \in Tabs, NEW s \in Tabs, Adding(r)', Adding(s)', Group!User(r) = Group!User(s),
                          Group!User(s) \notin history'.overlapped
                   PROVE  r = s
        BY DEF OneAdd, Group!User
      <4>4. Group!User(s) \notin history.overlapped
        BY <4>3
      <4> QED BY <4>1, <4>2, <4>3, <4>4 DEF OneAdd
    <3>2. \A s \in Tabs : Adding(s)' /\ Group!User(s) \notin history'.overlapped
                          => Group!Watched(Group!User(s))' \subseteq tab'[s].existing
      BY <2>3, <2>4, <2>6, <2>7 DEF GInv, CountStands, Adding
    <3>3. \A s \in Tabs : tab'[s].op = "insert" => s # t
      BY <2>3, <2>6
    <3>4. \A s \in Tabs : tab'[s].op = "insert" =>
            Cardinality(tab'[s].existing) + Cardinality(Wallets(tab'[s].body) \ tab'[s].existing) <= history'.highest
      BY <2>4, <2>6, <3>3 DEF GInv, CountStands
    <3> QED BY <2>4, <3>1, <3>2, <3>4 DEF GInv, CountStands, Wallets
  <2>12. UnderCap'
    BY <2>4, <2>7 DEF GInv, UnderCap
  <2> QED BY <2>8, <2>10, <2>11, <2>12 DEF GInv
<1> QED BY <1>2, <1>3

LEMMA CheckCapStep == ASSUME GInv, cap \in Caps \cup {0}, NEW t \in Tabs, Group!CheckCap(t) PROVE GInv'
<1>1. /\ groups' = groups /\ members' = members /\ tab[t].op = "add"
      /\ history' = [history EXCEPT !.highest =
                       IF Group!MaxWallets(cap) > @ THEN Group!MaxWallets(cap) ELSE @]
  BY DEF Group!CheckCap
<1>2. Group!MaxWallets(cap) \in Nat
  BY CapIsNat
<1>3. /\ DOMAIN history' = {"highest", "overlapped", "requests"} /\ history'.overlapped = history.overlapped
      /\ history'.highest \in Nat /\ history.highest \in Nat /\ history'.highest >= history.highest
      /\ history'.highest >= Group!MaxWallets(cap)
  BY <1>1, <1>2 DEF GInv, CountStands
<1>4. \A u : Group!Watched(u)' = Group!Watched(u)
  BY <1>1 DEF Group!Watched, Group!GroupsOf, Group!Live
<1>5. GroupRows'
  BY <1>1 DEF GInv, GroupRows
<1>6. UnderCap'
  <2>1. ASSUME NEW u, u \notin history.overlapped
        PROVE  Cardinality(Group!Watched(u)) <= history'.highest
    <3>1. Cardinality(Group!Watched(u)) \in Nat /\ Cardinality(Group!Watched(u)) <= history.highest
      BY <2>1, WatchedIsFinite, FS_CardinalityType DEF GInv, UnderCap
    <3> QED BY <1>3, <3>1
  <2> QED BY <1>3, <1>4, <2>1 DEF UnderCap
\* The counts of the inserts are bounded by what was the highest cap before.
<1>7. \A s \in Tabs : tab[s].op = "insert" =>
        Cardinality(tab[s].existing) + Cardinality(Wallets(tab[s].body) \ tab[s].existing) <= history'.highest
  <2>1. ASSUME NEW s \in Tabs, tab[s].op = "insert"
        PROVE  Cardinality(tab[s].existing) + Cardinality(Wallets(tab[s].body) \ tab[s].existing) <= history'.highest
    <3>1. IsFiniteSet(tab[s].existing) /\ IsFiniteSet(Wallets(tab[s].body) \ tab[s].existing)
      BY <2>1, WalletsAreFinite, FS_Difference DEF GInv, TabsCarry, Adding
    <3>2. Cardinality(tab[s].existing) \in Nat /\ Cardinality(Wallets(tab[s].body) \ tab[s].existing) \in Nat
      BY <3>1, FS_CardinalityType
    <3>3. Cardinality(tab[s].existing) + Cardinality(Wallets(tab[s].body) \ tab[s].existing) <= history.highest
      BY <2>1 DEF GInv, CountStands
    <3> QED BY <1>3, <3>2, <3>3
  <2> QED BY <2>1
<1>8. CASE Group!Fits(t)
  <2>1. tab' = [tab EXCEPT ![t].op = "insert"]
    BY <1>8 DEF Group!CheckCap
  <2>2. /\ DOMAIN tab' = Tabs /\ \A s \in Tabs : s # t => tab'[s] = tab[s]
        /\ DOMAIN tab'[t] = {"op", "group", "body", "existing", "reply"} /\ tab'[t].op = "insert"
        /\ tab'[t].group = tab[t].group /\ tab'[t].body = tab[t].body /\ tab'[t].existing = tab[t].existing
    BY <1>1, <2>1 DEF GInv, TabsCarry, TabFields
  <2>3. \A s \in Tabs : Adding(s)' = Adding(s) /\ (Adding(s) => tab'[s].existing = tab[s].existing)
    BY <1>1, <2>2 DEF Adding
  <2>4. TabsCarry'
    BY <1>1, <2>2, <2>3 DEF GInv, TabsCarry, TabFields, Adding
  <2>5. Cardinality(tab[t].existing) + Cardinality(Wallets(tab[t].body) \ tab[t].existing) <= history'.highest
    <3>1. IsFiniteSet(tab[t].existing) /\ IsFiniteSet(Wallets(tab[t].body) \ tab[t].existing)
      BY <1>1, WalletsAreFinite, FS_Difference DEF GInv, TabsCarry, Adding
    <3>2. Cardinality(tab[t].existing) \in Nat /\ Cardinality(Wallets(tab[t].body) \ tab[t].existing) \in Nat
      BY <3>1, FS_CardinalityType
    <3>3. Cardinality(tab[t].existing) + Cardinality(Wallets(tab[t].body) \ tab[t].existing) <= Group!MaxWallets(cap)
      BY <1>8, GroupCount DEF Group!Fits, Wallets
    <3> QED BY <1>2, <1>3, <3>2, <3>3
  <2>6. CountStands'
    <3>1. \A s \in Tabs : tab'[s].op = "insert" =>
            Cardinality(tab'[s].existing) + Cardinality(Wallets(tab'[s].body) \ tab'[s].existing) <= history'.highest
      BY <1>7, <2>2, <2>5
    <3>2. OneAdd'
      BY <1>3, <2>3, NoMoreAdds DEF GInv, CountStands
    <3>3. \A s \in Tabs : Adding(s)' /\ Group!User(s) \notin history'.overlapped
                          => Group!Watched(Group!User(s))' \subseteq tab'[s].existing
      BY <1>3, <1>4, <2>3 DEF GInv, CountStands
    <3> QED BY <1>3, <3>1, <3>2, <3>3 DEF CountStands, Wallets
  <2> QED BY <1>5, <1>6, <2>4, <2>6 DEF GInv
<1>9. CASE ~Group!Fits(t)
  <2> DEFINE q == [Group!Quiet EXCEPT !.reply = Group!RespondError("TELEGRAM_CAP")]
  <2>1. tab' = [tab EXCEPT ![t] = q] /\ q.op = "idle" /\ TabFields(q)
    BY <1>9, ReplyIsQuiet DEF Group!CheckCap, Group!Reply
  <2> HIDE DEF q
  <2>2. /\ DOMAIN tab' = Tabs /\ tab'[t] = q /\ \A s \in Tabs : s # t => tab'[s] = tab[s]
    BY <2>1 DEF GInv, TabsCarry
  <2>3. TabsCarry'
    BY <1>1, <2>1, <2>2 DEF GInv, TabsCarry, TabFields, Adding
  <2>4. \A s \in Tabs : Adding(s)' => s # t
    BY <2>1, <2>2 DEF Adding
  <2>5. CountStands'
    <3>1. OneAdd'
      BY <1>3, <2>2, <2>4, NoMoreAdds DEF GInv, CountStands, Adding
    <3> QED BY <1>3, <1>4, <1>7, <2>2, <2>4, <3>1 DEF GInv, CountStands, Adding, Wallets
  <2> QED BY <1>5, <1>6, <2>3, <2>5 DEF GInv
<1> QED BY <1>8, <1>9

LEMMA AddInsertStep == ASSUME GInv, NEW t \in Tabs, Group!AddInsert(t) PROVE GInv'
<1>1. PICK response : tab' = [tab EXCEPT ![t] = [Group!Quiet EXCEPT !.reply = response]]
  BY DEF Group!AddInsert, Group!Reply
<1> DEFINE q == [Group!Quiet EXCEPT !.reply = response]
           new == {<<tab[t].group, i.venue, i.wallet>> : i \in tab[t].body}
<1>2. /\ TabFields(q) /\ q.op = "idle" /\ tab' = [tab EXCEPT ![t] = q]
      /\ groups' = groups /\ history' = history /\ tab[t].op = "insert"
  BY <1>1, ReplyIsQuiet DEF Group!AddInsert
<1>3. CASE members' = members
  <2> HIDE DEF q
  <2> QED BY <1>2, <1>3, QuietTabStep
<1>4. CASE Group!Live(tab[t].group) /\ members' = Group!InsertMembers(new)
  <2> HIDE DEF q
  <2>1. DOMAIN members' = DOMAIN members \cup new
    BY <1>4 DEF Group!InsertMembers
  <2>2. \A m \in new : m[1] = tab[t].group /\ m[3] \in Wallets(tab[t].body)
    BY DEF Wallets
  <2>3. /\ tab[t].group \in DOMAIN groups /\ groups[tab[t].group].owner = Group!User(t) /\ tab[t].body \in Bodies
        /\ IsFiniteSet(tab[t].existing)
    BY <1>2 DEF GInv, TabsCarry, Adding
  <2>4. IsFiniteSet(new)
    <3> DEFINE row == [i \in tab[t].body |-> <<tab[t].group, i.venue, i.wallet>>]
    <3>1. IsFiniteSet(tab[t].body)
      BY <2>3, GroupAssumption
    <3>2. row \in Surjection(tab[t].body, new)
      BY DEF Surjection
    <3> HIDE DEF row, new
    <3> QED BY <3>1, <3>2, FS_Surjection
  <2> HIDE DEF new
  <2>5. GroupRows'
    <3>1. IsFiniteSet(DOMAIN members')
      <4>1. IsFiniteSet(DOMAIN members)
        BY DEF GInv, GroupRows
      <4> QED BY <2>1, <2>4, <4>1, FS_Union
    <3> QED BY <1>2, <1>4, <2>1, <2>2, <2>3, <3>1 DEF GInv, GroupRows, Group!Live
  <2>6. \A u : u # Group!User(t) => Group!Watched(u)' \subseteq Group!Watched(u)
    BY <1>2, <2>1, <2>2, <2>3 DEF Group!Watched, Group!GroupsOf, Group!Live
  <2>7. Group!Watched(Group!User(t))' \subseteq Group!Watched(Group!User(t)) \cup Wallets(tab[t].body)
    BY <1>2, <2>1, <2>2, <2>3 DEF Group!Watched, Group!GroupsOf, Group!Live, Group!User
  <2>8. DOMAIN tab' = Tabs /\ tab'[t] = q /\ \A s \in Tabs : s # t => tab'[s] = tab[s]
    BY <1>2 DEF GInv, TabsCarry
  <2>9. TabsCarry'
    BY <1>2, <2>8 DEF GInv, TabsCarry, Adding
  <2>10. \A s \in Tabs : Adding(s)' => s # t /\ Adding(s)
    BY <1>2, <2>8 DEF Adding
  <2>11. CountStands'
    <3>1. \A s \in Tabs : Adding(s)' /\ Group!User(s) \notin history.overlapped
                          => Group!Watched(Group!User(s))' \subseteq tab[s].existing
      <4>1. \A s \in Tabs : Adding(s)' /\ Group!User(s) \notin history.overlapped => Group!User(s) # Group!User(t)
        BY <1>2, <2>10 DEF GInv, CountStands, OneAdd, Adding
      <4> QED BY <2>6, <2>10, <4>1 DEF GInv, CountStands
    <3>2. \A s \in Tabs : Adding(s)' => tab'[s] = tab[s]
      BY <2>8, <2>10
    <3>3. OneAdd'
      BY <1>2, <2>10, NoMoreAdds DEF GInv, CountStands
    <3>4. \A s \in Tabs : tab'[s].op = "insert" => Adding(s)'
      BY DEF Adding
    <3> QED BY <1>2, <3>1, <3>2, <3>3, <3>4 DEF GInv, CountStands, Wallets
  <2>12. UnderCap'
    <3>1. ASSUME NEW u, u \notin history.overlapped PROVE Cardinality(Group!Watched(u)') <= history.highest
      <4>1. CASE u # Group!User(t)
        <5>1. IsFiniteSet(Group!Watched(u)) /\ Group!Watched(u)' \subseteq Group!Watched(u)
          BY <2>6, <4>1, WatchedIsFinite DEF GInv
        <5>2. IsFiniteSet(Group!Watched(u)') /\ Cardinality(Group!Watched(u)') <= Cardinality(Group!Watched(u))
          BY <5>1, FS_Subset
        <5>3. Cardinality(Group!Watched(u)') \in Nat /\ Cardinality(Group!Watched(u)) \in Nat
          BY <5>1, <5>2, FS_CardinalityType
        <5>4. Cardinality(Group!Watched(u)) <= history.highest /\ history.highest \in Nat
          BY <3>1 DEF GInv, UnderCap, CountStands
        <5> QED BY <5>2, <5>3, <5>4
      <4>2. CASE u = Group!User(t)
        <5> DEFINE counted == tab[t].existing
                   more == Wallets(tab[t].body) \ counted
        <5>1. IsFiniteSet(counted) /\ IsFiniteSet(more)
          BY <2>3, WalletsAreFinite, FS_Difference
        <5>2. Cardinality(counted) + Cardinality(more) <= history.highest /\ history.highest \in Nat
          BY <1>2 DEF GInv, CountStands
        <5>3. Group!Watched(u)' \subseteq counted \cup more
          <6>1. Group!Watched(u) \subseteq counted
            BY <1>2, <3>1, <4>2 DEF GInv, CountStands, Adding
          <6> QED BY <2>7, <4>2, <6>1
        <5> HIDE DEF counted, more
        <5>4. /\ IsFiniteSet(counted \cup more) /\ Cardinality(counted \cap more) \in Nat
              /\ Cardinality(counted \cup more) =
                   Cardinality(counted) + Cardinality(more) - Cardinality(counted \cap more)
          BY <5>1, FS_Union, FS_Intersection, FS_CardinalityType
        <5>5. IsFiniteSet(Group!Watched(u)') /\ Cardinality(Group!Watched(u)') <= Cardinality(counted \cup more)
          BY <5>3, <5>4, FS_Subset
        <5>6. /\ Cardinality(Group!Watched(u)') \in Nat /\ Cardinality(counted) \in Nat
              /\ Cardinality(more) \in Nat
          BY <5>1, <5>5, FS_CardinalityType
        <5> QED BY <5>2, <5>4, <5>5, <5>6
      <4> QED BY <4>1, <4>2
    <3> QED BY <1>2, <3>1 DEF UnderCap
  <2> QED BY <2>5, <2>9, <2>11, <2>12 DEF GInv
<1>5. members' = members \/ (Group!Live(tab[t].group) /\ members' = Group!InsertMembers(new))
  BY DEF Group!AddInsert, Group!OK
<1> QED BY <1>3, <1>4, <1>5

LEMMA GroupsStep == ASSUME GInv, cap \in Caps \cup {0}, [Group!Next]_(Group!groupVars)
                    PROVE GInv' /\ cap' \in Caps \cup {0}
<1>1. CASE Group!SetCap
  <2>1. /\ groups' = groups /\ members' = members /\ tab' = tab /\ history' = history /\ cap' \in Caps
    BY <1>1 DEF Group!SetCap
  <2> QED BY <2>1 DEF GInv, GroupRows, TabsCarry, CountStands, OneAdd, UnderCap, Adding, Group!Watched, Group!GroupsOf, Group!Live
<1>2. CASE UNCHANGED Group!groupVars
  BY <1>2 DEF Group!groupVars, GInv, GroupRows, TabsCarry, CountStands, OneAdd, UnderCap, Adding,
              Group!Watched, Group!GroupsOf, Group!Live
<1>3. ASSUME NEW t \in Tabs,
             \/ Group!Create(t) \/ Group!List(t) \/ Group!Get(t) \/ Group!Update(t) \/ Group!Delete(t)
             \/ \E g \in GroupIds, body \in Bodies : Group!AddMembers(t, g, body)
             \/ Group!CheckCap(t) \/ Group!AddInsert(t) \/ Group!RemoveMembers(t) \/ Group!RemoveVenue(t)
             \/ Group!UpdateMembers(t)
      PROVE  GInv' /\ cap' = cap
  <2>1. cap' = cap
    BY <1>3 DEF Group!Create, Group!List, Group!Get, Group!Update, Group!Delete, Group!AddMembers, Group!CheckCap,
                Group!AddInsert, Group!RemoveMembers, Group!RemoveVenue, Group!UpdateMembers
  <2> QED BY <1>3, <2>1, CreateStep, ReadGroupsStep, UpdateStep, DeleteStep, AddStep, CheckCapStep,
             AddInsertStep, RemoveStep
<1> QED BY <1>1, <1>2, <1>3 DEF Group!Next

\* The cap holds for every number of tabs, groups and wallets.
THEOREM WatchedIsCapped == Group!Spec => []CapHolds
<1>1. Group!Init => GInv /\ cap \in Caps \cup {0}
  BY GroupsStart DEF Group!Init
<1>2. GInv /\ cap \in Caps \cup {0} /\ [Group!Next]_(Group!groupVars) => GInv' /\ (cap \in Caps \cup {0})'
  BY GroupsStep
<1>3. GInv => CapHolds
  <2>1. GInv => \A u \in {Group!User(t) : t \in Tabs} \ history.overlapped :
                  Cardinality(Group!Watched(u)) <= history.highest
    BY DEF GInv, UnderCap
  <2> QED BY <2>1, GroupCount DEF CapHolds, Group!CapHolds
<1> QED BY <1>1, <1>2, <1>3, PTL DEF Group!Spec

---------------------------------------------------------------------------
(* The login limiter.                                                      *)

\* A request in flight read the clock no longer than Delay ago; what passed is over.
Times ==
  /\ now \in Nat /\ orphaned \in BOOLEAN /\ DOMAIN held = Requests
  /\ \A r \in Requests :
       /\ DOMAIN held[r] = {"at", "now", "bucket"} /\ held[r].at \in {"none", "lookup", "count", "done"}
       /\ held[r].now \in Int
       /\ Limiter!InFlight(r) => now - Delay <= held[r].now /\ held[r].now <= now
  /\ IsFiniteSet(DOMAIN passed)
  /\ \A r \in DOMAIN passed : /\ r \in Requests /\ held[r].at = "done"
                              /\ passed[r] \in Int /\ passed[r] <= now
Bucket(b) == DOMAIN b = {"count", "resetAt"} /\ b.count \in Nat /\ b.count <= Limit /\ b.resetAt \in Int

\* A request counts in the bucket of the map.
Buckets ==
  /\ IsFiniteSet(DOMAIN buckets)
  /\ entry # 0 => entry \in DOMAIN buckets /\ Bucket(buckets[entry])
  /\ \A r \in Requests : held[r].at = "count" => entry # 0 /\ held[r].bucket = entry

\* The window that began at e, or up to Delay before: it counted C, the window
\* before it counted P, and all that passed earlier is a window back.
Current(e, C, P) ==
  /\ e \in Int /\ e <= now /\ C \in SUBSET DOMAIN passed /\ P \in SUBSET DOMAIN passed
  /\ buckets[entry].resetAt - Window <= e /\ e <= buckets[entry].resetAt - Window + Delay
  /\ Cardinality(C) <= buckets[entry].count /\ Cardinality(P) <= Limit
  /\ \A r \in DOMAIN passed \ C : passed[r] <= e
  /\ \A r \in DOMAIN passed \ (C \cup P) : passed[r] < e - Window + Delay
Vacant(C) ==
  /\ C \in SUBSET DOMAIN passed /\ Cardinality(C) <= Limit
  /\ \A r \in DOMAIN passed \ C : passed[r] < now - Window + Delay
Windows == IF entry = 0 THEN \E C : Vacant(C) ELSE \E e, C, P : Current(e, C, P)

Span(t) == {r \in DOMAIN passed : t <= passed[r] /\ passed[r] <= t + Window - 2 * Delay}
Spans == \A t \in Int : Cardinality(Span(t)) <= 2 * Limit
LInv == Times /\ (~orphaned => Buckets /\ Windows /\ Spans)

LEMMA LimiterStart == Limiter!Init => LInv
<1> SUFFICES ASSUME Limiter!Init PROVE LInv
  OBVIOUS
<1>0. DOMAIN passed = {} /\ DOMAIN buckets = {} /\ now = 0 /\ entry = 0 /\ orphaned = FALSE
  BY DEF Limiter!Init
<1>1. IsFiniteSet({}) /\ Cardinality({}) = 0
  BY FS_EmptySet
<1>2. /\ DOMAIN held = Requests
      /\ \A r \in Requests : /\ DOMAIN held[r] = {"at", "now", "bucket"} /\ held[r].at = "none" /\ held[r].now = 0
  BY DEF Limiter!Init
<1>3. Times
  <2>1. IsFiniteSet(DOMAIN passed)
    BY <1>0, <1>1
  <2>2. now \in Nat /\ orphaned \in BOOLEAN /\ \A r \in Requests : ~Limiter!InFlight(r)
    BY <1>0, <1>2 DEF Limiter!InFlight
  <2> QED BY <1>0, <1>2, <2>1, <2>2 DEF Times
<1>6. Buckets
  BY <1>0, <1>1, <1>2 DEF Buckets
<1>4. Vacant({})
  BY <1>0, <1>1, LimiterAssumption DEF Vacant
<1>5. Spans
  <2>1. \A t : Span(t) = {}
    BY <1>0 DEF Span
  <2> QED BY <1>1, <2>1, LimiterAssumption DEF Spans
<1> QED BY <1>0, <1>3, <1>4, <1>5, <1>6 DEF LInv, Windows

\* What has passed does not change, and neither does the map.
LEMMA SameWindows ==
  ASSUME LInv, Times', orphaned' = orphaned, Buckets \/ orphaned => Buckets' \/ orphaned,
         passed' = passed, entry' = entry, entry # 0 => buckets'[entry] = buckets[entry],
         now' >= now
  PROVE  LInv'
<1> SUFFICES ASSUME ~orphaned PROVE Buckets' /\ Windows' /\ Spans'
  BY DEF LInv
<1>1. Buckets /\ Windows /\ Spans /\ now \in Nat /\ now' \in Nat
  BY DEF LInv, Times
<1>2. Spans'
  BY <1>1 DEF Spans, Span
<1>3. CASE entry = 0
  <2>1. PICK C : Vacant(C)
    BY <1>1, <1>3 DEF Windows
  <2>2. \A r \in DOMAIN passed : passed[r] \in Int
    BY DEF LInv, Times
  <2>3. Vacant(C)'
    BY <1>1, <2>1, <2>2, LimiterAssumption DEF Vacant
  <2> QED BY <1>1, <1>2, <1>3, <2>3 DEF Windows
<1>4. CASE entry # 0
  <2>1. PICK e, C, P : Current(e, C, P)
    BY <1>1, <1>4 DEF Windows
  <2>2. Current(e, C, P)'
    BY <1>1, <1>4, <2>1 DEF Current
  <2> QED BY <1>1, <1>2, <1>4, <2>2 DEF Windows
<1> QED BY <1>3, <1>4

LEMMA ReadClockStep == ASSUME LInv, NEW r \in Requests, Limiter!ReadClock(r) PROVE LInv'
<1>1. /\ held[r].at = "none" /\ held' = [held EXCEPT ![r].at = "lookup", ![r].now = now]
      /\ now' = now /\ buckets' = buckets /\ entry' = entry /\ passed' = passed /\ orphaned' = orphaned
  BY DEF Limiter!ReadClock
<1>2. Times'
  BY <1>1, LimiterAssumption DEF LInv, Times, Limiter!InFlight
<1>3. Buckets => Buckets'
  BY <1>1 DEF LInv, Times, Buckets
<1>4. now' >= now
  BY <1>1 DEF LInv, Times
<1> QED BY <1>1, <1>2, <1>3, <1>4, SameWindows

LEMMA TickStep == ASSUME LInv, Limiter!Tick PROVE LInv'
<1>1. /\ now' = now + 1 /\ UNCHANGED <<buckets, entry, held, passed, orphaned>>
      /\ \A r \in Requests : Limiter!InFlight(r) => now < held[r].now + Delay
  BY DEF Limiter!Tick
<1>2. Times'
  BY <1>1, LimiterAssumption DEF LInv, Times, Limiter!InFlight
<1>3. Buckets => Buckets'
  BY <1>1 DEF Buckets
<1>4. now' >= now
  BY <1>1 DEF LInv, Times
<1> QED BY <1>1, <1>2, <1>3, <1>4, SameWindows

LEMMA CleanUpStep == ASSUME LInv, Limiter!CleanUp PROVE LInv'
<1>1. /\ entry # 0 /\ now > buckets[entry].resetAt /\ entry' = 0
      /\ orphaned' = (orphaned \/ \E r \in Requests : held[r].at = "count" /\ held[r].bucket = entry)
      /\ UNCHANGED <<now, buckets, held, passed>>
  BY DEF Limiter!CleanUp
<1>2. Times'
  BY <1>1 DEF LInv, Times, Limiter!InFlight
<1>3. ASSUME ~orphaned' PROVE Buckets' /\ Windows' /\ Spans'
  <2>1. ~orphaned /\ Buckets /\ Windows /\ Spans
    BY <1>1, <1>3 DEF LInv
  <2>2. Buckets'
    BY <1>1, <1>3, <2>1 DEF Buckets
  <2>3. PICK e, C, P : Current(e, C, P)
    BY <1>1, <2>1 DEF Windows
  <2>4. Vacant(C)'
    <3>1. /\ buckets[entry].resetAt \in Int /\ now \in Nat /\ buckets[entry].count \in Nat
          /\ buckets[entry].count <= Limit
      BY <1>1, <2>1 DEF LInv, Times, Buckets, Bucket
    <3>2. IsFiniteSet(C)
      BY <2>3, FS_Subset DEF Current, LInv, Times
    <3>3. Cardinality(C) \in Nat
      BY <3>2, FS_CardinalityType
    <3>4. Cardinality(C) <= Limit
      BY <2>3, <3>1, <3>3, LimiterAssumption DEF Current
    <3>5. ASSUME NEW r \in DOMAIN passed \ C PROVE passed[r] < now - Window + Delay
      <4>1. passed[r] \in Int /\ passed[r] <= e /\ e \in Int /\ e <= buckets[entry].resetAt - Window + Delay
        BY <2>3 DEF LInv, Times, Current
      <4> QED BY <1>1, <3>1, <4>1, LimiterAssumption
    <3> QED BY <1>1, <2>3, <3>4, <3>5 DEF Vacant, Current
  <2>5. Windows'
    BY <1>1, <2>4 DEF Windows
  <2>6. Spans'
    BY <1>1, <2>1 DEF Spans, Span
  <2> QED BY <2>2, <2>5, <2>6
<1> QED BY <1>2, <1>3 DEF LInv

\* The cardinality that the limiter's module counts with is the usual one.
LEMMA LimiterCount == \A S : Limiter!Cardinality(S) = Cardinality(S)
BY DEF Limiter!Cardinality, Cardinality

LEMMA LookupStep == ASSUME LInv, NEW r \in Requests, Limiter!Lookup(r) PROVE LInv'
<1>1. /\ held[r].at = "lookup" /\ UNCHANGED <<now, passed, orphaned>>
  BY DEF Limiter!Lookup
<1>2. PICK b : /\ b = IF entry # 0 THEN entry ELSE Cardinality(DOMAIN buckets) + 1
               /\ entry' = b /\ held' = [held EXCEPT ![r].at = "count", ![r].bucket = b]
               /\ buckets' = IF entry # 0 THEN buckets
                             ELSE Limiter!WithBucket(b, [count |-> 0, resetAt |-> held[r].now + Window])
  BY LimiterCount DEF Limiter!Lookup
<1>3. Times'
  BY <1>1, <1>2 DEF LInv, Times, Limiter!InFlight
<1>4. now' >= now
  BY <1>1 DEF LInv, Times
<1>5. CASE entry # 0
  <2>1. Buckets => Buckets'
    BY <1>2, <1>5 DEF LInv, Times, Buckets
  <2> QED BY <1>1, <1>2, <1>3, <1>4, <1>5, <2>1, SameWindows
<1>6. CASE entry = 0
  <2> SUFFICES ASSUME ~orphaned PROVE Buckets' /\ Windows' /\ Spans'
    BY <1>1, <1>3 DEF LInv
  <2> DEFINE new == [count |-> 0, resetAt |-> held[r].now + Window]
  <2>1. Buckets /\ Windows /\ Spans
    BY DEF LInv
  <2>2. /\ held[r].now \in Int /\ held[r].now <= now /\ now - Delay <= held[r].now /\ now \in Nat
    BY <1>1 DEF LInv, Times, Limiter!InFlight
  <2>3. Bucket(new) /\ new.count = 0 /\ new.resetAt = held[r].now + Window
    BY <2>2, LimiterAssumption DEF Bucket
  <2>4. b # 0 /\ IsFiniteSet(DOMAIN buckets \cup {b})
    <3>1. IsFiniteSet(DOMAIN buckets) /\ Cardinality(DOMAIN buckets) \in Nat
      BY <2>1, FS_CardinalityType DEF Buckets
    <3>2. IsFiniteSet({b})
      BY FS_Singleton
    <3>3. IsFiniteSet(DOMAIN buckets \cup {b})
      BY <3>1, <3>2, FS_Union
    <3> QED BY <1>2, <1>6, <3>1, <3>3
  <2>5. buckets'[b] = new /\ DOMAIN buckets' = DOMAIN buckets \cup {b}
    BY <1>2, <1>6 DEF Limiter!WithBucket
  <2> HIDE DEF new
  <2>6. Buckets'
    <3>1. \A q \in Requests : held'[q].at = "count" => held'[q].bucket = b
      BY <1>2, <1>6, <2>1 DEF LInv, Times, Buckets
    <3> QED BY <1>2, <2>3, <2>4, <2>5, <3>1 DEF Buckets
  <2>7. PICK C : Vacant(C)
    BY <1>6, <2>1 DEF Windows
  <2>8. PICK n : n = now
    OBVIOUS
  <2>11. Current(n, {}, C)'
    <3>1. Cardinality({}) = 0
      BY FS_EmptySet
    <3>2. buckets'[entry'].resetAt = held[r].now + Window /\ buckets'[entry'].count = 0
      BY <1>2, <2>3, <2>5
    <3>3. \A q \in DOMAIN passed : passed[q] <= now
      BY DEF LInv, Times
    <3>4. /\ held[r].now + Window - Window <= now
          /\ now <= held[r].now + Window - Window + Delay
      BY <2>2, LimiterAssumption
    <3>5. C \in SUBSET DOMAIN passed /\ Cardinality(C) <= Limit
      BY <2>7 DEF Vacant
    <3>6. \A q \in DOMAIN passed \ ({} \cup C) : passed[q] < n - Window + Delay
      BY <2>7, <2>8 DEF Vacant
    <3>7. n \in Int /\ n <= now /\ \A q \in DOMAIN passed \ {} : passed[q] <= n
      BY <2>2, <2>8, <3>3
    <3>8. n \in Int /\ n <= now' /\ {} \in SUBSET DOMAIN passed' /\ C \in SUBSET DOMAIN passed'
      BY <1>1, <3>5, <3>7
    <3>9. buckets'[entry'].resetAt - Window <= n /\ n <= buckets'[entry'].resetAt - Window + Delay
      BY <2>2, <2>8, <3>2, <3>4, LimiterAssumption
    <3>10. Cardinality({}) <= buckets'[entry'].count /\ Cardinality(C) <= Limit
      BY <3>1, <3>2, <3>5
    <3>11. /\ \A q \in DOMAIN passed' \ {} : passed'[q] <= n
           /\ \A q \in DOMAIN passed' \ ({} \cup C) : passed'[q] < n - Window + Delay
      BY <1>1, <3>6, <3>7
    <3> QED BY <3>8, <3>9, <3>10, <3>11 DEF Current
  <2>9. Windows'
    BY <1>2, <2>4, <2>11 DEF Windows
  <2>10. Spans'
    BY <1>1, <2>1 DEF Spans, Span
  <2> QED BY <2>6, <2>9, <2>10
<1> QED BY <1>5, <1>6

\* A request counts after a renewal, if one is due.
LEMMA RenewStep ==
  ASSUME LInv, ~orphaned, NEW r \in Requests, held[r].at = "count"
  PROVE  LET b == Limiter!Renewed(entry, held[r].now) IN
         /\ Bucket(b)
         /\ \E e, C, P :
              /\ e \in Int /\ e <= now /\ C \in SUBSET DOMAIN passed /\ P \in SUBSET DOMAIN passed
              /\ b.resetAt - Window <= e /\ e <= b.resetAt - Window + Delay
              /\ Cardinality(C) <= b.count /\ Cardinality(P) <= Limit
              /\ \A q \in DOMAIN passed \ C : passed[q] <= e
              /\ \A q \in DOMAIN passed \ (C \cup P) : passed[q] < e - Window + Delay
<1> DEFINE t == held[r].now
           b == Limiter!Renewed(entry, t)
<1>1. /\ Buckets /\ entry # 0 /\ Bucket(buckets[entry])
      /\ t \in Int /\ t <= now /\ now - Delay <= t /\ now \in Nat
  BY DEF LInv, Times, Buckets, Limiter!InFlight
<1>2. PICK e, C, P : Current(e, C, P)
  BY <1>1 DEF LInv, Windows
<1>3. CASE t > buckets[entry].resetAt
  <2>1. b.count = 0 /\ b.resetAt = t + Window /\ Bucket(b)
    BY <1>1, <1>3, LimiterAssumption DEF Limiter!Renewed, Bucket
  <2> HIDE DEF b
  <2>2. Cardinality({}) = 0
    BY FS_EmptySet
  <2>3. Cardinality(C) <= Limit
    <3>1. IsFiniteSet(C)
      BY <1>2, FS_Subset DEF Current, LInv, Times
    <3>2. Cardinality(C) \in Nat
      BY <3>1, FS_CardinalityType
    <3> QED BY <1>1, <1>2, <3>2, LimiterAssumption DEF Current, Bucket
  <2>4. \A q \in DOMAIN passed : passed[q] \in Int /\ passed[q] <= now
    BY DEF LInv, Times
  <2>5. ASSUME NEW q \in DOMAIN passed \ C PROVE passed[q] < now - Window + Delay
    <3>1. passed[q] <= e /\ e \in Int /\ e <= buckets[entry].resetAt - Window + Delay
      BY <1>2 DEF Current
    <3> QED BY <1>1, <1>3, <2>4, <3>1, LimiterAssumption DEF Bucket
  <2>6. t + Window - Window <= now /\ now <= t + Window - Window + Delay
    BY <1>1, LimiterAssumption
  <2>7. /\ now \in Int /\ now <= now /\ {} \in SUBSET DOMAIN passed /\ C \in SUBSET DOMAIN passed
        /\ b.resetAt - Window <= now /\ now <= b.resetAt - Window + Delay
        /\ Cardinality({}) <= b.count /\ Cardinality(C) <= Limit
        /\ \A q \in DOMAIN passed \ {} : passed[q] <= now
        /\ \A q \in DOMAIN passed \ ({} \cup C) : passed[q] < now - Window + Delay
    <3>1. C \in SUBSET DOMAIN passed
      BY <1>2 DEF Current
    <3>2. \A q \in DOMAIN passed \ {} : passed[q] <= now
      BY <2>4
    <3>3. \A q \in DOMAIN passed \ ({} \cup C) : passed[q] < now - Window + Delay
      BY <2>5
    <3>4. now \in Int /\ now <= now /\ b.resetAt - Window <= now /\ now <= b.resetAt - Window + Delay
      BY <1>1, <2>1, <2>6, LimiterAssumption
    <3>5. {} \in SUBSET DOMAIN passed /\ Cardinality({}) <= b.count
      BY <2>1, <2>2
    <3> QED BY <2>3, <3>1, <3>2, <3>3, <3>4, <3>5
  <2> QED BY <2>1, <2>7 DEF b
<1>4. CASE ~(t > buckets[entry].resetAt)
  <2>1. b = buckets[entry]
    BY <1>4 DEF Limiter!Renewed
  <2> HIDE DEF b
  <2>2. /\ e \in Int /\ e <= now /\ C \in SUBSET DOMAIN passed /\ P \in SUBSET DOMAIN passed
        /\ b.resetAt - Window <= e /\ e <= b.resetAt - Window + Delay
        /\ Cardinality(C) <= b.count /\ Cardinality(P) <= Limit
        /\ \A q \in DOMAIN passed \ C : passed[q] <= e
        /\ \A q \in DOMAIN passed \ (C \cup P) : passed[q] < e - Window + Delay
    BY <1>2, <2>1 DEF Current
  <2> QED BY <1>1, <2>1, <2>2 DEF b
<1> QED BY <1>3, <1>4

LEMMA CountStep == ASSUME LInv, NEW r \in Requests, Limiter!Count(r) PROVE LInv'
<1> DEFINE t == held[r].now
           k == held[r].bucket
           b == Limiter!Renewed(k, t)
<1>1. /\ held[r].at = "count" /\ held' = [held EXCEPT ![r].at = "done"]
      /\ UNCHANGED <<now, entry, orphaned>>
      /\ IF b.count >= Limit THEN buckets' = Limiter!WithBucket(k, b) /\ passed' = passed
         ELSE buckets' = Limiter!WithBucket(k, [b EXCEPT !.count = @ + 1]) /\ passed' = Limiter!Passes(r)
  BY DEF Limiter!Count
<1>2. t \in Int /\ t <= now /\ now - Delay <= t /\ now \in Nat
  BY <1>1 DEF LInv, Times, Limiter!InFlight
<1>3. passed' = passed \/ passed' = Limiter!Passes(r)
  BY <1>1
<1>4. /\ r \notin DOMAIN passed
      /\ passed' = Limiter!Passes(r) => /\ DOMAIN passed' = DOMAIN passed \cup {r} /\ passed'[r] = t
                                        /\ \A q \in DOMAIN passed : passed'[q] = passed[q]
  BY <1>1 DEF LInv, Times, Limiter!Passes
<1> HIDE DEF b
<1>5. Times'
  <2>1. IsFiniteSet(DOMAIN passed')
    <3>1. IsFiniteSet(DOMAIN passed) /\ IsFiniteSet({r})
      BY FS_Singleton DEF LInv, Times
    <3> QED BY <1>3, <1>4, <3>1, FS_Union
  <2>2. \A q \in Requests : q # r => held'[q] = held[q]
    BY <1>1 DEF LInv, Times
  <2>3. held'[r].at = "done" /\ held'[r].now = t /\ DOMAIN held'[r] = {"at", "now", "bucket"} /\ DOMAIN held' = Requests
    BY <1>1 DEF LInv, Times
  <2>4. \A q \in DOMAIN passed' : /\ q \in Requests /\ held'[q].at = "done"
                                  /\ passed'[q] \in Int /\ passed'[q] <= now
    BY <1>2, <1>3, <1>4, <2>2, <2>3 DEF LInv, Times
  <2>5. \A q \in Requests : /\ DOMAIN held'[q] = {"at", "now", "bucket"}
                            /\ held'[q].at \in {"none", "lookup", "count", "done"} /\ held'[q].now \in Int
                            /\ held'[q].at \in {"lookup", "count"} => now - Delay <= held'[q].now /\ held'[q].now <= now
    BY <1>2, <2>2, <2>3 DEF LInv, Times, Limiter!InFlight
  <2> QED BY <1>1, <2>1, <2>3, <2>4, <2>5 DEF LInv, Times, Limiter!InFlight
<1>6. ASSUME ~orphaned PROVE Buckets' /\ Windows' /\ Spans'
  <2>1. Buckets /\ Windows /\ Spans /\ k = entry /\ entry # 0
    BY <1>1, <1>6 DEF LInv, Buckets
  <2>2. Bucket(b)
    BY <1>1, <1>6, <2>1, RenewStep DEF b
  <2>3. PICK e, C, P :
          /\ e \in Int /\ e <= now /\ C \in SUBSET DOMAIN passed /\ P \in SUBSET DOMAIN passed
          /\ b.resetAt - Window <= e /\ e <= b.resetAt - Window + Delay
          /\ Cardinality(C) <= b.count /\ Cardinality(P) <= Limit
          /\ \A q \in DOMAIN passed \ C : passed[q] <= e
          /\ \A q \in DOMAIN passed \ (C \cup P) : passed[q] < e - Window + Delay
    BY <1>1, <1>6, <2>1, RenewStep DEF b
  <2>4. DOMAIN buckets' = DOMAIN buckets \cup {k} /\ IsFiniteSet(DOMAIN buckets')
    <3>1. DOMAIN buckets' = DOMAIN buckets \cup {k}
      BY <1>1 DEF Limiter!WithBucket
    <3>2. k \in DOMAIN buckets /\ IsFiniteSet(DOMAIN buckets)
      BY <2>1 DEF Buckets
    <3>3. DOMAIN buckets \cup {k} = DOMAIN buckets
      BY <3>2
    <3> QED BY <3>1, <3>2, <3>3
  <2>5. \A q \in Requests : held'[q].at = "count" => held'[q].bucket = entry
    BY <1>1, <2>1 DEF LInv, Times, Buckets
  <2>6. CASE b.count >= Limit
    <3>1. buckets'[entry] = b /\ passed' = passed
      BY <1>1, <2>1, <2>6 DEF Limiter!WithBucket
    <3>2. Buckets'
      BY <1>1, <2>1, <2>2, <2>4, <2>5, <3>1 DEF Buckets
    <3>3. Current(e, C, P)'
      BY <1>1, <2>3, <3>1 DEF Current
    <3> QED BY <1>1, <2>1, <3>1, <3>2, <3>3 DEF Windows, Spans, Span
  <2>7. CASE ~(b.count >= Limit)
    <3> DEFINE more == [b EXCEPT !.count = @ + 1]
    <3>1. /\ Bucket(more) /\ more.count = b.count + 1 /\ more.resetAt = b.resetAt
      BY <2>2, <2>7, LimiterAssumption DEF Bucket
    <3>2. buckets'[entry] = more /\ passed' = Limiter!Passes(r)
      BY <1>1, <2>1, <2>7 DEF Limiter!WithBucket
    <3> HIDE DEF more
    <3>3. Buckets'
      BY <1>1, <2>1, <2>4, <2>5, <3>1, <3>2 DEF Buckets
    <3>4. IsFiniteSet(C) /\ IsFiniteSet(P) /\ Cardinality(C) \in Nat /\ Cardinality(P) \in Nat
      <4>1. IsFiniteSet(C) /\ IsFiniteSet(P)
        BY <2>3, FS_Subset DEF LInv, Times
      <4> QED BY <4>1, FS_CardinalityType
    <3>5. IsFiniteSet(C \cup {r}) /\ Cardinality(C \cup {r}) = Cardinality(C) + 1
      BY <1>4, <2>3, <3>4, FS_AddElement
    <3>6. Current(e, C \cup {r}, P)'
      <4>1. Cardinality(C \cup {r}) <= buckets'[entry'].count
        BY <1>1, <2>2, <2>3, <3>1, <3>2, <3>4, <3>5 DEF Bucket
      <4>2. buckets'[entry'].resetAt = b.resetAt /\ DOMAIN passed' = DOMAIN passed \cup {r} /\ now' = now
        BY <1>1, <1>4, <3>1, <3>2
      <4>3. \A q \in DOMAIN passed' \ (C \cup {r}) : q \in DOMAIN passed \ C /\ passed'[q] = passed[q]
        BY <1>4, <3>2, <4>2
      <4> QED BY <2>3, <4>1, <4>2, <4>3 DEF Current
    <3>7. ASSUME NEW s \in Int PROVE Cardinality(Span(s)') <= 2 * Limit
      <4>1. Cardinality(Span(s)) <= 2 * Limit
        BY <2>1 DEF Spans
      <4>2. CASE r \notin Span(s)'
        <5>1. Span(s)' = Span(s)
          BY <1>4, <3>2, <4>2 DEF Span
        <5> QED BY <4>1, <5>1
      <4>3. CASE r \in Span(s)'
        <5>1. t <= s + Window - 2 * Delay
          BY <1>4, <3>2, <4>3 DEF Span
        <5>2. e - Window + Delay <= s
          BY <1>2, <2>3, <5>1, LimiterAssumption
        <5>3. Span(s)' \subseteq (C \cup {r}) \cup P
          <6>1. ASSUME NEW q \in DOMAIN passed \ (C \cup P) PROVE q \notin Span(s)'
            <7>1. passed[q] < e - Window + Delay /\ passed[q] \in Int /\ passed'[q] = passed[q]
              BY <1>4, <2>3, <3>2 DEF LInv, Times
            <7>2. passed'[q] < s
              BY <1>2, <2>3, <5>2, <7>1, LimiterAssumption
            <7> QED BY <7>1, <7>2 DEF Span
          <6> QED BY <1>4, <3>2, <6>1 DEF Span
        <5>4. /\ IsFiniteSet((C \cup {r}) \cup P) /\ Cardinality((C \cup {r}) \cap P) \in Nat
              /\ Cardinality((C \cup {r}) \cup P) =
                   Cardinality(C \cup {r}) + Cardinality(P) - Cardinality((C \cup {r}) \cap P)
          BY <3>4, <3>5, FS_Union, FS_Intersection, FS_CardinalityType
        <5>5. IsFiniteSet(Span(s)') /\ Cardinality(Span(s)') <= Cardinality((C \cup {r}) \cup P)
          BY <5>3, <5>4, FS_Subset
        <5>6. Cardinality(Span(s)') \in Nat
          BY <5>5, FS_CardinalityType
        <5>7. Cardinality(C) + 1 <= Limit
          BY <2>2, <2>3, <2>7, <3>4, LimiterAssumption DEF Bucket
        <5> QED BY <2>3, <3>4, <3>5, <5>4, <5>5, <5>6, <5>7, LimiterAssumption
      <4> QED BY <4>2, <4>3
    <3>8. Spans'
      BY <3>7 DEF Spans
    <3>9. Windows'
      BY <1>1, <2>1, <3>6 DEF Windows
    <3> QED BY <3>3, <3>8, <3>9
  <2> QED BY <2>6, <2>7
<1> QED BY <1>1, <1>5, <1>6 DEF LInv

LEMMA LimiterStep == ASSUME LInv, [Limiter!Next]_(Limiter!limiterVars) PROVE LInv'
<1>1. CASE UNCHANGED Limiter!limiterVars
  BY <1>1 DEF Limiter!limiterVars, LInv, Times, Buckets, Windows, Vacant, Current, Spans, Span, Limiter!InFlight
<1> QED BY <1>1, ReadClockStep, LookupStep, CountStep, CleanUpStep, TickStep DEF Limiter!Next

\* The limit holds for every number of requests and any delay they may have.
THEOREM LimitHolds == Limiter!Spec => []TwiceTheLimit
<1>1. LInv => TwiceTheLimit
  <2>1. LInv /\ ~orphaned => \A t \in 0..MaxTime : Cardinality(Span(t)) <= 2 * Limit
    BY DEF LInv, Spans
  <2> QED BY <2>1, LimiterCount DEF TwiceTheLimit, Limiter!TwiceTheLimit, Span
<1> QED BY <1>1, LimiterStart, LimiterStep, PTL DEF Limiter!Spec

---------------------------------------------------------------------------
(* Telegram: polling and binding.                                          *)

Commands == {"/start", "/status", "/stop"}
Sendable == [chat : Chats, cmd : Commands, code : {0} \cup CodeIds]

\* What is polled starts at the offset and has been sent.
Polled ==
  /\ DOMAIN codes \subseteq CodeIds /\ restarts \in Nat
  /\ sent \in Seq(Sendable) /\ handled \in Seq(Nat) /\ Len(handled) = Len(sent)
  /\ offset \in Nat /\ 1 <= offset /\ offset <= Len(sent) + 1
  /\ batch \in Seq(Nat) /\ offset + Len(batch) <= Len(sent) + 1
  /\ \A i \in 1..Len(batch) : batch[i] = offset + i - 1
\* Until a restart, what is before the offset is handled, and once.
HandledBefore == restarts = 0 => \A i \in 1..Len(handled) : handled[i] = IF i < offset THEN 1 ELSE 0

BindingOf(b) == DOMAIN b = {"chat", "status"} /\ (b # Telegram!NoBinding => b.chat \in Chats)
OneChatEach(bound) ==
  /\ DOMAIN bound = Accounts /\ \A a \in Accounts : BindingOf(bound[a])
  /\ \A a, b \in Accounts : bound[a].chat = bound[b].chat /\ bound[a] # Telegram!NoBinding => a = b
TInv == Polled /\ HandledBefore /\ OneChatEach(bindings)

LEMMA TelegramStart == Telegram!Init => TInv
<1> SUFFICES ASSUME Telegram!Init PROVE TInv
  OBVIOUS
<1>1. /\ bindings = [a \in Accounts |-> Telegram!NoBinding] /\ codes = <<>> /\ sent = <<>> /\ handled = <<>>
      /\ batch = <<>> /\ offset = 1 /\ restarts = 0
  BY DEF Telegram!Init
<1>2. DOMAIN codes = {}
  BY <1>1
<1>3. Polled
  BY <1>1, <1>2 DEF Polled
<1>4. HandledBefore
  BY <1>1 DEF HandledBefore
<1>5. \A a \in Accounts : bindings[a] = Telegram!NoBinding
  BY <1>1
<1>6. OneChatEach(bindings)
  BY <1>1, <1>5 DEF OneChatEach, BindingOf, Telegram!NoBinding
<1> QED BY <1>3, <1>4, <1>6 DEF TInv

\* A reply may find that the chat has blocked the bot.
LEMMA ReplyKeeps ==
  ASSUME NEW bound, OneChatEach(bound), NEW chat \in Chats, NEW b \in Telegram!Reply(bound, chat)
  PROVE  OneChatEach(b)
<1>1. CASE b = bound
  BY <1>1
<1>2. CASE b = Telegram!MarkBlocked(bound, chat)
  <2>1. DOMAIN b = Accounts
    BY <1>2 DEF Telegram!MarkBlocked
  <2>2. \A a \in Accounts : /\ b[a].chat = bound[a].chat /\ DOMAIN b[a] = {"chat", "status"}
                            /\ bound[a] = Telegram!NoBinding => b[a] = Telegram!NoBinding
    BY <1>2, LinkAssumption DEF Telegram!MarkBlocked, OneChatEach, BindingOf, Telegram!NoBinding
  <2> QED BY <2>1, <2>2 DEF OneChatEach, BindingOf
<1> QED BY <1>1, <1>2 DEF Telegram!Reply

LEMMA UserSendsStep == ASSUME TInv, Telegram!UserSends PROVE TInv'
<1>1. PICK m \in Sendable : /\ sent' = Append(sent, m) /\ handled' = Append(handled, 0)
                            /\ UNCHANGED <<bindings, codes, link, offset, batch, restarts>>
  BY DEF Telegram!UserSends, Telegram!Message, Sendable, Commands, TInv, Polled
<1>2. /\ sent' \in Seq(Sendable) /\ Len(sent') = Len(sent) + 1 /\ Len(sent) \in Nat
      /\ handled' \in Seq(Nat) /\ Len(handled') = Len(handled) + 1
      /\ handled'[Len(handled) + 1] = 0 /\ \A i \in 1..Len(handled) : handled'[i] = handled[i]
  <2>1. sent \in Seq(Sendable) /\ handled \in Seq(Nat)
    BY DEF TInv, Polled
  <2>2. sent' \in Seq(Sendable) /\ Len(sent') = Len(sent) + 1 /\ Len(sent) \in Nat
    BY <1>1, <2>1, AppendProperties, LenProperties
  <2>3. handled' \in Seq(Nat) /\ Len(handled') = Len(handled) + 1
    BY <1>1, <2>1, AppendProperties
  <2>4. handled'[Len(handled) + 1] = 0 /\ \A i \in 1..Len(handled) : handled'[i] = handled[i]
    BY <1>1, <2>1, AppendProperties
  <2> QED BY <2>2, <2>3, <2>4
<1>3. Polled'
  BY <1>1, <1>2 DEF TInv, Polled
<1>4. HandledBefore'
  BY <1>1, <1>2 DEF TInv, Polled, HandledBefore
<1> QED BY <1>1, <1>3, <1>4 DEF TInv

LEMMA GetUpdatesStep == ASSUME TInv, Telegram!GetUpdates PROVE TInv'
<1>1. /\ offset <= Len(sent) /\ batch' = [i \in 1..(Len(sent) - offset + 1) |-> offset + i - 1]
      /\ UNCHANGED <<bindings, codes, link, sent, offset, handled, restarts>>
  BY DEF Telegram!GetUpdates
<1>0. sent \in Seq(Sendable) /\ offset \in Nat /\ Len(sent) \in Nat
  BY LenProperties DEF TInv, Polled
<1>2. PICK n \in Nat : n = Len(sent) - offset + 1
  <2>1. Len(sent) - offset + 1 \in Nat
    BY <1>0, <1>1
  <2> QED BY <2>1
<1>3. batch' \in Seq(Nat) /\ Len(batch') = n /\ \A i \in 1..n : batch'[i] = offset + i - 1
  BY <1>1, <1>2 DEF TInv, Polled
<1> QED BY <1>1, <1>2, <1>3 DEF TInv, Polled, HandledBefore

LEMMA HandleStep == ASSUME TInv, Telegram!HandleUpdate PROVE TInv'
<1> DEFINE u == Head(batch)
<1>1. /\ batch # <<>> /\ offset' = Telegram!NextOffset(u) /\ handled' = [handled EXCEPT ![u] = @ + 1]
      /\ batch' = Tail(batch) /\ UNCHANGED <<link, sent, restarts>>
  BY DEF Telegram!HandleUpdate
<1>2. u = offset /\ offset' = offset + 1 /\ u \in 1..Len(sent) /\ Len(batch) >= 1
  BY <1>1 DEF TInv, Polled, Telegram!NextOffset
<1>3. /\ handled' \in Seq(Nat) /\ Len(handled') = Len(handled) /\ handled'[u] = handled[u] + 1
      /\ \A i \in 1..Len(handled) : i # u => handled'[i] = handled[i]
  BY <1>1, <1>2 DEF TInv, Polled
<1>4. /\ batch' \in Seq(Nat) /\ Len(batch') = Len(batch) - 1
      /\ \A i \in 1..Len(batch') : batch'[i] = batch[i + 1]
  BY <1>1, <1>2 DEF TInv, Polled
<1>5. sent[u] \in Sendable /\ sent[u].chat \in Chats
  <2>1. sent \in Seq(Sendable)
    BY DEF TInv, Polled
  <2>2. sent[u] \in Sendable
    BY <1>2, <2>1, ElementOfSeq
  <2> QED BY <2>2 DEF Sendable
<1>6. DOMAIN codes' \subseteq CodeIds /\ OneChatEach(bindings)'
  <2> DEFINE m == sent[u]
  <2>1. CASE Telegram!HandleStart(m)
    <3>1. DOMAIN codes' = DOMAIN codes
      BY <2>1 DEF Telegram!HandleStart, Telegram!ConsumeCode
    <3>2. CASE bindings' \in Telegram!Reply(bindings, m.chat)
      BY <1>5, <3>1, <3>2, ReplyKeeps DEF TInv, Polled
    <3>3. ASSUME NEW a, ~Telegram!GetBinding(a), Telegram!UpsertAllowed(a, m.chat),
                 bindings' \in Telegram!Reply([bindings EXCEPT ![a] = [chat |-> m.chat, status |-> "active"]], m.chat)
          PROVE  DOMAIN codes' \subseteq CodeIds /\ OneChatEach(bindings)'
      <4> DEFINE bound == [bindings EXCEPT ![a] = [chat |-> m.chat, status |-> "active"]]
      <4> HIDE DEF m
      <4>1. DOMAIN bound = Accounts /\ \A b \in Accounts : bound[b] =
              IF b = a THEN [chat |-> m.chat, status |-> "active"] ELSE bindings[b]
        BY DEF TInv, OneChatEach
      <4>2. \A b \in Accounts : b # a => bindings[b].chat # m.chat
        BY <3>3 DEF Telegram!UpsertAllowed, Telegram!GetBindingByChatID
      <4>3. [chat |-> m.chat, status |-> "active"].chat = m.chat /\ DOMAIN [chat |-> m.chat, status |-> "active"] = {"chat", "status"}
        OBVIOUS
      <4>4. m.chat \in Chats
        BY <1>5 DEF m
      <4> HIDE DEF bound
      <4>5. OneChatEach(bound)
        BY <4>1, <4>2, <4>3, <4>4 DEF TInv, OneChatEach, BindingOf
      <4> QED BY <3>1, <3>3, <4>4, <4>5, ReplyKeeps DEF TInv, Polled, bound
    <3> QED BY <2>1, <3>2, <3>3 DEF Telegram!HandleStart
  <2>2. CASE Telegram!HandleStatus(m)
    BY <1>5, <2>2, ReplyKeeps DEF Telegram!HandleStatus, TInv, Polled
  <2>3. CASE Telegram!HandleStop(m)
    <3>1. /\ codes' = codes /\ DOMAIN bindings' = Accounts
          /\ \A a \in Accounts : bindings'[a] = Telegram!NoBinding \/ bindings'[a] = bindings[a]
          /\ \A a \in Accounts : bindings[a] = Telegram!NoBinding => bindings'[a] = Telegram!NoBinding
      BY <2>3 DEF Telegram!HandleStop
    <3>2. \A a \in Accounts : BindingOf(bindings'[a])
      BY <3>1 DEF TInv, OneChatEach, BindingOf, Telegram!NoBinding
    <3>3. ASSUME NEW a \in Accounts, NEW b \in Accounts, bindings'[a].chat = bindings'[b].chat,
                 bindings'[a] # Telegram!NoBinding
          PROVE  a = b
      <4>1. bindings'[a] = bindings[a] /\ bindings[a].chat \in Chats
        BY <3>1, <3>3 DEF TInv, OneChatEach, BindingOf
      <4>2. bindings'[b] # Telegram!NoBinding
        BY <3>3, <4>1, LinkAssumption DEF Telegram!NoBinding
      <4> QED BY <3>1, <3>3, <4>1, <4>2 DEF TInv, OneChatEach
    <3> QED BY <3>1, <3>2, <3>3 DEF TInv, Polled, OneChatEach
  <2>4. sent[u].cmd \in Commands
    BY <1>5 DEF Sendable
  <2>5. /\ sent[u].cmd = "/start" => Telegram!HandleStart(m)
        /\ sent[u].cmd = "/status" => Telegram!HandleStatus(m)
        /\ sent[u].cmd = "/stop" => Telegram!HandleStop(m)
    BY <2>4 DEF Telegram!HandleUpdate, Commands
  <2> QED BY <2>1, <2>2, <2>3, <2>4, <2>5 DEF Commands
<1>7. Polled'
  <2>1. Len(sent) \in Nat /\ Len(batch) \in Nat /\ Len(handled) \in Nat
    BY LenProperties DEF TInv, Polled
  <2>2. \A i \in 1..Len(batch') : batch'[i] = offset' + i - 1
    <3>1. ASSUME NEW i \in 1..Len(batch') PROVE batch'[i] = offset' + i - 1
      <4>1. i + 1 \in 1..Len(batch) /\ batch'[i] = batch[i + 1] /\ offset \in Nat
        BY <1>4, <2>1 DEF TInv, Polled
      <4>2. batch[i + 1] = offset + (i + 1) - 1
        BY <4>1 DEF TInv, Polled
      <4> QED BY <1>2, <4>1, <4>2
    <3> QED BY <3>1
  <2>3. offset' \in Nat /\ 1 <= offset' /\ offset' <= Len(sent) + 1 /\ offset' + Len(batch') <= Len(sent) + 1
    BY <1>2, <1>4, <2>1 DEF TInv, Polled
  <2> QED BY <1>1, <1>3, <1>4, <1>6, <2>2, <2>3 DEF TInv, Polled
<1>8. HandledBefore'
  <2> SUFFICES ASSUME restarts' = 0, NEW i \in 1..Len(handled')
               PROVE  handled'[i] = IF i < offset' THEN 1 ELSE 0
    BY DEF HandledBefore
  <2>1. restarts = 0 /\ i \in 1..Len(handled) /\ i \in Int /\ offset \in Int
    BY <1>1, <1>3, LenProperties DEF TInv, Polled
  <2>2. handled[i] = IF i < offset THEN 1 ELSE 0
    BY <2>1 DEF TInv, HandledBefore
  <2>3. handled'[i] = IF i = u THEN handled[i] + 1 ELSE handled[i]
    BY <1>3, <2>1
  <2> QED BY <1>2, <2>1, <2>2, <2>3
<1> QED BY <1>6, <1>7, <1>8 DEF TInv

LEMMA RestartStep == ASSUME TInv, Telegram!Restart PROVE TInv'
<1>1. /\ restarts' = restarts + 1 /\ offset' \in 1..offset /\ batch' = <<>>
      /\ UNCHANGED <<bindings, codes, sent, handled>>
  BY DEF Telegram!Restart
<1>2. batch' \in Seq(Nat) /\ Len(batch') = 0
  BY <1>1
<1> QED BY <1>1, <1>2 DEF TInv, Polled, HandledBefore

\* Asking for a code, leaving, and a code that expires.
LEMMA WebStep ==
  ASSUME TInv, \/ \E a \in Accounts : Telegram!Link(a) \/ Telegram!Unlink(a)
               \/ Telegram!CodeExpires
  PROVE  TInv'
<1>1. UNCHANGED <<sent, offset, batch, handled, restarts>>
  BY DEF Telegram!Link, Telegram!CreateLink, Telegram!CreateLinkDelete, Telegram!CreateLinkInsert,
         Telegram!Unlink, Telegram!CodeExpires
<1>2. DOMAIN codes' \subseteq CodeIds
  <2>1. CASE Telegram!CodeExpires
    BY <2>1 DEF Telegram!CodeExpires, TInv, Polled
  <2>2. ASSUME NEW a \in Accounts, Telegram!CreateLinkInsert(a) PROVE DOMAIN codes' \subseteq CodeIds
    <3>1. Telegram!GenerateCode \in CodeIds
      BY <2>2 DEF Telegram!CreateLinkInsert, Telegram!GenerateCode
    <3> QED BY <2>2, <3>1 DEF Telegram!CreateLinkInsert, Telegram!CreateCode, TInv, Polled
  <2>3. ASSUME NEW a \in Accounts, Telegram!CreateLink(a) \/ Telegram!CreateLinkDelete(a) \/ Telegram!Unlink(a)
        PROVE DOMAIN codes' = DOMAIN codes
    BY <2>3 DEF Telegram!CreateLink, Telegram!CreateLinkDelete, Telegram!Unlink, Telegram!DeleteUnusedCodes
  <2> QED BY <2>1, <2>2, <2>3 DEF Telegram!Link, TInv, Polled
<1>3. OneChatEach(bindings)'
  <2>1. CASE bindings' = bindings
    BY <2>1 DEF TInv
  <2>2. ASSUME NEW a \in Accounts, Telegram!Unlink(a) PROVE OneChatEach(bindings)'
    <3>1. /\ DOMAIN bindings' = Accounts /\ bindings'[a] = Telegram!NoBinding
          /\ \A b \in Accounts : b # a => bindings'[b] = bindings[b]
      BY <2>2 DEF Telegram!Unlink, Telegram!DeleteBinding, TInv, OneChatEach
    <3>2. Telegram!NoBinding.chat = NoChat /\ DOMAIN Telegram!NoBinding = {"chat", "status"}
      BY DEF Telegram!NoBinding
    <3> QED BY <3>1, <3>2, LinkAssumption DEF TInv, OneChatEach, BindingOf
  <2>3. bindings' = bindings \/ \E a \in Accounts : Telegram!Unlink(a)
    BY DEF Telegram!Link, Telegram!CreateLink, Telegram!CreateLinkDelete, Telegram!CreateLinkInsert,
           Telegram!CodeExpires
  <2> QED BY <2>1, <2>2, <2>3
<1> QED BY <1>1, <1>2, <1>3 DEF TInv, Polled, HandledBefore

LEMMA TelegramStep == ASSUME TInv, [Telegram!Next]_(Telegram!telegramVars) PROVE TInv'
<1>1. CASE UNCHANGED Telegram!telegramVars
  BY <1>1 DEF Telegram!telegramVars, TInv, Polled, HandledBefore
<1> QED BY <1>1, WebStep, UserSendsStep, GetUpdatesStep, HandleStep, RestartStep DEF Telegram!Next

\* Commands are handled once and in order, and a chat is of one account, for any
\* accounts, chats and codes and any number of messages.
THEOREM LinkedOnce == Telegram!Spec => []Telegram!CommandsOnceInOrder
<1>1. TInv => Telegram!CommandsOnceInOrder
  <2> SUFFICES ASSUME TInv PROVE Telegram!CommandsOnceInOrder
    OBVIOUS
  <2>1. restarts = 0 => \A i, j \in DOMAIN handled : handled[i] <= 1 /\ (i < j => handled[j] <= handled[i])
    <3>1. handled \in Seq(Nat) /\ DOMAIN handled = 1..Len(handled) /\ Len(handled) \in Nat /\ offset \in Nat
      BY LenProperties DEF TInv, Polled
    <3> QED BY <3>1 DEF TInv, HandledBefore
  <2>2. \A a, b \in Accounts : bindings[a].chat = bindings[b].chat /\ bindings[a] # Telegram!NoBinding => a = b
    BY DEF TInv, OneChatEach
  <2> QED BY <2>1, <2>2 DEF Telegram!CommandsOnceInOrder
<1> QED BY <1>1, TelegramStart, TelegramStep, PTL DEF Telegram!Spec

---------------------------------------------------------------------------
(* The settings and their cache.                                           *)

ValidRow(k, value) == k \in Settings!Keys /\ (k = "perp_dexes" \/ Settings!ValidCap(value))
Invalidating(k) == \E w \in Writers : writing[w].at = "invalidate" /\ writing[w].key = k

\* What a writer is about to write is valid, and so is what is written.
ValidRows ==
  /\ \A k \in DOMAIN rows : ValidRow(k, rows[k])
  /\ DOMAIN writing = Writers
  /\ \A w \in Writers :
       /\ DOMAIN writing[w] = {"key", "value", "at"} /\ writing[w].at \in {"idle", "set", "invalidate"}
       /\ writing[w].at # "idle" => ValidRow(writing[w].key, writing[w].value)

\* A reader that no invalidation has made late holds the row, and the cache holds
\* it unless what was stored was late, while no writer is about to invalidate.
ReadersHold ==
  /\ DOMAIN reading = Readers
  /\ \A r \in Readers :
       /\ DOMAIN reading[r] = {"key", "raw", "late"} /\ reading[r].late \in BOOLEAN
       /\ LET k == reading[r].key IN
          k # "" => /\ k \in Settings!Keys
                    /\ ~reading[r].late /\ ~Invalidating(k) => reading[r].raw = Settings!Get(k)
CacheHolds ==
  /\ DOMAIN cached = Settings!Keys
  /\ \A k \in Settings!Keys :
       /\ DOMAIN cached[k] = {"value", "fresh", "suspect"}
       /\ cached[k].fresh /\ ~cached[k].suspect /\ ~Invalidating(k) => cached[k].value = Settings!Get(k)
CInv == ValidRows /\ ReadersHold /\ CacheHolds

LEMMA SettingsInit == Settings!Init => CInv
<1> SUFFICES ASSUME Settings!Init PROVE CInv
  OBVIOUS
<1>1. /\ rows = <<>> /\ reading = [r \in Readers |-> Settings!NotReading]
      /\ writing = [w \in Writers |-> Settings!NotWriting]
      /\ cached = [k \in Settings!Keys |-> [value |-> Settings!Default(k), fresh |-> FALSE, suspect |-> FALSE]]
  BY DEF Settings!Init
<1>2. ValidRows
  <2>1. DOMAIN rows = {}
    BY <1>1
  <2>2. \A w \in Writers : writing[w] = Settings!NotWriting
    BY <1>1
  <2> QED BY <1>1, <2>1, <2>2 DEF ValidRows, Settings!NotWriting
<1>3. ReadersHold
  BY <1>1 DEF ReadersHold, Settings!NotReading
<1>4. CacheHolds
  BY <1>1 DEF CacheHolds
<1> QED BY <1>2, <1>3, <1>4 DEF CInv

\* A query gives what is served as it stands: the row is valid.
LEMMA RowsParse == ASSUME ValidRows, NEW k \in Settings!Keys PROVE Settings!Parsed(k, Settings!Get(k)) = Settings!Get(k)
BY DEF ValidRows, ValidRow, Settings!Parsed, Settings!Get

LEMMA SettingReadStep == ASSUME CInv, NEW r \in Readers, Settings!Read(r) PROVE CInv'
<1>1. rows' = rows /\ writing' = writing /\ cached' = cached
  BY DEF Settings!Read
<1>2. PICK k, q :
        /\ k \in Settings!Keys
        /\ reading' = [reading EXCEPT ![r] = q] /\ DOMAIN q = {"key", "raw", "late"}
        /\ q.key = k /\ q.late \in BOOLEAN /\ (~q.late => q.raw = Settings!Get(k))
  <2>1. PICK k \in Settings!Keys :
          \/ reading' = [reading EXCEPT ![r] = [key |-> k, raw |-> Settings!Get(k), late |-> FALSE]]
          \/ reading' = [reading EXCEPT ![r] = [key |-> k, raw |-> Settings!Default(k), late |-> TRUE]]
    BY DEF Settings!Read
  <2>2. CASE reading' = [reading EXCEPT ![r] = [key |-> k, raw |-> Settings!Get(k), late |-> FALSE]]
    <3> DEFINE q == [key |-> k, raw |-> Settings!Get(k), late |-> FALSE]
    <3>1. DOMAIN q = {"key", "raw", "late"} /\ q.key = k /\ q.late = FALSE /\ q.raw = Settings!Get(k)
      OBVIOUS
    <3> HIDE DEF q
    <3> QED BY <2>2, <3>1 DEF q
  <2>3. CASE reading' = [reading EXCEPT ![r] = [key |-> k, raw |-> Settings!Default(k), late |-> TRUE]]
    <3> DEFINE q == [key |-> k, raw |-> Settings!Default(k), late |-> TRUE]
    <3>1. DOMAIN q = {"key", "raw", "late"} /\ q.key = k /\ q.late = TRUE
      OBVIOUS
    <3> QED BY <2>3, <3>1
  <2> QED BY <2>1, <2>2, <2>3
<1>3. ReadersHold'
  BY <1>1, <1>2 DEF CInv, ReadersHold, Invalidating, Settings!Get
<1> QED BY <1>1, <1>3 DEF CInv, ValidRows, CacheHolds, Invalidating, Settings!Get

LEMMA StoreStep == ASSUME CInv, NEW r \in Readers, Settings!Store(r) PROVE CInv'
<1> DEFINE k == reading[r].key
<1>1. rows' = rows /\ writing' = writing /\ k # "" /\ k \in Settings!Keys
  BY DEF Settings!Store, CInv, ReadersHold
<1>2. cached' = [cached EXCEPT ![k] = [value |-> Settings!Parsed(k, reading[r].raw), fresh |-> TRUE,
                                       suspect |-> reading[r].late]]
  BY DEF Settings!Store
<1>3. reading' = [reading EXCEPT ![r] = Settings!NotReading]
  BY DEF Settings!Store
<1>4. ReadersHold'
  BY <1>1, <1>3 DEF CInv, ReadersHold, Invalidating, Settings!Get, Settings!NotReading
<1>5. ~reading[r].late /\ ~Invalidating(k) => Settings!Parsed(k, reading[r].raw) = Settings!Get(k)
  BY <1>1, RowsParse DEF CInv, ReadersHold
<1>6. CacheHolds'
  BY <1>1, <1>2, <1>5 DEF CInv, CacheHolds, Invalidating, Settings!Get
<1> QED BY <1>1, <1>4, <1>6 DEF CInv, ValidRows

LEMMA ValidateStep == ASSUME CInv, NEW w \in Writers, Settings!Validate(w) PROVE CInv'
<1>1. rows' = rows /\ reading' = reading /\ cached' = cached /\ writing[w].at = "idle"
  BY DEF Settings!Validate
<1>2. CASE writing' = writing
  BY <1>1, <1>2 DEF CInv, ValidRows, ReadersHold, CacheHolds, Invalidating, Settings!Get
<1>3. ASSUME NEW k \in Settings!Keys, NEW value, Settings!Accepted(k, value),
             writing' = [writing EXCEPT ![w] = [key |-> k, value |-> value, at |-> "set"]]
      PROVE  CInv'
  <2>1. ValidRow(k, value)
    BY <1>3 DEF ValidRow, Settings!Accepted
  <2>2. ValidRows'
    BY <1>1, <1>3, <2>1 DEF CInv, ValidRows, ValidRow, Settings!ValidCap
  <2>3. \A j : Invalidating(j)' = Invalidating(j)
    BY <1>1, <1>3 DEF CInv, ValidRows, Invalidating
  <2> QED BY <1>1, <2>2, <2>3 DEF CInv, ReadersHold, CacheHolds, Settings!Get
<1> QED BY <1>2, <1>3 DEF Settings!Validate

LEMMA SetStep == ASSUME CInv, NEW w \in Writers, Settings!Set(w) PROVE CInv'
<1>1. reading' = reading /\ cached' = cached /\ writing[w].at = "set"
  BY DEF Settings!Set
<1>2. CASE writing' = [writing EXCEPT ![w] = Settings!NotWriting] /\ rows' = rows
  <2>1. \A j : Invalidating(j)' = Invalidating(j)
    BY <1>1, <1>2 DEF CInv, ValidRows, Invalidating, Settings!NotWriting
  <2>2. ValidRows'
    BY <1>2 DEF CInv, ValidRows, Settings!NotWriting
  <2> QED BY <1>1, <1>2, <2>1, <2>2 DEF CInv, ReadersHold, CacheHolds, Settings!Get
<1>3. CASE /\ rows' = Settings!Upsert(writing[w].key, writing[w].value)
           /\ writing' = [writing EXCEPT ![w].at = "invalidate"]
  <2>0. PICK k : k = writing[w].key
    OBVIOUS
  <2>1. ValidRow(k, writing[w].value)
    BY <1>1, <2>0 DEF CInv, ValidRows
  <2>2. ValidRows'
    BY <1>3, <2>0, <2>1 DEF CInv, ValidRows, ValidRow, Settings!Upsert, Settings!ValidCap
  <2>3. Invalidating(k)' /\ \A j : Invalidating(j) => Invalidating(j)'
    BY <1>1, <1>3, <2>0 DEF CInv, ValidRows, Invalidating
  <2>4. \A j : j # k => Settings!Get(j)' = Settings!Get(j)
    BY <1>3, <2>0 DEF Settings!Get, Settings!Upsert
  <2>5. ReadersHold'
    <3>1. ASSUME NEW r \in Readers, NEW j, j = reading[r].key, j # "", ~reading[r].late, ~Invalidating(j)'
          PROVE  reading[r].raw = Settings!Get(j)'
      <4>1. j # k /\ ~Invalidating(j)
        BY <2>3, <3>1
      <4> QED BY <2>4, <3>1, <4>1 DEF CInv, ReadersHold
    <3> QED BY <1>1, <3>1 DEF CInv, ReadersHold
  <2>6. CacheHolds'
    <3>1. ASSUME NEW j \in Settings!Keys, cached[j].fresh, ~cached[j].suspect, ~Invalidating(j)'
          PROVE  cached[j].value = Settings!Get(j)'
      <4>1. j # k /\ ~Invalidating(j)
        BY <2>3, <3>1
      <4> QED BY <2>4, <3>1, <4>1 DEF CInv, CacheHolds
    <3> QED BY <1>1, <3>1 DEF CInv, CacheHolds
  <2> QED BY <2>2, <2>5, <2>6 DEF CInv
<1> QED BY <1>2, <1>3 DEF Settings!Set

LEMMA InvalidateStep == ASSUME CInv, NEW w \in Writers, Settings!Invalidate(w) PROVE CInv'
<1> DEFINE k == writing[w].key
<1>1. /\ rows' = rows /\ writing' = [writing EXCEPT ![w] = Settings!NotWriting]
      /\ writing[w].at = "invalidate" /\ cached' = [cached EXCEPT ![k].fresh = FALSE]
      /\ reading' = [r \in Readers |-> [reading[r] EXCEPT !.late = @ \/ reading[r].key = k]]
  BY DEF Settings!Invalidate, Settings!Invalidated
<1>2. ValidRows'
  BY <1>1 DEF CInv, ValidRows, Settings!NotWriting
<1>3. \A j : j # k => (Invalidating(j)' <=> Invalidating(j))
  BY <1>1 DEF CInv, ValidRows, Invalidating, Settings!NotWriting
<1>4. ReadersHold'
  <2> SUFFICES ASSUME NEW r \in Readers
               PROVE  /\ DOMAIN reading'[r] = {"key", "raw", "late"} /\ reading'[r].late \in BOOLEAN
                      /\ reading'[r].key # "" =>
                           /\ reading'[r].key \in Settings!Keys
                           /\ ~reading'[r].late /\ ~Invalidating(reading[r].key)' => reading'[r].raw = Settings!Get(reading[r].key)'
    BY <1>1 DEF ReadersHold
  <2>1. /\ DOMAIN reading[r] = {"key", "raw", "late"}
        /\ reading'[r] = [reading[r] EXCEPT !.late = reading[r].late \/ reading[r].key = k]
    BY <1>1 DEF CInv, ReadersHold
  <2>2. /\ reading'[r].key = reading[r].key /\ reading'[r].raw = reading[r].raw
        /\ reading'[r].late = (reading[r].late \/ reading[r].key = k) /\ DOMAIN reading'[r] = DOMAIN reading[r]
    BY <2>1
  <2>3. reading'[r].late \in BOOLEAN
    BY <2>2 DEF CInv, ReadersHold
  <2>4. ~reading'[r].late => ~reading[r].late /\ reading[r].key # k
    BY <2>2
  <2> QED BY <1>1, <1>3, <2>1, <2>2, <2>3, <2>4 DEF CInv, ReadersHold, Settings!Get
<1>5. CacheHolds'
  BY <1>1, <1>3 DEF CInv, CacheHolds, Settings!Get
<1> QED BY <1>2, <1>4, <1>5 DEF CInv

LEMMA TtlStep == ASSUME CInv, Settings!TtlEnds PROVE CInv'
<1>1. rows' = rows /\ reading' = reading /\ writing' = writing
  BY DEF Settings!TtlEnds
<1>2. PICK k \in Settings!Keys : cached' = [cached EXCEPT ![k].fresh = FALSE]
  BY DEF Settings!TtlEnds
<1>3. CacheHolds'
  BY <1>1, <1>2 DEF CInv, CacheHolds, Invalidating, Settings!Get
<1> QED BY <1>1, <1>3 DEF CInv, ValidRows, ReadersHold, Invalidating, Settings!Get

LEMMA SettingsStep == CInv /\ [Settings!Next]_Settings!settingVars => CInv'
<1> SUFFICES ASSUME CInv, [Settings!Next]_Settings!settingVars PROVE CInv'
  OBVIOUS
<1>1. CASE UNCHANGED Settings!settingVars
  BY <1>1 DEF Settings!settingVars, CInv, ValidRows, ReadersHold, CacheHolds, Invalidating, Settings!Get
<1> QED BY <1>1, SettingReadStep, StoreStep, ValidateStep, SetStep, InvalidateStep, TtlStep DEF Settings!Next

\* Once every update is answered, the settings cache serves the row.
THEOREM RowIsServed == Settings!Spec => []ServedIsCurrent
<1>1. CInv => ServedIsCurrent
  BY DEF CInv, CacheHolds, ServedIsCurrent, Settings!ServedIsCurrent, Settings!Served, Invalidating
<1> QED BY <1>1, SettingsInit, SettingsStep, PTL DEF Settings!Spec

---------------------------------------------------------------------------
(* The text of a message.                                                  *)

\* A size or a price of an order is a natural, and the notional is of the size shown.
LEMMA BaseDataIs ==
  ASSUME NEW o \in Text!Orders
  PROVE  /\ DOMAIN Text!BaseData(o) = {"coin", "side", "size", "price", "notional"}
         /\ Text!BaseData(o).size = Text!Size(o) /\ Text!BaseData(o).notional = Text!Size(o) * o.limit
BY DEF Text!BaseData

LEMMA FillMessage ==
  ASSUME NEW f \in Text!Fills, NEW locale, Text!MapFill(f).kind # "none",
         message' = Text!RenderMessage(f, Text!MapFill(f), locale)
  PROVE  Text!MessageIsRight'
<1> DEFINE data == [coin |-> "C", side |-> f.side, size |-> f.size, price |-> f.px,
                    notional |-> f.size * f.px, net |-> f.pnl, fees |-> 0]
<1>1. DOMAIN data = {"coin", "side", "size", "price", "notional", "net", "fees"}
  OBVIOUS
<1> HIDE DEF data
<1>2. \/ Text!MapFill(f) = Text!Intent("position_opened", data)
      \/ Text!MapFill(f) = Text!Intent("position_closed", data)
  BY DEF Text!MapFill, Text!Nothing, data
<1>3. CASE Text!MapFill(f) = Text!Intent("position_opened", data)
  <2>1. Text!RenderKind(Text!MapFill(f)) = "position_opened"
    BY <1>3 DEF Text!RenderKind, Text!Intent
  <2>2. message'.label = "position_opened" /\ message'.raw = {}
    BY <1>1, <1>3, <2>1 DEF Text!RenderMessage, Text!Template, Text!Placed, Text!Filled, Text!Intent
  <2> QED BY <2>2 DEF Text!MessageIsRight
<1>4. CASE Text!MapFill(f) = Text!Intent("position_closed", data)
  <2>1. Text!RenderKind(Text!MapFill(f)) \in {"take_profit", "stop_loss"}
    BY <1>4 DEF Text!RenderKind, Text!Intent
  <2>2. message'.label \in {"take_profit", "stop_loss"} /\ message'.raw = {"entry", "exit", "duration"}
    BY <1>1, <1>4, <2>1 DEF Text!RenderMessage, Text!Template, Text!Closed, Text!Filled, Text!Intent
  <2> QED BY <2>2 DEF Text!MessageIsRight
<1> QED BY <1>2, <1>3, <1>4

LEMMA CreatedMessage ==
  ASSUME NEW o \in Text!Orders, NEW locale, Text!MapOrderCreated(o).kind # "none",
         message' = Text!RenderMessage(o, Text!MapOrderCreated(o), locale)
  PROVE  Text!MessageIsRight'
<1> DEFINE base == Text!BaseData(o)
           more == [f \in DOMAIN base \cup {"trigger", "mark"} |->
                      CASE f = "trigger" -> Text!TriggerPx(o) [] f = "mark" -> o.limit [] OTHER -> base[f]]
           intent == Text!MapOrderCreated(o)
<1>1. Text!Size(o) \in Nat /\ Text!Size(o) > 0
  <2>1. ~(o.status # "open" \/ Text!Size(o) <= 0)
    BY DEF Text!MapOrderCreated, Text!Nothing
  <2>2. o.size \in Nat /\ o.orig \in Nat
    BY TextAssumption DEF Text!Orders
  <2> QED BY <2>1, <2>2 DEF Text!Size
<1>2. /\ DOMAIN base = {"coin", "side", "size", "price", "notional"}
      /\ base.size = Text!Size(o) /\ base.notional = Text!Size(o) * o.limit
  BY BaseDataIs
<1>3. DOMAIN more = {"coin", "side", "size", "price", "notional", "trigger", "mark"}
  BY <1>2
<1>4. /\ message'.label = Text!RenderKind(intent) /\ message'.data = intent.data /\ message'.of = o
      /\ message'.raw = Text!Template(Text!RenderKind(intent)) \ Text!Filled(intent)
  BY DEF Text!RenderMessage
<1>5. \/ intent = Text!Intent("tp_placed", more) /\ o.reduceOnly /\ Text!TakesProfit(o)
      \/ intent = Text!Intent("sl_placed", more) /\ o.reduceOnly /\ Text!StopsLoss(o)
      \/ intent = Text!Intent("close_limit_placed", base)
      \/ intent = Text!Intent("limit_placed", base)
  BY DEF Text!MapOrderCreated, Text!Nothing
<1> HIDE DEF base, more, intent
<1>6. o.side \in {"BUY", "SELL"}
  BY DEF Text!Orders, Text!Sides
<1>7. CASE intent = Text!Intent("tp_placed", more) /\ o.reduceOnly /\ Text!TakesProfit(o)
  <2>1. Text!RenderKind(intent) = "tp_placed"
    BY <1>7 DEF Text!RenderKind, Text!Intent
  <2>2. message'.raw = {}
    BY <1>3, <1>4, <1>7, <2>1 DEF Text!Template, Text!Filled, Text!Intent
  <2>3. o.side = "SELL" <=> o.cond = "above"
    BY <1>6, <1>7 DEF Text!TakesProfit
  <2> QED BY <1>4, <1>7, <2>1, <2>2, <2>3 DEF Text!MessageIsRight
<1>8. CASE intent = Text!Intent("sl_placed", more) /\ o.reduceOnly /\ Text!StopsLoss(o)
  <2>1. Text!RenderKind(intent) = "sl_placed"
    BY <1>8 DEF Text!RenderKind, Text!Intent
  <2>2. message'.raw = {}
    BY <1>3, <1>4, <1>8, <2>1 DEF Text!Template, Text!Filled, Text!Intent
  <2>3. o.side = "SELL" <=> o.cond = "below"
    BY <1>6, <1>8 DEF Text!StopsLoss
  <2> QED BY <1>4, <1>8, <2>1, <2>2, <2>3 DEF Text!MessageIsRight
<1>9. CASE intent = Text!Intent("close_limit_placed", base) \/ intent = Text!Intent("limit_placed", base)
  <2>1. Text!RenderKind(intent) \in {"close_limit_placed", "limit_placed"} /\ intent.data = base
    BY <1>9 DEF Text!RenderKind, Text!Intent
  <2>2. message'.raw = {}
    BY <1>2, <1>4, <2>1 DEF Text!Template, Text!Placed, Text!Filled
  <2>3. message'.data.notional = message'.data.size * message'.of.limit /\ message'.data.size > 0
    BY <1>1, <1>2, <1>4, <2>1
  <2> QED BY <1>4, <2>1, <2>2, <2>3 DEF Text!MessageIsRight
<1> QED BY <1>5, <1>7, <1>8, <1>9

LEMMA CanceledMessage ==
  ASSUME NEW o \in Text!Orders, NEW locale, Text!MapOrderUpdated(o).kind # "none",
         message' = Text!RenderMessage(o, Text!MapOrderUpdated(o), locale)
  PROVE  Text!MessageIsRight'
<1> DEFINE data == [coin |-> "C", side |-> o.side, size |-> Text!Size(o), price |-> o.limit]
<1>1. Text!MapOrderUpdated(o) = Text!Intent("order_canceled", data)
  BY DEF Text!MapOrderUpdated, Text!Nothing
<1>2. DOMAIN data = {"coin", "side", "size", "price"}
  OBVIOUS
<1> HIDE DEF data
<1>3. Text!RenderKind(Text!MapOrderUpdated(o)) = "order_canceled"
  BY <1>1 DEF Text!RenderKind, Text!Intent
<1>4. message'.label = "order_canceled" /\ message'.raw = {}
  BY <1>1, <1>2, <1>3 DEF Text!RenderMessage, Text!Template, Text!Filled, Text!Intent
<1> QED BY <1>4 DEF Text!MessageIsRight

\* Every message is right, for any sizes, prices and locales.
THEOREM TextIsRight == Text!Spec => []Text!MessageIsRight
<1>1. Text!Init => Text!MessageIsRight
  <2>1. Text!Init => message.label = "none yet"
    <3>1. [label |-> "none yet"].label = "none yet"
      OBVIOUS
    <3> QED BY <3>1, Zenon DEF Text!Init, Text!NoMessage
  <2> QED BY <2>1 DEF Text!MessageIsRight
<1>2. ASSUME Text!MessageIsRight, [Text!Next]_message PROVE Text!MessageIsRight'
  <2>1. CASE UNCHANGED message
    BY <1>2, <2>1 DEF Text!MessageIsRight
  <2>2. CASE Text!Announce
    <3>1. PICK ev \in Text!Orders \cup Text!Fills, locale \in Locales :
            message' = IF Text!MapWalletEvent(ev).kind = "none" THEN [label |-> "none", of |-> ev]
                       ELSE Text!RenderMessage(ev, Text!MapWalletEvent(ev), locale)
      BY <2>2 DEF Text!Announce
    <3>2. CASE Text!MapWalletEvent(ev).kind = "none"
      <4>1. message'.label = "none"
        BY <3>1, <3>2
      <4> QED BY <4>1 DEF Text!MessageIsRight
    <3>3. CASE Text!MapWalletEvent(ev).kind # "none"
      <4>1. CASE ev \in Text!Fills
        <5>1. Text!MapWalletEvent(ev) = Text!MapFill(ev)
          BY <4>1 DEF Text!MapWalletEvent, Text!Fills
        <5> QED BY <3>1, <3>3, <4>1, <5>1, FillMessage
      <4>2. CASE ev \in Text!Orders /\ ev.type = "order.created"
        <5>1. Text!MapWalletEvent(ev) = Text!MapOrderCreated(ev)
          BY <4>2 DEF Text!MapWalletEvent
        <5> QED BY <3>1, <3>3, <4>2, <5>1, CreatedMessage
      <4>3. CASE ev \in Text!Orders /\ ev.type = "order.updated"
        <5>1. Text!MapWalletEvent(ev) = Text!MapOrderUpdated(ev)
          BY <4>3 DEF Text!MapWalletEvent
        <5> QED BY <3>1, <3>3, <4>3, <5>1, CanceledMessage
      <4> QED BY <4>1, <4>2, <4>3 DEF Text!Orders
    <3> QED BY <3>2, <3>3
  <2> QED BY <1>2, <2>1, <2>2 DEF Text!Next
<1> QED BY <1>1, <1>2, PTL DEF Text!Spec

\* The bot and its messages: commands once and in order, a chat of one account,
\* and texts that say what happened.
THEOREM BotHolds == Telegram!Spec /\ Text!Spec => []TelegramHolds
<1>1. Telegram!CommandsOnceInOrder /\ Text!MessageIsRight => TelegramHolds
  BY DEF TelegramHolds
<1> QED BY <1>1, LinkedOnce, TextIsRight, PTL
=============================================================================
