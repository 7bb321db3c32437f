----------------------------- MODULE WalletLinks -----------------------------
(***************************************************************************)
(* Signing in with a wallet, and the wallets of an account.  The rows of   *)
(* wallet_addresses are unique per address; a nonce is read, and marked as *)
(* used by a later statement.                                              *)
(***************************************************************************)
EXTENDS Sessions

CONSTANTS
  Addresses,           \* address and chain
  UnsupportedChain,    \* those on a chain that is not configured
  NonceIds, WalletIds

ASSUME WalletAssumption == NonceIds \subseteq Nat /\ WalletIds \subseteq Nat

VARIABLES
  wallets,    \* the rows of wallet_addresses, by id (an id is never reused)
  nonces      \* the rows of wallet_nonces, by id, with how often each was accepted

walletVars == <<wallets, nonces>>
accountVars == <<sessionVars, walletVars>>

InitWallets == Init /\ wallets = <<>> /\ nonces = <<>>

Free(ids, rows) == CHOOSE i \in ids \ DOMAIN rows : \A j \in ids \ DOMAIN rows : i <= j

---------------------------------------------------------------------------
(* The statements of the repository.                                       *)
GetWalletByAddress(a) == {w \in DOMAIN wallets : wallets[w].address = a /\ ~wallets[w].deleted}
GetWalletsByUserID(u) == {w \in DOMAIN wallets : wallets[w].user = u /\ ~wallets[w].deleted}
IsWalletOwnedByUser(u, a) == \E w \in GetWalletByAddress(a) : wallets[w].user = u
IsWalletOwnedBy(u, w) == w \in GetWalletsByUserID(u)
WalletRow(u, a, primary) == [user |-> u, address |-> a, primary |-> primary, deleted |-> FALSE]
\* The insert fails on the unique address.
CreateWallet(u, a) ==
  IF GetWalletByAddress(a) = {} /\ WalletIds \ DOMAIN wallets # {}
  THEN wallets' = Insert(wallets, Free(WalletIds, wallets), WalletRow(u, a, FALSE))
  ELSE UNCHANGED wallets
DeleteWallet(w) == wallets' = [wallets EXCEPT ![w].deleted = TRUE]
CreateNonce(a) ==
  nonces' = Insert(nonces, Free(NonceIds, nonces),
                   [address |-> a, used |-> FALSE, expired |-> FALSE, accepted |-> 0])
GetUnexpiredNonce(n, a) == n \in DOMAIN nonces /\ nonces[n].address = a /\ ~nonces[n].expired \* a mutant
GetValidNonce(n, a) ==
  n \in DOMAIN nonces /\ nonces[n].address = a /\ ~nonces[n].used /\ ~nonces[n].expired
MarkNonceUsed(n) == nonces' = [nonces EXCEPT ![n].used = TRUE, ![n].accepted = @ + 1]
GetUserByAddress(a) == {wallets[w].user : w \in GetWalletByAddress(a)}
\* One transaction: the user and its first wallet, or neither.
CanCreateUserWithWallet(a) ==
  /\ GetWalletByAddress(a) = {}
  /\ WalletIds \ DOMAIN wallets # {} /\ UserIds \ DOMAIN users # {}
CreateUserWithWallet(a) ==
  /\ CreateUser(User(NoEmail, NoEmail, "user", "wallet"))
  /\ wallets' = Insert(wallets, Free(WalletIds, wallets), WalletRow(FreshUser, a, TRUE))

---------------------------------------------------------------------------
(* POST /auth/wallet/nonce: the message to sign carries the nonce.         *)
GenerateNonce(c, a) ==
  /\ UNCHANGED <<users, tokens, bearer, wallets>>
  /\ IF a \in UnsupportedChain THEN Refuse(c, "UNSUPPORTED_CHAIN") /\ UNCHANGED nonces
     ELSE \/ Refuse(c, "VALIDATION") /\ UNCHANGED nonces \* not an address
          \/ /\ NonceIds \ DOMAIN nonces # {} \* bound
             /\ CreateNonce(a) /\ AnswerAtOnce(c, RespondSuccess)
GetNonce(c) == \E a \in Addresses : GenerateNonce(c, a)

\* Both uses of a signed message: the message, its nonce, its signature.
CheckMessage(c, op, n, a, user) ==
  \E valid \in BOOLEAN :
    IF a \in UnsupportedChain THEN Refuse(c, "UNSUPPORTED_CHAIN")
    ELSE IF ~valid THEN Refuse(c, "INVALID_SIGNATURE")
    ELSE IF ~GetValidNonce(n, a) THEN Refuse(c, "NONCE_EXPIRED")
    ELSE Begin(c, [op |-> op, at |-> "mark", nonce |-> n, address |-> a, user |-> user,
                   reply |-> NoResponse])
MarkUsed(c) ==
  /\ At(c, call[c].op, "mark")
  /\ \/ MarkNonceUsed(call[c].nonce) /\ Goto(c, "wallet")
     \/ /\ UNCHANGED <<nonces, requests>> \* the error is dropped
        /\ call' = [call EXCEPT ![c].at = "wallet"]
        /\ raced' = raced \cup {"message"}
  /\ UNCHANGED <<users, tokens, bearer, wallets>>

(* POST /auth/wallet/verify: the account of the address, or a new one.     *)
VerifyFind(c) ==
  /\ At(c, "verify", "wallet") /\ UNCHANGED <<users, tokens, bearer, walletVars, raced, requests>>
  /\ call' = IF GetUserByAddress(call[c].address) = {} THEN [call EXCEPT ![c].at = "create"]
             ELSE [call EXCEPT ![c].at = "token",
                               ![c].user = CHOOSE u \in GetUserByAddress(call[c].address) : TRUE]
VerifyCreate(c) ==
  /\ At(c, "verify", "create") /\ UNCHANGED <<tokens, bearer, nonces>>
  /\ IF CanCreateUserWithWallet(call[c].address)
     THEN /\ CreateUserWithWallet(call[c].address)
          /\ call' = [call EXCEPT ![c].at = "token", ![c].user = FreshUser]
          /\ UNCHANGED <<raced, requests>>
     ELSE Answer(c, RespondError("INTERNAL")) /\ UNCHANGED <<users, wallets>>
VerifySignature(c) ==
  \/ /\ \E n \in NonceIds, a \in Addresses : CheckMessage(c, "verify", n, a, NoUser)
     /\ UNCHANGED <<users, tokens, bearer, walletVars>>
  \/ call[c].op = "verify" /\ MarkUsed(c)
  \/ VerifyFind(c)
  \/ VerifyCreate(c)
  \/ call[c].op = "verify" /\ GenerateAuthResponse(c, RespondSuccess) /\ UNCHANGED walletVars

(* POST /auth/wallet/link: refused when another account has the address,   *)
(* nothing to do when this one has it.  The account's method stays what it *)
(* is: GetUserByID does not read auth_method, so it never equals "email".  *)
LinkInsert(c) ==
  /\ At(c, "link", "insert") /\ UNCHANGED <<users, tokens, bearer, nonces>>
  /\ CreateWallet(call[c].user, call[c].address)
  /\ Answer(c, IF GetWalletByAddress(call[c].address) = {} THEN RespondNoContent
               ELSE RespondError("INTERNAL"))
LinkLookup(c) ==
  /\ At(c, "link", "wallet") /\ UNCHANGED <<users, tokens, bearer, walletVars>>
  /\ LET owners == GetUserByAddress(call[c].address) IN
     IF owners \ {call[c].user} # {} THEN Answer(c, RespondError("WALLET_LINKED"))
     ELSE IF IsWalletOwnedByUser(call[c].user, call[c].address) THEN Answer(c, RespondNoContent)
     ELSE Goto(c, "insert")
LinkWallet(c) ==
  \/ /\ JWT(c, /\ \E n \in NonceIds, a \in Addresses : CheckMessage(c, "link", n, a, bearer[c].user)
               /\ UNCHANGED <<users, tokens, bearer>>)
     /\ UNCHANGED walletVars
  \/ call[c].op = "link" /\ MarkUsed(c)
  \/ LinkLookup(c)
  \/ LinkInsert(c)

(* DELETE /auth/wallet/:id: owned, not the last one, delete.               *)
UnlinkUncounted(c, w) == \* a mutant
  /\ UNCHANGED walletVars
  /\ JWT(c, /\ IF ~IsWalletOwnedBy(bearer[c].user, w) THEN Refuse(c, "WALLET_NOT_FOUND")
               ELSE Begin(c, [op |-> "unlink", at |-> "delete", wallet |-> w,
                              reply |-> NoResponse])
            /\ UNCHANGED <<users, tokens, bearer>>)
UnlinkCheck(c, w) ==
  /\ UNCHANGED walletVars
  /\ JWT(c, /\ IF ~IsWalletOwnedBy(bearer[c].user, w) THEN Refuse(c, "WALLET_NOT_FOUND")
               ELSE IF Cardinality(GetWalletsByUserID(bearer[c].user)) <= 1
                    THEN Refuse(c, "VALIDATION")
               ELSE Begin(c, [op |-> "unlink", at |-> "delete", wallet |-> w,
                              reply |-> NoResponse])
            /\ UNCHANGED <<users, tokens, bearer>>)
UnlinkDelete(c) ==
  /\ At(c, "unlink", "delete")
  /\ DeleteWallet(call[c].wallet) /\ Answer(c, RespondNoContent)
  /\ UNCHANGED <<users, tokens, bearer, nonces>>
UnlinkWallet(c) ==
  \/ \E w \in WalletIds : UnlinkCheck(c, w)
  \/ UnlinkDelete(c)

(* GET /auth/wallet/list                                                   *)
ListWallets(c) ==
  JWT(c, AnswerAtOnce(c, RespondSuccess) /\ UNCHANGED <<users, tokens, bearer>>)
  /\ UNCHANGED walletVars

NonceExpires ==
  /\ \E n \in DOMAIN nonces : nonces' = [nonces EXCEPT ![n].expired = TRUE]
  /\ UNCHANGED <<sessionVars, wallets>>

NextAccounts ==
  \/ \E c \in Clients : Step(c) /\ UNCHANGED walletVars
  \/ \E c \in Clients : GetNonce(c)
  \/ \E c \in Clients : VerifySignature(c)
  \/ \E c \in Clients : LinkWallet(c)
  \/ \E c \in Clients : UnlinkWallet(c)
  \/ \E c \in Clients : ListWallets(c)
  \/ NonceExpires
  \/ Background /\ UNCHANGED walletVars

AccountSpec == InitWallets /\ [][NextAccounts]_accountVars

---------------------------------------------------------------------------
(* An account without an address to sign in with keeps a wallet, as long as  *)
(* two unlinkings do not overlap: the count is read a statement before the   *)
(* delete.                                                                   *)
KeepsAWallet ==
  "unlink" \notin raced =>
    \A u \in DOMAIN users : users[u].method = "wallet" => GetWalletsByUserID(u) # {}

(* What is good for one use is used once: a refresh token buys one successor *)
(* and a message is accepted once, as long as two requests that carry it do  *)
(* not overlap and the statement that marks it does not fail.                *)
UsedOnce ==
  /\ "refresh" \notin raced => \A t \in DOMAIN tokens : tokens[t].exchanges <= 1
  /\ "message" \notin raced => \A n \in DOMAIN nonces : nonces[n].accepted <= 1
=============================================================================
