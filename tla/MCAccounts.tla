----------------------------- MODULE MCAccounts -----------------------------
(* What belongs to an account: its sessions, wallets, login limit, groups   *)
(* and Telegram link.  The parts share no state but the ids, so each is     *)
(* checked from starting points of its own.                                 *)
EXTENDS WalletLinks

CONSTANTS
  Tabs, Names, GroupIds, Venues, Registered, Bodies, Caps, DefaultCap, Aliases, NoAlias, MaxGroupRequests,
  Accounts, Chats, NoChat, CodeIds, MaxUpdates, MaxRestarts,
  Requests, Limit, Window, Delay, MaxTime,
  Locales, Sizes, Prices, NoPx,
  Readers, Writers, MaxWrites, CapMin, CapMax, CapDefault, CapRequests, DexRequests, KnownDexes

\* A body names finitely many members; a cap, a limit, a size and a price are
\* naturals, and no chat is the absent one.
ASSUME GroupAssumption ==
  /\ DefaultCap \in Nat /\ Caps \subseteq Nat
  /\ \A body \in Bodies : IsFiniteSet(body)
ASSUME LinkAssumption == NoChat \notin Chats
ASSUME TextAssumption == Sizes \subseteq Nat /\ Prices \subseteq Nat
ASSUME LimiterAssumption == Limit \in Nat /\ Window \in Nat /\ Delay \in Nat

VARIABLES
  part,
  groups, members, cap, tab, history,
  bindings, codes, link, sent, offset, batch, handled, restarts,
  now, buckets, entry, held, passed, orphaned,
  message,
  rows, cached, reading, writing, writes

Group == INSTANCE Groups
Telegram == INSTANCE TelegramLink
Limiter == INSTANCE RateLimit
Text == INSTANCE Messages
Settings == INSTANCE AppSettings

Item(v, w) == [venue |-> v, wallet |-> w]
MCTabs == {<<"u", 1>>, <<"u", 2>>}
MCRegistered == {<<"hl", "w1">>, <<"hl", "w2">>, <<"hl", "w3">>, <<"x", "w1">>}
MCBodies ==
  {{Item("hl", "w2")}, {Item("hl", "w3")}, {Item("x", "w1"), Item("hl", "w2")}, {Item("hl", "w1"), Item("?", "w1")}}

PasswordAccount == users = <<User("e", "p", "user", "email")>>
WalletAccount == users = <<User(NoEmail, NoEmail, "user", "wallet")>>
AccountsInit ==
  /\ call = [c \in Clients |-> Idle] /\ raced = {} /\ requests = 0
  /\ bearer = [c \in Clients |-> IF part \in {"session", "wallet"}
                                 THEN [user |-> 1, role |-> "user", expired |-> FALSE]
                                 ELSE NoClaims]
  /\ CASE part = "session" -> PasswordAccount
       [] part = "wallet"  -> WalletAccount
       [] OTHER            -> users = <<>>
  /\ tokens = IF part = "session" THEN <<RefreshTokenOf(1, "p")>> ELSE <<>>
  /\ wallets = IF part = "wallet" THEN <<WalletRow(1, "a", TRUE), WalletRow(1, "b", FALSE)>>
               ELSE <<>>
  /\ nonces = IF part = "wallet"
              THEN <<[address |-> "a", used |-> FALSE, expired |-> FALSE, accepted |-> 0]>>
              ELSE <<>>
\* A group with its member, and a group of somebody else.
GroupsInit ==
  /\ groups = [g \in {1, 2} |-> [owner |-> IF g = 1 THEN "u" ELSE "v", name |-> "n", deleted |-> FALSE]]
  /\ members = (<<1, "hl", "w1">> :> "") /\ cap = 0
  /\ tab = [t \in Tabs |-> Group!Quiet]
  /\ history = [highest |-> 1, overlapped |-> {}, requests |-> 0]

MCInit ==
  /\ part \in {"empty", "session", "wallet", "groups", "telegram", "limiter", "text", "settings"}
  /\ AccountsInit /\ GroupsInit /\ Telegram!Init /\ Limiter!Init /\ Text!Init /\ Settings!Init

linkVars == <<bindings, codes, link, sent, offset, batch, handled, restarts>>
limiterVars == <<now, buckets, entry, held, passed, orphaned>>
groupVars == <<groups, members, cap, tab, history>>
settingVars == <<rows, cached, reading, writing, writes>>
otherVars == <<groupVars, linkVars, limiterVars, message, settingVars>>

Password == part \in {"empty", "session"} /\ UNCHANGED <<part, walletVars, otherVars>>
Wallet == part = "wallet" /\ UNCHANGED <<part, otherVars>>
InGroups == part = "groups" /\ UNCHANGED <<part, accountVars, linkVars, limiterVars, message, settingVars>>
InTelegram == part = "telegram" /\ UNCHANGED <<part, accountVars, groupVars, limiterVars, message, settingVars>>
InLimiter == part = "limiter" /\ UNCHANGED <<part, accountVars, groupVars, linkVars, message, settingVars>>
InText == part = "text" /\ UNCHANGED <<part, accountVars, groupVars, linkVars, limiterVars, settingVars>>
InSettings == part = "settings" /\ UNCHANGED <<part, accountVars, groupVars, linkVars, limiterVars, message>>

MCNext ==
  \/ Password /\ \E c \in Clients : Step(c)
  \/ Password /\ Background
  \/ Wallet /\ \E c \in Clients : GetNonce(c)
  \/ Wallet /\ \E c \in Clients : VerifySignature(c)
  \/ Wallet /\ \E c \in Clients : LinkWallet(c)
  \/ Wallet /\ \E c \in Clients : UnlinkWallet(c)
  \/ Wallet /\ \E c \in Clients : ListWallets(c)
  \/ Wallet /\ NonceExpires
  \/ InGroups /\ Group!Next
  \/ InTelegram /\ Telegram!Next
  \/ InLimiter /\ Limiter!Next
  \/ InText /\ Text!Next
  \/ InSettings /\ Settings!Next

Symmetric == Permutations(Clients) \cup Permutations(Accounts) \cup Permutations(Chats)
Spec == MCInit /\ [][MCNext]_<<accountVars, otherVars, part>>

\* The cap of watched wallets, over all the groups of a user (Groups).
CapHolds == Group!CapHolds
\* No more than twice the limit in one window's time (RateLimit).
TwiceTheLimit == Limiter!TwiceTheLimit
\* What the settings cache serves is the row (AppSettings).
ServedIsCurrent == Settings!ServedIsCurrent
\* The bot handles a command once and in order and a code binds one chat
\* (TelegramLink); the text of a message says what the event was (Messages).
TelegramHolds == Telegram!CommandsOnceInOrder /\ Text!MessageIsRight
=============================================================================
