---------------------------- MODULE TelegramLink ----------------------------
(***************************************************************************)
(* Binding an account to a Telegram chat: the web asks for a code, the     *)
(* chat presents it to the bot.  The bot polls; its offset lives in memory *)
(* and Telegram forgets an update once a poll asks for a later one.        *)
(***************************************************************************)
EXTENDS Api, Integers, Sequences

CONSTANTS
  Accounts, Chats, NoChat,
  CodeIds,       \* the codes GenerateCode can return, 1..N
  MaxUpdates,    \* bound: messages sent to the bot
  MaxRestarts    \* bound

VARIABLES
  bindings,   \* telegram_bindings by account: the chat and whether it is blocked
  codes,      \* telegram_link_codes by code
  link,       \* a CreateLink in flight, by account: the tabs between two statements
  sent,       \* the messages users sent to the bot: chat, command, code
  offset,     \* Bot.Offset
  batch,      \* the updates of the last poll that are not handled yet
  handled,    \* history: how often each message was handled
  restarts

telegramVars == <<bindings, codes, link, sent, offset, batch, handled, restarts>>

NoBinding == [chat |-> NoChat, status |-> "none"]

Init ==
  /\ bindings = [a \in Accounts |-> NoBinding]
  /\ codes = <<>> /\ link = [a \in Accounts |-> <<>>]
  /\ sent = <<>> /\ offset = 1 /\ batch = <<>> /\ handled = <<>> /\ restarts = 0

---------------------------------------------------------------------------
(* The statements of the repository.                                       *)
GetBinding(a) == bindings[a] # NoBinding
GetBindingByChatID(chat) == {a \in Accounts : bindings[a].chat = chat}
\* telegram_bindings.chat_id is unique: the insert of a second account fails.
UpsertAllowed(a, chat) == GetBindingByChatID(chat) \subseteq {a}
UpsertBinding(a, chat) == bindings' = [bindings EXCEPT ![a] = [chat |-> chat, status |-> "active"]]
DeleteBinding(a) == bindings' = [bindings EXCEPT ![a] = NoBinding]
MarkBlocked(b, chat) ==
  [a \in Accounts |-> IF b[a].chat = chat THEN [b[a] EXCEPT !.status = "blocked"] ELSE b[a]]
Usable(c) == codes[c].state = "fresh"
GetActiveCode(a) == {c \in DOMAIN codes : codes[c].account = a /\ Usable(c)}
Unused(a, c) == codes[c].account = a /\ codes[c].state \in {"fresh", "expired"}
DeleteUnusedCodes(a) ==
  codes' = [c \in DOMAIN codes |-> IF Unused(a, c) THEN [codes[c] EXCEPT !.state = "deleted"] ELSE codes[c]]
GenerateCode == CHOOSE c \in CodeIds \ DOMAIN codes : TRUE
LinkCode(a) == [account |-> a, state |-> "fresh"]
CreateCode(a) ==
  LET new == GenerateCode IN
  codes' = [c \in DOMAIN codes \cup {new} |-> IF c = new THEN LinkCode(a) ELSE codes[c]]
\* One statement: an unused code that is not expired becomes used.
ConsumeCode(c) == codes' = [codes EXCEPT ![c].state = "used"]

---------------------------------------------------------------------------
(* POST /telegram/link: refuse a bound account, return its usable code,    *)
(* or delete what is unused and insert a new one.  Two tabs interleave     *)
(* between the look-up and each write.                                     *)
CreateLink(a) ==
  /\ ~GetBinding(a) /\ GetActiveCode(a) = {}
  /\ Len(link[a]) < 2 \* bound: two tabs
  /\ link' = [link EXCEPT ![a] = Append(@, "delete")]
  /\ UNCHANGED <<bindings, codes, sent, offset, batch, handled, restarts>>
CreateLinkDelete(a) ==
  /\ \E i \in DOMAIN link[a] : link[a][i] = "delete" /\ link' = [link EXCEPT ![a][i] = "create"]
  /\ DeleteUnusedCodes(a)
  /\ UNCHANGED <<bindings, sent, offset, batch, handled, restarts>>
CreateLinkInsert(a) ==
  /\ CodeIds \ DOMAIN codes # {} \* bound
  /\ \E i \in DOMAIN link[a] :
       link[a][i] = "create" /\ link' = [link EXCEPT ![a] = SubSeq(@, 1, i - 1) \o SubSeq(@, i + 1, Len(@))]
  /\ CreateCode(a)
  /\ UNCHANGED <<bindings, sent, offset, batch, handled, restarts>>
Link(a) == CreateLink(a) \/ CreateLinkDelete(a) \/ CreateLinkInsert(a)

(* DELETE /telegram/link                                                   *)
Unlink(a) ==
  /\ GetBinding(a) /\ DeleteBinding(a)
  /\ UNCHANGED <<codes, link, sent, offset, batch, handled, restarts>>

\* GET /telegram/status reads the binding and the number of enabled groups.
Status(a) == IF GetBinding(a) THEN bindings[a].status ELSE "not connected"

CodeExpires ==
  /\ \E c \in DOMAIN codes : Usable(c) /\ codes' = [codes EXCEPT ![c].state = "expired"]
  /\ UNCHANGED <<bindings, link, sent, offset, batch, handled, restarts>>

---------------------------------------------------------------------------
(* What users send to the bot.                                             *)
Message(chat, cmd, code) == [chat |-> chat, cmd |-> cmd, code |-> code]
UserSends ==
  /\ Len(sent) < MaxUpdates
  /\ \E chat \in Chats, cmd \in {"/start", "/status", "/stop"}, c \in {0} \cup DOMAIN codes :
       /\ cmd # "/start" => c = 0
       /\ sent' = Append(sent, Message(chat, cmd, c))
  /\ handled' = Append(handled, 0)
  /\ UNCHANGED <<bindings, codes, link, offset, batch, restarts>>

\* getUpdates: what is at or after the offset, in order.
GetUpdates ==
  /\ batch = <<>> /\ offset <= Len(sent)
  /\ batch' = [i \in 1..(Len(sent) - offset + 1) |-> offset + i - 1]
  /\ UNCHANGED <<bindings, codes, link, sent, offset, handled, restarts>>

\* reply: a permanent error marks the chat's binding as blocked.
Reply(b, chat) == {b, MarkBlocked(b, chat)}

HandleStart(m) ==
  IF m.code = 0 \/ ~(m.code \in DOMAIN codes) THEN bindings' \in Reply(bindings, m.chat) /\ UNCHANGED codes
  ELSE IF ~Usable(m.code) THEN bindings' \in Reply(bindings, m.chat) /\ UNCHANGED codes
  ELSE LET a == codes[m.code].account
           bound == [bindings EXCEPT ![a] = [chat |-> m.chat, status |-> "active"]]
       IN  /\ ConsumeCode(m.code)
           /\ bindings' \in IF GetBinding(a) \/ ~UpsertAllowed(a, m.chat)
                            THEN Reply(bindings, m.chat) ELSE Reply(bound, m.chat)
HandleStatus(m) == bindings' \in Reply(bindings, m.chat) /\ UNCHANGED codes
HandleStop(m) ==
  /\ bindings' = [a \in Accounts |-> IF a \in GetBindingByChatID(m.chat) THEN NoBinding ELSE bindings[a]]
  /\ UNCHANGED codes

SameOffset(u) == u \* a mutant
NextOffset(u) == IF u >= offset THEN u + 1 ELSE offset
HandleUpdate ==
  /\ batch # <<>>
  /\ LET u == Head(batch) IN
     /\ offset' = NextOffset(u)
     /\ handled' = [handled EXCEPT ![u] = @ + 1]
     /\ CASE sent[u].cmd = "/start"  -> HandleStart(sent[u])
          [] sent[u].cmd = "/status" -> HandleStatus(sent[u])
          [] sent[u].cmd = "/stop"   -> HandleStop(sent[u])
  /\ batch' = Tail(batch)
  /\ UNCHANGED <<link, sent, restarts>>

\* Telegram keeps what no later poll confirmed; the model lets it keep
\* everything from some point on.
Restart ==
  /\ restarts < MaxRestarts /\ restarts' = restarts + 1
  /\ offset' \in 1..offset /\ batch' = <<>>
  /\ link' = [a \in Accounts |-> <<>>]
  /\ UNCHANGED <<bindings, codes, sent, handled>>

Next ==
  \/ \E a \in Accounts : Link(a)
  \/ \E a \in Accounts : Unlink(a)
  \/ CodeExpires
  \/ UserSends
  \/ GetUpdates
  \/ HandleUpdate
  \/ Restart

Spec == Init /\ [][Next]_telegramVars

---------------------------------------------------------------------------
(* A command is handled once, and before the commands after it, as long as   *)
(* the process does not restart; a code connects one account to one chat,    *)
(* and a chat to one account.                                                *)
CommandsOnceInOrder ==
  /\ restarts = 0 =>
       \A i, j \in DOMAIN handled : handled[i] <= 1 /\ (i < j => handled[j] <= handled[i])
  /\ \A a, b \in Accounts : bindings[a].chat = bindings[b].chat /\ bindings[a] # NoBinding => a = b
=============================================================================
