---------------------------- MODULE SupportChat ----------------------------
(***************************************************************************)
(* The support chat: MessageToAdminPage of every user, AdminChatScreen and *)
(* the message badges of AdminDashboard of the one administrator.          *)
(*                                                                         *)
(* The badge of a user is lit when the newest message of the chat is newer *)
(* than lastSeenByAdmin, as the tile of the user last read it.  A tap on   *)
(* it asks for the newest message, stores its time, and only then shows    *)
(* the chat; messages and other taps come in between, each call may fail,  *)
(* and the app may end.  A user's page builds the bubbles of the messages  *)
(* it scrolls to, and marks the answers among them as seen.                *)
(*                                                                         *)
(* A message is the time the server gave it, its sender and its seen mark. *)
(* One that is on its way is in the chat of its sender's device already,   *)
(* last and without a time.                                                *)
(*                                                                         *)
(* What is typed is abstracted away: a tap on the send button of an open   *)
(* page sends something, again when it is tapped again before the field is *)
(* cleared.                                                                *)
(***************************************************************************)
EXTENDS Naturals, Sequences, SequencesExt

CONSTANTS
  Users,
  MaxMessages,  \* bound: messages of a chat
  MaxScreens,   \* bound: chats on top of each other
  MaxSends      \* bound: sends under way, per chat and sender

ASSUME BoundsAssumption == {MaxMessages, MaxScreens, MaxSends} \subseteq Nat

VARIABLES
  chat,      \* per user: the messages on the server
  clock,     \* per user: the time of the newest message ever
  sends,     \* per user and sender: the messages on their way
  marks,     \* per user: the seen marks on their way, by message time
  pages,     \* the users who have their chat page open
  lastSeen,  \* per user: lastSeenByAdmin of messages/{chatId}, 0: null or none
  listed,    \* the users whose document messages/{chatId} exists
  tile,      \* per user: lastSeenByAdmin, as the dashboard last read it
  taps,      \* per user: the await the badge handler has reached, and the
             \*   newest time it knows
  screens,   \* the chats on the administrator's screen, the top one last,
             \*   with the time their handler stored
  read,      \* history, per user: the messages of the chats that were shown
  shown,     \* history, per user: the messages built on the user's page
  missed     \* history, per user: the messages whose badge a handler put out
             \*   without showing the chat

vars == <<chat, clock, sends, marks, pages, lastSeen, listed, tile, taps,
          screens, read, shown, missed>>

Times   == 1..MaxMessages
Known   == 0..MaxMessages
Senders == {"user", "admin"}
Message == [at : Times, from : Senders, seen : BOOLEAN]
Tap     == [step : {"none", "query", "set", "push"}, at : Known]
NoTap   == [step |-> "none", at |-> 0]
Screen  == [of : Users, at : Known, loaded : BOOLEAN]

TimesOf(u) == {m.at : m \in chat[u]}
Newest(u)  == {t \in TimesOf(u) : \A s \in TimesOf(u) : s <= t}

OnTop(u) == screens # <<>> /\ Last(screens).of = u

\* The list of the administrator's top chat is on the screen once its first
\* snapshot is there: what it holds goes into the history.
Shows(u) == OnTop(u) /\ Last(screens).loaded
Observe ==
  read' = [u \in Users |-> read[u] \union IF Shows(u)' THEN TimesOf(u)' ELSE {}]

\* The messages of u that go unread when the chat that a handler was to show,
\* or showed a spinner for, is gone.
Unread(u, at) == {t \in TimesOf(u) \ read[u] : t <= at}

-----------------------------------------------------------------------------
Init ==
  /\ chat = [u \in Users |-> {}]
  /\ clock = [u \in Users |-> 0]
  /\ sends = [u \in Users |-> [s \in Senders |-> 0]]
  /\ marks = [u \in Users |-> {}]
  /\ pages = {}
  /\ lastSeen = [u \in Users |-> 0]
  /\ listed = {}
  /\ tile = [u \in Users |-> 0]
  /\ taps = [u \in Users |-> NoTap]
  /\ screens = <<>>
  /\ read = [u \in Users |-> {}]
  /\ shown = [u \in Users |-> {}]
  /\ missed = [u \in Users |-> {}]

(* The chat page of a user *)

OpenPage(u) ==
  /\ u \notin pages
  /\ pages' = pages \union {u}
  /\ UNCHANGED <<chat, clock, sends, marks, lastSeen, listed, tile, taps,
                 screens, shown, missed>>
  /\ Observe

ClosePage(u) ==
  /\ u \in pages
  /\ pages' = pages \ {u}
  /\ UNCHANGED <<chat, clock, sends, marks, lastSeen, listed, tile, taps,
                 screens, shown, missed>>
  /\ Observe

\* The answers among these messages that are not seen yet are marked.
Mark(u, messages) ==
  marks' = [marks EXCEPT ![u] = @ \union
    {k.at : k \in {n \in messages : n.from = "admin" /\ ~n.seen}}]

\* Faulty variant: one bubble marks the answers of the whole chat.
BuildAndMarkAll(u, m) ==
  /\ u \in pages /\ m \in chat[u]
  /\ shown' = [shown EXCEPT ![u] = @ \union {m.at}]
  /\ Mark(u, chat[u])
  /\ UNCHANGED <<chat, clock, sends, pages, lastSeen, listed, tile, taps,
                 screens, missed>>
  /\ Observe

\* The list is lazy: the bubble of a message is built, and an answer marked,
\* when it is scrolled to.
BuildBubble(u, m) ==
  /\ u \in pages /\ m \in chat[u]
  /\ shown' = [shown EXCEPT ![u] = @ \union {m.at}]
  /\ Mark(u, {m})
  /\ UNCHANGED <<chat, clock, sends, pages, lastSeen, listed, tile, taps,
                 screens, missed>>
  /\ Observe

\* sendMessage of either side, up to its await.
Send(u, sender) ==
  /\ IF sender = "user" THEN u \in pages ELSE OnTop(u)
  /\ sends[u][sender] < MaxSends
  /\ sends' = [sends EXCEPT ![u][sender] = @ + 1]
  /\ UNCHANGED <<chat, clock, marks, pages, lastSeen, listed, tile, taps,
                 screens, shown, missed>>
  /\ Observe

\* A message reaches the server, which gives it a time.
Arrive(u, sender) ==
  /\ sends[u][sender] > 0 /\ clock[u] < MaxMessages
  /\ sends' = [sends EXCEPT ![u][sender] = @ - 1]
  /\ clock' = [clock EXCEPT ![u] = @ + 1]
  /\ chat' = [chat EXCEPT ![u] = @ \union
       {[at |-> clock[u] + 1, from |-> sender, seen |-> FALSE]}]
  /\ UNCHANGED <<marks, pages, lastSeen, listed, tile, taps, screens, shown,
                 missed>>
  /\ Observe

\* The mark of a message is stored, also when the page is closed by now.
MarkStored(u, t) ==
  /\ t \in marks[u]
  /\ marks' = [marks EXCEPT ![u] = @ \ {t}]
  /\ chat' = [chat EXCEPT ![u] =
       {IF m.at = t THEN [m EXCEPT !.seen = TRUE] ELSE m : m \in @}]
  /\ UNCHANGED <<clock, sends, pages, lastSeen, listed, tile, taps, screens,
                 shown, missed>>
  /\ Observe

\* The user deletes a message of their own, for everybody.
DeleteMessage(u, m) ==
  /\ u \in pages /\ m \in chat[u] /\ m.from = "user"
  /\ chat' = [chat EXCEPT ![u] = @ \ {m}]
  /\ UNCHANGED <<clock, sends, marks, pages, lastSeen, listed, tile, taps,
                 screens, shown, missed>>
  /\ Observe

(* The dashboard and the chat screen of the administrator *)

\* The badge of u is lit: the newest message, so any message, is newer than what
\* the tile knows.
HasNewMessage(u) == \E t \in TimesOf(u) : t > tile[u]

\* While an answer of the administrator is on its way, the newest message of the
\* chat has no time: the cast throws and the tile shows an error, no button and
\* no badge.
TileFails(u) == sends[u]["admin"] > 0

\* The tile of a user is built again and reads lastSeenByAdmin: of the server,
\* or the one a handler is about to store there.
BuildTile(u) ==
  /\ \E t \in {lastSeen[u]} \union IF taps[u].step = "set" THEN {taps[u].at} ELSE {} :
       tile' = [tile EXCEPT ![u] = t]
  /\ UNCHANGED <<chat, clock, sends, marks, pages, lastSeen, listed, taps,
                 screens, shown, missed>>
  /\ Observe

\* "Mesajlara Git": the newest message is asked for.  Bound: one handler of a
\* badge at a time.
TapBadge(u) ==
  /\ screens = <<>> /\ taps[u] = NoTap /\ ~TileFails(u)
  /\ taps' = [taps EXCEPT ![u].step = "query"]
  /\ UNCHANGED <<chat, clock, sends, marks, pages, lastSeen, listed, tile,
                 screens, shown, missed>>
  /\ Observe

\* The newest message is known.  Without one there is nothing to store, and an
\* answer that is on its way has no time: null is stored.
NewestRead(u) ==
  /\ taps[u].step = "query"
  /\ \/ /\ chat[u] = {} /\ ~TileFails(u)
        /\ taps' = [taps EXCEPT ![u].step = "push"]
     \/ /\ TileFails(u)
        /\ taps' = [taps EXCEPT ![u].step = "set"]
     \/ /\ ~TileFails(u)
        /\ \E t \in Newest(u) :
             taps' = [taps EXCEPT ![u] = [step |-> "set", at |-> t]]
  /\ UNCHANGED <<chat, clock, sends, marks, pages, lastSeen, listed, tile,
                 screens, shown, missed>>
  /\ Observe

\* The time is stored, and creates the document if there is none.
Store(u, at) ==
  /\ lastSeen' = [lastSeen EXCEPT ![u] = at]
  /\ listed' = listed \union {u}

\* Faulty variant: the handler ends when the time is stored.
LastSeenStoredOnly(u) ==
  /\ taps[u].step = "set"
  /\ Store(u, taps[u].at)
  /\ taps' = [taps EXCEPT ![u] = NoTap]
  /\ UNCHANGED <<chat, clock, sends, marks, pages, tile, screens, shown, missed>>
  /\ Observe

LastSeenStored(u) ==
  /\ taps[u].step = "set"
  /\ Store(u, taps[u].at)
  /\ taps' = [taps EXCEPT ![u].step = "push"]
  /\ UNCHANGED <<chat, clock, sends, marks, pages, tile, screens, shown, missed>>
  /\ Observe

\* The chat is pushed, on top of whatever is shown by now, with a spinner.
PushChat(u) ==
  /\ taps[u].step = "push" /\ Len(screens) < MaxScreens
  /\ screens' = Append(screens, [of |-> u, at |-> taps[u].at, loaded |-> FALSE])
  /\ taps' = [taps EXCEPT ![u] = NoTap]
  /\ UNCHANGED <<chat, clock, sends, marks, pages, lastSeen, listed, tile, shown,
                 missed>>
  /\ Observe

\* buildMessagesScreen: it lists the chats that have a document.
OpenFromList(u) ==
  /\ screens = <<>> /\ u \in listed
  /\ screens' = <<[of |-> u, at |-> 0, loaded |-> FALSE]>>
  /\ UNCHANGED <<chat, clock, sends, marks, pages, lastSeen, listed, tile, taps,
                 shown, missed>>
  /\ Observe

\* The first snapshot of a chat comes: its list replaces the spinner, also below
\* another chat.
ChatLoaded(i) ==
  /\ ~screens[i].loaded
  /\ screens' = [screens EXCEPT ![i].loaded = TRUE]
  /\ UNCHANGED <<chat, clock, sends, marks, pages, lastSeen, listed, tile, taps,
                 shown, missed>>
  /\ Observe

\* The top chat is left, maybe before it was loaded.
CloseChat ==
  /\ screens # <<>>
  /\ LET top == Last(screens)
     IN missed' = [missed EXCEPT ![top.of] = @ \union
          IF top.loaded THEN {} ELSE Unread(top.of, top.at)]
  /\ screens' = Front(screens)
  /\ UNCHANGED <<chat, clock, sends, marks, pages, lastSeen, listed, tile, taps,
                 shown>>
  /\ Observe

\* A call of the badge handler of u fails.  set() may have been stored all the
\* same, or read by the tile before it was refused.
BadgeFails(u) ==
  LET tap == taps[u]
  IN /\ tap # NoTap
     /\ \/ tap.step = "set" /\ Store(u, tap.at)
        \/ UNCHANGED <<lastSeen, listed>>
     /\ LET putOut == \/ tap.step = "push"
                      \/ tap.step = "set" /\ tap.at \in {lastSeen'[u], tile[u]}
        IN missed' = [missed EXCEPT ![u] =
             @ \union IF putOut THEN Unread(u, tap.at) ELSE {}]
     /\ taps' = [taps EXCEPT ![u] = NoTap]
  /\ UNCHANGED <<chat, clock, sends, marks, pages, tile, screens, shown>>
  /\ Observe

\* The administrator's app ends: the handlers and the screens are gone.  What a
\* handler was storing is queued on the device, or lost (stored).
AppEnds(stored) ==
  /\ stored \subseteq {u \in Users : taps[u].step = "set"}
  /\ lastSeen' = [u \in Users |-> IF u \in stored THEN taps[u].at ELSE lastSeen[u]]
  /\ listed' = listed \union stored
  /\ missed' = [u \in Users |-> missed[u]
       \union (IF u \in stored \/ taps[u].step = "push"
               THEN Unread(u, taps[u].at) ELSE {})
       \union UNION {Unread(u, screens[i].at) :
                       i \in {j \in 1..Len(screens) : screens[j].of = u}}]
  /\ taps' = [u \in Users |-> NoTap]
  /\ screens' = <<>>
  /\ tile' = [u \in Users |-> 0]
  /\ UNCHANGED <<chat, clock, sends, marks, pages, shown>>
  /\ Observe

Next ==
  \/ CloseChat
  \/ \E i \in 1..Len(screens) : ChatLoaded(i)
  \/ \E stored \in SUBSET Users : AppEnds(stored)
  \/ \E u \in Users :
       \/ OpenPage(u)
       \/ ClosePage(u)
       \/ \E m \in chat[u] : BuildBubble(u, m)
       \/ \E s \in Senders : Send(u, s) \/ Arrive(u, s)
       \/ \E t \in Times : MarkStored(u, t)
       \/ \E m \in chat[u] : DeleteMessage(u, m)
       \/ BuildTile(u)
       \/ TapBadge(u)
       \/ NewestRead(u)
       \/ LastSeenStored(u)
       \/ PushChat(u)
       \/ OpenFromList(u)
       \/ BadgeFails(u)

Spec == Init /\ [][Next]_vars

-----------------------------------------------------------------------------
(***************************************************************************)
(* Properties                                                              *)
(***************************************************************************)

\* Type correctness.
TypeOK ==
  /\ chat \in [Users -> SUBSET Message]
  /\ clock \in [Users -> Known]
  /\ sends \in [Users -> [Senders -> 0..MaxSends]]
  /\ marks \in [Users -> SUBSET Times]
  /\ pages \subseteq Users
  /\ lastSeen \in [Users -> Known]
  /\ listed \subseteq Users
  /\ tile \in [Users -> Known]
  /\ taps \in [Users -> Tap]
  /\ screens \in Seq(Screen)
  /\ read \in [Users -> SUBSET Times] /\ shown \in [Users -> SUBSET Times]
  /\ missed \in [Users -> SUBSET Times]

\* A message carries the seen mark, or is about to, only if its bubble was built
\* on the page of its user, however late the mark is stored.
SeenMeansShown ==
  \A u \in Users : \A m \in chat[u] :
    m.seen \/ m.at \in marks[u] => m.at \in shown[u]

\* A badge handler of u that knows of time t goes on to show the chat, or the
\* chat it pushed still has to be shown.
WillShow(u, t) ==
  \/ taps[u].step \in {"set", "push"} /\ t <= taps[u].at
  \/ \E i \in 1..Len(screens) : screens[i].of = u /\ t <= screens[i].at

\* A message of a user that was in no list on the administrator's screen has a
\* lit badge, unless the chat is about to be shown: the time that is stored is
\* never ahead of what is shown, whatever arrives or is deleted between the
\* three steps of the badge handler and however old the tile is.  Exempt are the
\* messages that are missed, because the handler failed after its query, the app
\* ended or the chat was left before it was loaded, and a tile that shows an
\* error in place of its badge.
UnreadIsLit ==
  \A u \in Users : \A m \in chat[u] :
    m.from = "user" /\ m.at \notin read[u] =>
      \/ HasNewMessage(u)
      \/ TileFails(u)
      \/ WillShow(u, m.at)
      \/ m.at \in missed[u]
=============================================================================
