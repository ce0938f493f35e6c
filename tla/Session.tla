------------------------------ MODULE Session ------------------------------
(***************************************************************************)
(* Accounts and the session of one device: RegisterPage, LoginPage,        *)
(* SettingsPage and AuthGate, against Firebase Auth, the users documents   *)
(* in Firestore and the presence records in the Realtime Database.         *)
(*                                                                         *)
(* Every await is a step, and pages come and go while their handlers wait. *)
(* Firestore queues writes in order and keeps them when the process ends;  *)
(* the Realtime Database queues them in order and forgets them.  What a    *)
(* lost connection was asked to write on disconnection, the server writes  *)
(* when it notices, maybe after the device is connected again.             *)
(*                                                                         *)
(* Whether the Realtime Database accepts a write is left open: the rules   *)
(* of the repository refuse all of them, the pages expect them to succeed. *)
(*                                                                         *)
(* An account is the number it was created with; 0 is nobody.  Accounts of *)
(* administrators, which no page creates, and names are left out.          *)
(***************************************************************************)
EXTENDS Naturals, Sequences, SequencesExt

CONSTANTS
  Emails,
  MaxAccounts,  \* bound: accounts ever created
  Slots,        \* bound: as many handlers wait at a time
  MaxRoutes,    \* bound: pages on top of each other
  MaxSent,      \* bound: writes to the Realtime Database under way
  MaxMutations  \* bound: writes to Firestore under way

ASSUME BoundsAssumption ==
  /\ {MaxAccounts, MaxSent, MaxMutations} \subseteq Nat
  /\ MaxRoutes \in Nat \ {0}

\* 0 stands for a write that no handler awaits.
ASSUME SlotsAssumption == 0 \notin Slots

VARIABLES
  accounts,   \* by number: email and state
  docs,       \* the accounts that have a document in users
  presence,   \* per account: its record in presence
  connected,  \* whether the device is connected to the Realtime Database
  armed,      \* the accounts that this connection sets offline when it ends
  stale,      \* the same for connections whose end the server has not noticed
  running,    \* whether the app runs
  user,       \* FirebaseAuth.currentUser, kept by the device
  remembered, \* the preference rememberMe
  stack,      \* the navigator's routes, the top one last
  calls,      \* the handlers that wait
  mutations,  \* the writes to users under way, oldest first
  sent,       \* the writes to presence under way, oldest first
  leaving,    \* history: the handlers that sign out or delete, during which
              \*   no login of that account was under way and no gate was
              \*   built
  out         \* history: who has left by one of them, and not signed in since

server == <<accounts, docs, presence, armed, stale, connected>>
device == <<running, user, remembered, stack>>
history == <<leaving, out>>
vars   == <<accounts, docs, presence, connected, armed, stale, running, user,
            remembered, stack, calls, mutations, sent, leaving, out>>

Uids == 1..MaxAccounts

Account == [email : Emails, state : {"unverified", "verified", "deleted"}]
Route ==
  [page : {"gate"}, remembered : BOOLEAN]
    \union [page : {"settings"}, user : Uids \union {0}]
    \union [page : {"main", "login", "register"}]

\* A handler: the await it has reached, the account, and the position of its
\* page in the stack, 0 when the page is gone.
Call ==
  [op : {"none", "create", "set", "mail", "signin", "role", "remember", "online",
         "undo", "offline", "signout", "delete", "remove", "end", "dark"},
   uid : Uids \union {0}, depth : 0..MaxRoutes, verified : BOOLEAN]
NoCall == [op |-> "none", uid |-> 0, depth |-> 0, verified |-> FALSE]

\* A write under way, and the handler that awaits it, if any.
Mutation == [op : {"set", "delete"}, uid : Uids, by : Slots \union {0}]
Write    == [op : {"online", "offline", "remove", "arm"}, uid : Uids,
             by : Slots \union {0}]

Exists(uid) == uid \in DOMAIN accounts /\ accounts[uid].state # "deleted"
On(page)    == running /\ Last(stack).page = page

-----------------------------------------------------------------------------
(* What the actions are made of *)

Send(ops) ==
  /\ Len(sent) + Len(ops) <= MaxSent
  /\ sent' = sent \o ops

Mutate(m) ==
  /\ Len(mutations) < MaxMutations
  /\ mutations' = Append(mutations, m)

\* What the AuthGate among these routes writes when it hears of this user: first
\* that the user is online, then what is to be written on disconnection.
Tracked(u, routes) ==
  IF u # 0 /\ \E i \in DOMAIN routes : routes[i].page = "gate" /\ routes[i].remembered
  THEN <<[op |-> "online", uid |-> u, by |-> 0], [op |-> "arm", uid |-> u, by |-> 0]>>
  ELSE <<>>

\* authStateChanges reports another user to the gates of the stack.
Authenticate(u) ==
  /\ user' = u
  /\ Send(IF u = user THEN <<>> ELSE Tracked(u, stack))

\* The handlers cs when the routes from position n on go.
Unmounted(cs, n) ==
  [c \in Slots |-> IF cs[c].depth >= n THEN [cs[c] EXCEPT !.depth = 0] ELSE cs[c]]

\* Navigator: push, pop, pushReplacement, pushNamedAndRemoveUntil.
Push(route) ==
  /\ Len(stack) < MaxRoutes
  /\ stack' = Append(stack, route)
Replace(cs, route) ==
  /\ stack' = Append(Front(stack), route)
  /\ calls' = Unmounted(cs, Len(stack))
\* Faulty variant: the handlers of the removed pages do not notice.
ResetUnnoticed(cs, route) ==
  /\ stack' = <<route>>
  /\ calls' = cs
Reset(cs, route) ==
  /\ stack' = <<route>>
  /\ calls' = Unmounted(cs, 1)

NewGate == [page |-> "gate", remembered |-> remembered]
Page(p) == [page |-> p]

LoggingIn == {"role", "remember", "online"}

\* A button of the top page starts a handler.
Start(c, op, uid) ==
  /\ calls[c] = NoCall
  /\ calls' = [calls EXCEPT ![c] =
       [op |-> op, uid |-> uid, depth |-> Len(stack), verified |-> FALSE]]
Ended(c) == [calls EXCEPT ![c] = NoCall]
Await(c, op) == calls' = [calls EXCEPT ![c].op = op]

\* _isLoading of the top page: it disables the button of a page whose handler
\* waits.
IsLoading == \E c \in Slots : calls[c].depth = Len(stack)

-----------------------------------------------------------------------------
Init ==
  /\ accounts = <<>>
  /\ docs = {}
  /\ presence = [uid \in Uids |-> "none"]
  /\ connected = FALSE
  /\ armed = {}
  /\ stale = {}
  /\ running = FALSE
  /\ user = 0
  /\ remembered = FALSE
  /\ stack = <<>>
  /\ calls = [c \in Slots |-> NoCall]
  /\ mutations = <<>>
  /\ sent = <<>>
  /\ leaving = {}
  /\ out = {}

(* Pages *)

OpenSettings ==
  /\ On("gate") \/ On("main")
  /\ Push([page |-> "settings", user |-> user])
  /\ UNCHANGED <<server, running, user, remembered, calls, mutations, sent, history>>

\* The dialog of the home page if nobody is signed in, or the button of a
\* settings page that was opened when nobody was.
OpenLogin ==
  /\ \/ (On("gate") \/ On("main")) /\ user = 0
     \/ On("settings") /\ Last(stack).user = 0
  /\ Push(Page("login"))
  /\ UNCHANGED <<server, running, user, remembered, calls, mutations, sent, history>>

OpenRegister ==
  /\ \/ (On("gate") \/ On("main")) /\ user = 0
     \/ On("login")
  /\ Push(Page("register"))
  /\ UNCHANGED <<server, running, user, remembered, calls, mutations, sent, history>>

Back ==
  /\ running /\ Len(stack) > 1
  /\ stack' = Front(stack)
  /\ calls' = Unmounted(calls, Len(stack))
  /\ UNCHANGED <<server, running, user, remembered, mutations, sent, history>>

\* "Zaten hesabınız var mı? Giriş Yap"
LoginInstead ==
  /\ On("register")
  /\ Replace(calls, Page("login"))
  /\ UNCHANGED <<server, running, user, remembered, mutations, sent, history>>

\* "Giriş yapmadan devam et"
WithoutLogin ==
  /\ On("login")
  /\ Replace(calls, NewGate)
  /\ Send(Tracked(user, <<NewGate>>))
  /\ leaving' = IF Tracked(user, <<NewGate>>) = <<>> THEN leaving ELSE {}
  /\ UNCHANGED <<server, running, user, remembered, mutations, out>>

(* RegisterPage._register *)

PressRegister(c) ==
  /\ On("register") /\ ~IsLoading
  /\ Start(c, "create", 0)
  /\ UNCHANGED <<server, device, mutations, sent, history>>

\* The account exists, and is signed in; its document is sent.
Created(c, e) ==
  /\ calls[c].op = "create"
  /\ \A uid \in DOMAIN accounts : accounts[uid].email = e => ~Exists(uid)
  /\ Len(accounts) < MaxAccounts
  /\ accounts' = Append(accounts, [email |-> e, state |-> "unverified"])
  /\ LET new == Len(accounts) + 1
     IN /\ Authenticate(new)
        /\ Mutate([op |-> "set", uid |-> new, by |-> c])
        /\ calls' = [calls EXCEPT ![c].op = "set", ![c].uid = new]
  /\ UNCHANGED <<docs, presence, armed, stale, connected, running, remembered,
                 stack, history>>

\* sendEmailVerification returns.
MailSent(c) ==
  /\ calls[c].op = "mail" /\ Exists(calls[c].uid)
  /\ IF calls[c].depth = 0 THEN calls' = Ended(c) /\ UNCHANGED stack
     ELSE Replace(Ended(c), Page("login"))
  /\ UNCHANGED <<server, running, user, remembered, mutations, sent, history>>

(* LoginPage._signIn *)

PressLogin(c) ==
  /\ On("login") /\ ~IsLoading
  /\ Start(c, "signin", 0)
  /\ UNCHANGED <<server, device, mutations, sent, history>>

SignedIn(c, uid) ==
  /\ calls[c].op = "signin" /\ Exists(uid)
  /\ Authenticate(uid)
  /\ calls' = [calls EXCEPT ![c].op = "role", ![c].uid = uid,
                            ![c].verified = accounts[uid].state = "verified"]
  /\ leaving' = {d \in leaving : calls[d].uid # uid}
  /\ out' = out \ {uid}
  /\ UNCHANGED <<server, running, remembered, stack, mutations>>

\* The document of the user is read.  Without a document the role is user.
RoleRead(c) ==
  /\ calls[c].op = "role"
  /\ Await(c, IF calls[c].verified THEN "remember" ELSE "undo")
  /\ UNCHANGED <<server, device, mutations, sent, history>>

\* Whoever is signed in by now is signed out.
SignOutUnverified(c) ==
  /\ calls[c].op = "undo"
  /\ Authenticate(0)
  /\ calls' = Ended(c)
  /\ UNCHANGED <<server, running, remembered, stack, mutations, history>>

\* rememberMe is stored as the page has it, and the user is set online.
RememberStored(c, rememberMe) ==
  /\ calls[c].op = "remember"
  /\ remembered' = rememberMe
  /\ Send(<<[op |-> "online", uid |-> calls[c].uid, by |-> c]>>)
  /\ Await(c, "online")
  /\ UNCHANGED <<server, running, user, stack, mutations, history>>

(* SettingsPage: the user is the one it was opened with *)

Leaves(c, uid) ==
  leaving' = IF \E d \in Slots : calls[d].uid = uid /\ calls[d].op \in LoggingIn
             THEN leaving \ {c} ELSE leaving \union {c}

HasLeft(c, uids) ==
  /\ leaving' = leaving \ {c}
  /\ out' = IF c \in leaving THEN out \union uids ELSE out

PressDarkMode(c) ==
  /\ On("settings")
  /\ Start(c, "dark", 0)
  /\ UNCHANGED <<server, device, mutations, sent, history>>

\* The preference is stored, and every page is built again: the gates read
\* rememberMe again and mark who is signed in once more.
AppRebuilt(c) ==
  /\ calls[c].op = "dark"
  /\ calls' = Ended(c)
  /\ stack' = [i \in DOMAIN stack |->
                 IF stack[i].page = "gate" THEN NewGate ELSE stack[i]]
  /\ Send(Tracked(user, stack'))
  /\ leaving' = IF Tracked(user, stack') = <<>> THEN leaving ELSE {}
  /\ UNCHANGED <<server, running, user, remembered, mutations, out>>

\* Faulty variant: the document of the deleted account stays.
PressDeleteAccountOnly(c) ==
  /\ On("settings") /\ Last(stack).user # 0
  /\ Start(c, "end", Last(stack).user)
  /\ Leaves(c, Last(stack).user)
  /\ UNCHANGED <<server, device, mutations, sent, out>>

\* Faulty variant: signing out does not wait for the presence record.
PressSignOutAtOnce(c) ==
  /\ On("settings") /\ Last(stack).user # 0
  /\ Start(c, "signout", Last(stack).user)
  /\ Leaves(c, Last(stack).user)
  /\ UNCHANGED <<server, device, mutations, sent, out>>

PressSignOut(c) ==
  /\ On("settings") /\ Last(stack).user # 0
  /\ Start(c, "offline", Last(stack).user)
  /\ Send(<<[op |-> "offline", uid |-> Last(stack).user, by |-> c]>>)
  /\ Leaves(c, Last(stack).user)
  /\ UNCHANGED <<server, device, mutations, out>>

\* Whoever is signed in by now is signed out.
SignedOut(c) ==
  /\ calls[c].op = "signout"
  /\ user' = 0
  /\ IF calls[c].depth = 0 THEN calls' = Ended(c) /\ UNCHANGED stack
     ELSE Reset(Ended(c), NewGate)
  /\ HasLeft(c, {calls[c].uid} \intersect {user})
  /\ UNCHANGED <<server, running, remembered, mutations, sent>>

\* _deleteAccount, after its confirmation.
PressDelete(c) ==
  /\ On("settings") /\ Last(stack).user # 0
  /\ Start(c, "delete", Last(stack).user)
  /\ Mutate([op |-> "delete", uid |-> Last(stack).user, by |-> c])
  /\ Leaves(c, Last(stack).user)
  /\ UNCHANGED <<server, device, sent, out>>

\* user.delete returns.
AccountDeleted(c) ==
  /\ calls[c].op = "end" /\ Exists(calls[c].uid)
  /\ accounts' = [accounts EXCEPT ![calls[c].uid].state = "deleted"]
  /\ user' = IF user = calls[c].uid THEN 0 ELSE user
  /\ IF calls[c].depth = 0 THEN calls' = Ended(c) /\ UNCHANGED stack
     ELSE Reset(Ended(c), Page("login"))
  /\ HasLeft(c, {calls[c].uid})
  /\ UNCHANGED <<docs, presence, armed, stale, connected, running, remembered,
                 mutations, sent>>

(* Answers *)

\* A call fails: its handler ends, and what it did before stays done.
CallFails(c) ==
  /\ calls[c].op \in {"create", "mail", "signin", "role", "end"}
  /\ calls' = Ended(c)
  /\ UNCHANGED <<server, device, mutations, sent, history>>

\* Firestore answers the oldest write, and its handler goes on.
MutationStored ==
  /\ mutations # <<>>
  /\ mutations' = Tail(mutations)
  /\ LET m == Head(mutations)
     IN \/ /\ m.op = "set"
           /\ docs' = docs \union {m.uid}
           /\ IF m.by = 0 THEN UNCHANGED calls ELSE Await(m.by, "mail")
           /\ UNCHANGED sent
        \/ /\ m.op = "delete"
           /\ docs' = docs \ {m.uid}
           /\ IF m.by = 0 THEN UNCHANGED <<calls, sent>>
              ELSE /\ Await(m.by, "remove")
                   /\ Send(<<[op |-> "remove", uid |-> m.uid, by |-> m.by]>>)
  /\ UNCHANGED <<accounts, presence, armed, stale, connected, device, history>>

MutationRefused ==
  /\ mutations # <<>>
  /\ mutations' = Tail(mutations)
  /\ IF Head(mutations).by = 0 THEN UNCHANGED calls
     ELSE calls' = Ended(Head(mutations).by)
  /\ UNCHANGED <<server, device, sent, history>>

\* The Realtime Database answers the oldest write, and its handler goes on.
WriteStored ==
  /\ connected /\ sent # <<>>
  /\ sent' = Tail(sent)
  /\ LET w == Head(sent)
     IN /\ presence' = [presence EXCEPT ![w.uid] =
             CASE w.op = "arm" -> @ [] w.op = "remove" -> "none" [] OTHER -> w.op]
        /\ armed' = IF w.op = "arm" THEN armed \union {w.uid} ELSE armed
        /\ \/ /\ w.by = 0
              /\ UNCHANGED <<calls, stack>>
           \/ /\ w.by # 0 /\ w.op = "offline"
              /\ Await(w.by, "signout")
              /\ UNCHANGED stack
           \/ /\ w.by # 0 /\ w.op = "remove"
              /\ Await(w.by, "end")
              /\ UNCHANGED stack
           \/ /\ w.by # 0 /\ w.op = "online"
              /\ IF calls[w.by].depth = 0 THEN calls' = Ended(w.by) /\ UNCHANGED stack
                 ELSE Replace(Ended(w.by), Page("main"))
  /\ UNCHANGED <<accounts, docs, stale, connected, running, user, remembered,
                 mutations, history>>

WriteRefused ==
  /\ connected /\ sent # <<>>
  /\ sent' = Tail(sent)
  /\ IF Head(sent).by = 0 THEN UNCHANGED calls ELSE calls' = Ended(Head(sent).by)
  /\ UNCHANGED <<server, device, mutations, history>>

(* The device, the servers and the others *)

Connect ==
  /\ running /\ ~connected
  /\ connected' = TRUE
  /\ UNCHANGED <<accounts, docs, presence, armed, stale, device, calls, mutations,
                 sent, history>>

ConnectionLost ==
  /\ connected
  /\ connected' = FALSE
  /\ stale' = stale \union armed
  /\ armed' = {}
  /\ UNCHANGED <<accounts, docs, presence, device, calls, mutations, sent, history>>

\* The server notices which connections have ended.
ServerNotices ==
  /\ stale # {}
  /\ presence' = [uid \in Uids |-> IF uid \in stale THEN "offline" ELSE presence[uid]]
  /\ stale' = {}
  /\ UNCHANGED <<accounts, docs, armed, connected, device, calls, mutations, sent, history>>

StartApp ==
  /\ ~running
  /\ running' = TRUE
  /\ stack' = <<NewGate>>
  /\ Send(Tracked(user, <<NewGate>>))
  /\ UNCHANGED <<server, user, remembered, calls, mutations, history>>

\* The process ends.
Kill ==
  /\ running
  /\ running' = FALSE
  /\ stack' = <<>>
  /\ calls' = [c \in Slots |-> NoCall]
  /\ sent' = <<>>
  /\ mutations' = [i \in DOMAIN mutations |-> [mutations[i] EXCEPT !.by = 0]]
  /\ connected' = FALSE
  /\ stale' = stale \union armed
  /\ armed' = {}
  /\ leaving' = {}
  /\ UNCHANGED <<accounts, docs, presence, user, remembered, out>>

\* The address of an account is verified, by a link of either mail.
Verify(uid) ==
  /\ Exists(uid) /\ accounts[uid].state = "unverified"
  /\ accounts' = [accounts EXCEPT ![uid].state = "verified"]
  /\ UNCHANGED <<docs, presence, armed, stale, connected, device, calls, mutations,
                 sent, history>>

\* An administrator deletes a user: the document, not the account.
AdminDeletes(uid) ==
  /\ uid \in docs
  /\ docs' = docs \ {uid}
  /\ UNCHANGED <<accounts, presence, armed, stale, connected, device, calls,
                 mutations, sent, history>>

Next ==
  \/ OpenSettings
  \/ OpenLogin
  \/ OpenRegister
  \/ Back
  \/ LoginInstead
  \/ WithoutLogin
  \/ \E c \in Slots :
       \/ PressRegister(c)
       \/ \E e \in Emails : Created(c, e)
       \/ MailSent(c)
       \/ PressLogin(c)
       \/ \E uid \in Uids : SignedIn(c, uid)
       \/ RoleRead(c)
       \/ SignOutUnverified(c)
       \/ \E rememberMe \in BOOLEAN : RememberStored(c, rememberMe)
       \/ PressDarkMode(c)
       \/ AppRebuilt(c)
       \/ PressSignOut(c)
       \/ SignedOut(c)
       \/ PressDelete(c)
       \/ AccountDeleted(c)
       \/ CallFails(c)
  \/ MutationStored
  \/ MutationRefused
  \/ WriteStored
  \/ WriteRefused
  \/ Connect
  \/ ConnectionLost
  \/ ServerNotices
  \/ StartApp
  \/ Kill
  \/ \E uid \in Uids : Verify(uid) \/ AdminDeletes(uid)

Spec == Init /\ [][Next]_vars

-----------------------------------------------------------------------------
(***************************************************************************)
(* Properties                                                              *)
(***************************************************************************)

\* Type correctness; a handler that has its page finds it in the stack, and the
\* stack is empty exactly when the app does not run.
TypeOK ==
  /\ accounts \in Seq(Account) /\ Len(accounts) <= MaxAccounts
  /\ docs \subseteq Uids
  /\ presence \in [Uids -> {"none", "online", "offline"}]
  /\ connected \in BOOLEAN /\ running \in BOOLEAN /\ remembered \in BOOLEAN
  /\ armed \subseteq Uids /\ stale \subseteq Uids
  /\ leaving \subseteq Slots /\ out \subseteq Uids
  /\ user \in Uids \union {0}
  /\ stack \in Seq(Route) /\ Len(stack) <= MaxRoutes
  /\ calls \in [Slots -> Call]
  /\ \A c \in Slots : calls[c].depth <= Len(stack)
  /\ running <=> stack # <<>>
  /\ mutations \in Seq(Mutation) /\ sent \in Seq(Write)

\* The list of users the administrator sees names no account that is deleted,
\* whatever failed, was repeated, or was left under way by an earlier process.
DocsHaveAccounts == \A uid \in docs : Exists(uid)

\* Who has signed out or deleted the account is not shown as online to the
\* administrator, and stays so until signed in again, whichever writes were
\* under way and whenever the server notices lost connections.
LeaversNotOnline == \A uid \in out : presence[uid] # "online"

\* The life of an account as the server has it: new while the write of its
\* document is under way.
Life(uid) ==
  IF uid \notin DOMAIN accounts THEN "none"
  ELSE IF \E i \in DOMAIN mutations : mutations[i].op = "set" /\ mutations[i].uid = uid
  THEN "new"
  ELSE IF uid \in docs THEN "listed"
  ELSE IF Exists(uid) THEN "unlisted" ELSE "gone"

Registry == INSTANCE AccountRegistry WITH life <- [uid \in Uids |-> Life(uid)]

\* The pages, the queue of Firestore and the administrator implement the life
\* of an account: no document is written twice or after its deletion, also when
\* the process ends with the write queued, and none outlives its account.
ImplementsRegistry == Registry!Spec
=============================================================================
