--------------------------- MODULE Session_proof ---------------------------
(***************************************************************************)
(* Proofs about Session for any number of accounts, handlers, pages and    *)
(* writes under way: what the administrator's list of users shows of who   *)
(* has gone, and the life of an account.                                   *)
(***************************************************************************)
EXTENDS Session, SequenceTheorems, TLAPS

Leaving == {"offline", "signout", "delete", "remove", "end"}

-----------------------------------------------------------------------------
(***************************************************************************)
(* The inductive invariant                                                 *)
(***************************************************************************)

\* Whoever is signed in, has a settings page open, has left or is written about
\* has an account, maybe a deleted one; a handler that signs in or out or
\* deletes knows whom.
Registered ==
  /\ user \in DOMAIN accounts \union {0}
  /\ out \subseteq DOMAIN accounts
  /\ \A i \in 1..Len(stack) :
       stack[i].page = "settings" => stack[i].user \in DOMAIN accounts \union {0}
  /\ \A c \in Slots : calls[c].uid \in DOMAIN accounts \union {0}
  /\ \A c \in Slots : calls[c].op \in LoggingIn \union Leaving => calls[c].uid # 0
  /\ \A i \in 1..Len(mutations) : mutations[i].uid \in DOMAIN accounts

\* Each write of a queue that a handler awaits is the one that this handler has
\* come to, and the only one.
Awaited(queue, cs) ==
  /\ \A i \in 1..Len(queue), c \in Slots : queue[i].by = c =>
       cs[c].op = queue[i].op /\ cs[c].uid = queue[i].uid
  /\ \A i, j \in 1..Len(queue) : queue[i].by = queue[j].by /\ queue[i].by # 0 => i = j

\* A document is yet to be written for accounts that exist and have none, once,
\* and before anything else is written to it.
SetsLead ==
  \A j \in 1..Len(mutations) : mutations[j].op = "set" =>
    /\ Exists(mutations[j].uid) /\ mutations[j].uid \notin docs
    /\ \A i \in 1..Len(mutations) : i < j => mutations[i].uid # mutations[j].uid

\* Who is about to lose the account has no document and gets none.
EndersUnlisted ==
  \A c \in Slots : calls[c].op \in {"remove", "end"} =>
    /\ calls[c].uid \notin docs
    /\ \A i \in 1..Len(mutations) :
         mutations[i].op = "set" => mutations[i].uid # calls[c].uid

\* After position i of a queue nothing sets this account online.
NoOnline(queue, uid, i) ==
  \A j \in 1..Len(queue) : j > i /\ queue[j].op = "online" => queue[j].uid # uid

NoLogin(cs, uid) ==
  \A d \in Slots : cs[d].op \in LoggingIn => cs[d].uid # uid

\* The account of a handler in leaving is not being signed in, is set online no
\* more after what the handler wrote, and is not online once that was stored.
LeaverOffline(c) ==
  /\ NoLogin(calls, calls[c].uid)
  /\ \A i \in 1..Len(sent) : sent[i].by = c => NoOnline(sent, calls[c].uid, i)
  /\ calls[c].op \in {"signout", "end"} =>
       presence[calls[c].uid] # "online" /\ NoOnline(sent, calls[c].uid, 0)

LeaversOffline ==
  /\ ~running => leaving = {}
  /\ \A c \in leaving : calls[c].op \in Leaving => LeaverOffline(c)

\* Who has left is not signed in, nor about to be, nor to be set online.
OutStaysOffline ==
  \A uid \in out :
    user # uid /\ NoLogin(calls, uid) /\ NoOnline(sent, uid, 0) /\ presence[uid] # "online"

ListInv ==
  /\ Registered
  /\ Awaited(mutations, calls)
  /\ Awaited(sent, calls)
  /\ SetsLead
  /\ EndersUnlisted
  /\ DocsHaveAccounts

IInv ==
  /\ TypeOK
  /\ ListInv
  /\ LeaversOffline
  /\ OutStaysOffline

-----------------------------------------------------------------------------
(* Lemmas about sequences *)

LEMMA Domains ==
  ASSUME TypeOK
  PROVE  /\ Len(accounts) \in Nat /\ DOMAIN accounts = 1..Len(accounts)
         /\ Len(stack) \in Nat /\ DOMAIN stack = 1..Len(stack)
         /\ Len(mutations) \in Nat /\ DOMAIN mutations = 1..Len(mutations)
         /\ Len(sent) \in Nat /\ DOMAIN sent = 1..Len(sent)
BY LenProperties DEF TypeOK

LEMMA LastOf ==
  ASSUME NEW S, NEW s \in Seq(S), s # <<>>
  PROVE  Last(s) \in S /\ Len(s) \in Nat \ {0} /\ Last(s) = s[Len(s)]
<1>1. Len(s) \in Nat \ {0}
  BY EmptySeq
<1>2. Len(s) \in 1..Len(s)
  BY <1>1
<1> QED
  BY <1>1, <1>2, ElementOfSeq DEF Last

LEMMA FrontOf ==
  ASSUME NEW S, NEW s \in Seq(S), s # <<>>
  PROVE  /\ Front(s) \in Seq(S)
         /\ Len(Front(s)) = Len(s) - 1
         /\ \A i \in 1..(Len(s) - 1) : Front(s)[i] = s[i]
<1> DEFINE n == Len(s) - 1
           r == SubSeq(s, 1, n)
<1>1. n \in Nat /\ n - 1 + 1 = n /\ \A i \in 1..n : 1 + i - 1 = i
  BY EmptySeq
<1>2. \A i \in 1..n : s[i] \in S
  BY <1>1, ElementOfSeq
<1>3. Front(s) = r
  BY DEF Front
<1> HIDE DEF n
<1>4. r \in Seq(S) /\ Len(r) = (IF 1 <= n THEN n ELSE 0) /\ \A i \in 1..n : r[i] = s[i]
  BY <1>1, <1>2, SubSeqProperties
<1> QED
  BY <1>1, <1>3, <1>4 DEF n

LEMMA Appended ==
  ASSUME NEW S, NEW s \in Seq(S), NEW e \in S, NEW t, t = Append(s, e)
  PROVE  /\ t \in Seq(S) /\ Len(t) = Len(s) + 1 /\ t # <<>> /\ t[Len(t)] = e
         /\ \A i \in 1..Len(t) : t[i] = e \/ (i \in 1..Len(s) /\ t[i] = s[i])
<1>1. t \in Seq(S)
  BY AppendProperties
<1>2. Len(t) = Len(s) + 1
  BY AppendProperties
<1>3. t[Len(s) + 1] = e
  BY AppendProperties
<1>4. \A i \in 1..Len(s) : t[i] = s[i]
  BY AppendProperties
<1>5. Len(s) \in Nat /\ Len(<<>>) = 0
  BY LenProperties
<1> QED
  BY <1>1, <1>2, <1>3, <1>4, <1>5

-----------------------------------------------------------------------------
(* Lemmas about the queues *)

\* A queue is answered in order: the handler of the oldest write goes on.
LEMMA AwaitedTail ==
  ASSUME NEW S, NEW q \in Seq(S), q # <<>>, NEW cs, NEW ds, Awaited(q, cs),
         \A d \in Slots : d # Head(q).by => ds[d].op = cs[d].op /\ ds[d].uid = cs[d].uid
  PROVE  Awaited(Tail(q), ds)
<1>1. /\ Len(q) \in Nat \ {0} /\ Len(Tail(q)) = Len(q) - 1
      /\ \A i \in 1..Len(Tail(q)) : Tail(q)[i] = q[i + 1]
  BY EmptySeq, HeadTailProperties
<1>2. \A i \in 1..Len(Tail(q)) : i + 1 \in 1..Len(q)
  BY <1>1
<1>3. Head(q) = q[1] /\ 1 \in 1..Len(q)
  BY <1>1
<1>4. \A i \in 1..Len(Tail(q)), c \in Slots : Tail(q)[i].by = c => c # Head(q).by
  <2> SUFFICES ASSUME NEW i \in 1..Len(Tail(q)), NEW c \in Slots,
                      q[i + 1].by = c, q[1].by = c
               PROVE  FALSE
    BY <1>1, <1>3
  <2>1. c # 0
    BY SlotsAssumption
  <2>2. i + 1 = 1
    BY <1>2, <1>3, <2>1 DEF Awaited
  <2> QED
    BY <2>2
<1>5. \A i \in 1..Len(Tail(q)), c \in Slots : Tail(q)[i].by = c =>
        ds[c].op = Tail(q)[i].op /\ ds[c].uid = Tail(q)[i].uid
  BY <1>1, <1>2, <1>4 DEF Awaited
<1>6. \A i, j \in 1..Len(Tail(q)) :
        Tail(q)[i].by = Tail(q)[j].by /\ Tail(q)[i].by # 0 => i = j
  <2> SUFFICES ASSUME NEW i \in 1..Len(Tail(q)), NEW j \in 1..Len(Tail(q)),
                      q[i + 1].by = q[j + 1].by, q[i + 1].by # 0
               PROVE  i = j
    BY <1>1
  <2>1. i + 1 = j + 1
    BY <1>2 DEF Awaited
  <2> QED
    BY <2>1
<1> QED
  BY <1>5, <1>6 DEF Awaited

\* A handler that awaits no write of a queue may do anything.
LEMMA AwaitedOthers ==
  ASSUME NEW q, NEW cs, NEW ds, Awaited(q, cs),
         \A d \in Slots : \/ ds[d].op = cs[d].op /\ ds[d].uid = cs[d].uid
                          \/ \A i \in 1..Len(q) : q[i].op # cs[d].op
  PROVE  Awaited(q, ds)
BY DEF Awaited

\* Writes that no handler awaits, or a single one, are added to a queue.
LEMMA AwaitedMore ==
  ASSUME NEW S, NEW q \in Seq(S), NEW more \in Seq(S), NEW ds, Awaited(q, ds),
         \/ \A i \in 1..Len(more) : more[i].by = 0
         \/ \E c \in Slots : /\ Len(more) = 1 /\ more[1].by = c
                             /\ ds[c].op = more[1].op /\ ds[c].uid = more[1].uid
                             /\ \A i \in 1..Len(q) : q[i].by # c
  PROVE  Awaited(q \o more, ds)
<1>1. /\ Len(q) \in Nat /\ Len(more) \in Nat /\ Len(q \o more) = Len(q) + Len(more)
      /\ \A i \in 1..(Len(q) + Len(more)) :
           (q \o more)[i] = IF i <= Len(q) THEN q[i] ELSE more[i - Len(q)]
  BY ConcatProperties, LenProperties
<1>2. \A i \in 1..Len(q \o more) :
        \/ i \in 1..Len(q) /\ (q \o more)[i] = q[i]
        \/ i - Len(q) \in 1..Len(more) /\ (q \o more)[i] = more[i - Len(q)]
  BY <1>1
<1>3. CASE \A i \in 1..Len(more) : more[i].by = 0
  BY <1>2, <1>3, SlotsAssumption DEF Awaited
<1>4. CASE \E c \in Slots : /\ Len(more) = 1 /\ more[1].by = c
                            /\ ds[c].op = more[1].op /\ ds[c].uid = more[1].uid
                            /\ \A i \in 1..Len(q) : q[i].by # c
  <2>1. PICK c \in Slots : /\ Len(more) = 1 /\ more[1].by = c
                           /\ ds[c].op = more[1].op /\ ds[c].uid = more[1].uid
                           /\ \A i \in 1..Len(q) : q[i].by # c
    BY <1>4
  <2>2. \A i \in 1..Len(q \o more) :
          \/ i \in 1..Len(q) /\ (q \o more)[i] = q[i]
          \/ i = Len(q) + 1 /\ (q \o more)[i] = more[1]
    BY <1>1, <1>2, <2>1
  <2> QED
    BY <2>1, <2>2 DEF Awaited
<1> QED
  BY <1>3, <1>4

-----------------------------------------------------------------------------
(* Lemmas about handlers and pages *)

Ops ==
  {"none", "create", "set", "mail", "signin", "role", "remember", "online",
   "undo", "offline", "signout", "delete", "remove", "end", "dark"}

\* The handlers have pages among the first n of the stack.
Placed(cs, n) == cs \in [Slots -> Call] /\ \A c \in Slots : cs[c].depth <= n

Same(cs, ds, c) == ds[c].op = cs[c].op /\ ds[c].uid = cs[c].uid

\* Only the handler c goes on: it comes to op, for uid.
Goes(cs, ds, c, op, uid) ==
  /\ \A d \in Slots \ {c} : Same(cs, ds, d)
  /\ ds[c].op = op /\ ds[c].uid = uid

LEMMA CallType ==
  ASSUME TypeOK, NEW c \in Slots
  PROVE  /\ calls[c] \in Call /\ calls[c].op \in Ops /\ calls[c].uid \in Uids \union {0}
         /\ calls[c].depth \in Nat /\ calls[c].depth \in 0..Len(stack)
         /\ calls[c].depth \in 0..MaxRoutes /\ calls[c].verified \in BOOLEAN
BY Domains, BoundsAssumption DEF TypeOK, Call, Ops

\* A button starts a handler of the top page.
LEMMA StartCall ==
  ASSUME TypeOK, NEW c \in Slots, NEW op \in Ops, NEW uid \in Uids \union {0},
         Start(c, op, uid)
  PROVE  Placed(calls', Len(stack)) /\ Goes(calls, calls', c, op, uid) /\ calls[c].op = "none"
<1> DEFINE k == [op |-> op, uid |-> uid, depth |-> Len(stack), verified |-> FALSE]
<1>1. Len(stack) \in 0..MaxRoutes /\ Len(stack) <= Len(stack)
  BY Domains, BoundsAssumption DEF TypeOK
<1>2. k \in Call
  BY <1>1 DEF Call, Ops
<1>3. calls' = [calls EXCEPT ![c] = k] /\ calls[c] = NoCall
  BY DEF Start
<1>4. calls' \in [Slots -> Call] /\ calls'[c] = k /\ \A d \in Slots \ {c} : calls'[d] = calls[d]
  BY <1>2, <1>3 DEF TypeOK
<1> QED
  BY <1>1, <1>3, <1>4 DEF Placed, Goes, Same, NoCall, TypeOK

LEMMA AwaitCall ==
  ASSUME TypeOK, NEW c \in Slots, NEW op \in Ops, Await(c, op)
  PROVE  Placed(calls', Len(stack)) /\ Goes(calls, calls', c, op, calls[c].uid)
<1> DEFINE k == [calls[c] EXCEPT !.op = op]
<1>1. k \in Call /\ k.op = op /\ k.uid = calls[c].uid /\ k.depth = calls[c].depth
  BY CallType DEF Call, Ops
<1>2. calls' = [calls EXCEPT ![c] = k]
  BY DEF Await
<1>3. calls' \in [Slots -> Call] /\ calls'[c] = k /\ \A d \in Slots \ {c} : calls'[d] = calls[d]
  BY <1>1, <1>2 DEF TypeOK
<1> QED
  BY <1>1, <1>3 DEF Placed, Goes, Same, TypeOK

LEMMA EndedCall ==
  ASSUME TypeOK, NEW c \in Slots
  PROVE  Placed(Ended(c), Len(stack)) /\ Goes(calls, Ended(c), c, "none", 0)
<1>1. NoCall \in Call /\ NoCall.op = "none" /\ NoCall.uid = 0 /\ NoCall.depth = 0
  BY BoundsAssumption DEF NoCall, Call, Ops
<1>2. /\ Ended(c) \in [Slots -> Call] /\ Ended(c)[c] = NoCall
      /\ \A d \in Slots \ {c} : Ended(c)[d] = calls[d]
  BY <1>1 DEF Ended, TypeOK
<1> QED
  BY <1>1, <1>2, Domains DEF Placed, Goes, Same, TypeOK

\* Pages go: their handlers know no page any more, and nothing else changes.
LEMMA UnmountedCalls ==
  ASSUME NEW m \in Nat, NEW n \in Nat \ {0}, NEW cs, Placed(cs, m)
  PROVE  Placed(Unmounted(cs, n), n - 1) /\ \A c \in Slots : Same(cs, Unmounted(cs, n), c)
<1> SUFFICES ASSUME NEW c \in Slots
             PROVE  /\ Unmounted(cs, n)[c] \in Call /\ Unmounted(cs, n)[c].depth <= n - 1
                    /\ Same(cs, Unmounted(cs, n), c)
  BY DEF Placed, Unmounted
<1>1. /\ cs[c] \in Call /\ cs[c].depth \in 0..MaxRoutes
      /\ Unmounted(cs, n)[c] = IF cs[c].depth >= n THEN [cs[c] EXCEPT !.depth = 0] ELSE cs[c]
  BY DEF Placed, Unmounted, Call
<1>2. CASE cs[c].depth >= n
  BY <1>1, <1>2, BoundsAssumption DEF Same, Call
<1>3. CASE ~(cs[c].depth >= n)
  BY <1>1, <1>3, BoundsAssumption DEF Same
<1> QED
  BY <1>2, <1>3

\* What becomes of the stack.
LEMMA PushedRoute ==
  ASSUME TypeOK, NEW r \in Route, Push(r)
  PROVE  /\ stack' \in Seq(Route) /\ Len(stack') = Len(stack) + 1 /\ Len(stack') <= MaxRoutes
         /\ stack' # <<>>
         /\ \A i \in 1..Len(stack') : stack'[i] = r \/ (i \in 1..Len(stack) /\ stack'[i] = stack[i])
<1>1. /\ stack \in Seq(Route) /\ Len(stack) \in Nat /\ MaxRoutes \in Nat
      /\ Len(stack) < MaxRoutes /\ stack' = Append(stack, r)
  BY Domains, BoundsAssumption DEF TypeOK, Push
<1>2. /\ stack' \in Seq(Route) /\ stack' # <<>> /\ Len(stack') = Len(stack) + 1
      /\ \A i \in 1..Len(stack') : stack'[i] = r \/ (i \in 1..Len(stack) /\ stack'[i] = stack[i])
  BY <1>1, Appended
<1> QED
  BY <1>1, <1>2

LEMMA PoppedRoute ==
  ASSUME TypeOK, stack # <<>>, stack' = Front(stack)
  PROVE  /\ stack' \in Seq(Route) /\ Len(stack') = Len(stack) - 1
         /\ \A i \in 1..Len(stack') : i \in 1..Len(stack) /\ stack'[i] = stack[i]
<1>1. stack \in Seq(Route) /\ Len(stack) \in Nat
  BY Domains DEF TypeOK
<1>2. /\ stack' \in Seq(Route) /\ Len(stack') = Len(stack) - 1
      /\ \A i \in 1..(Len(stack) - 1) : stack'[i] = stack[i]
  BY <1>1, FrontOf
<1> QED
  BY <1>1, <1>2

LEMMA ReplacedRoute ==
  ASSUME TypeOK, stack # <<>>, NEW r \in Route, NEW cs, Placed(cs, Len(stack)), Replace(cs, r)
  PROVE  /\ stack' \in Seq(Route) /\ Len(stack') = Len(stack) /\ stack' # <<>>
         /\ \A i \in 1..Len(stack') : stack'[i] = r \/ (i \in 1..Len(stack) /\ stack'[i] = stack[i])
         /\ Placed(calls', Len(stack')) /\ \A c \in Slots : Same(cs, calls', c)
<1> DEFINE f == Front(stack)
<1>1. stack \in Seq(Route) /\ Len(stack) \in Nat \ {0}
  BY EmptySeq DEF TypeOK
<1>2. f \in Seq(Route) /\ Len(f) = Len(stack) - 1 /\ \A i \in 1..Len(f) : f[i] = stack[i]
  <2>1. stack \in Seq(Route) /\ stack # <<>>
    BY <1>1
  <2> HIDE DEF f
  <2>2. /\ f \in Seq(Route) /\ Len(f) = Len(stack) - 1
        /\ \A i \in 1..(Len(stack) - 1) : f[i] = stack[i]
    BY <2>1, FrontOf DEF f
  <2> QED
    BY <2>2
<1>3. stack' = Append(f, r) /\ calls' = Unmounted(cs, Len(stack))
  BY DEF Replace
<1> HIDE DEF f
<1>4. /\ stack' \in Seq(Route) /\ Len(stack') = Len(f) + 1 /\ stack' # <<>>
      /\ \A i \in 1..Len(stack') : stack'[i] = r \/ (i \in 1..Len(f) /\ stack'[i] = f[i])
  <2>1. f \in Seq(Route) /\ stack' = Append(f, r)
    BY <1>2, <1>3
  <2> QED
    BY <2>1, Appended
<1>5. \A i \in 1..Len(stack') : stack'[i] = r \/ (i \in 1..Len(stack) /\ stack'[i] = stack[i])
  BY <1>1, <1>2, <1>4
<1>6. Placed(calls', Len(stack) - 1) /\ \A c \in Slots : Same(cs, calls', c)
  BY <1>1, <1>3, UnmountedCalls
<1>7. Placed(calls', Len(stack))
  BY <1>1, <1>6, BoundsAssumption DEF Placed, Call
<1> QED
  BY <1>1, <1>2, <1>4, <1>5, <1>6, <1>7

LEMMA ResetRoutes ==
  ASSUME TypeOK, NEW r \in Route, NEW cs, Placed(cs, Len(stack)), Reset(cs, r)
  PROVE  /\ stack' = <<r>> /\ stack' \in Seq(Route) /\ Len(stack') = 1 /\ stack'[1] = r
         /\ Placed(calls', Len(stack')) /\ \A c \in Slots : Same(cs, calls', c)
<1>1. stack' = <<r>> /\ stack' \in Seq(Route) /\ Len(stack') = 1 /\ stack'[1] = r
  BY DEF Reset
<1>2. Placed(calls', 0) /\ \A c \in Slots : Same(cs, calls', c)
  BY Domains, UnmountedCalls DEF Reset
<1>3. Placed(calls', 1)
  BY <1>2, BoundsAssumption DEF Placed, Call
<1> QED
  BY <1>1, <1>2, <1>3

-----------------------------------------------------------------------------
(***************************************************************************)
(* Types.  With the type of the next state comes what the step does to     *)
(* handlers and routes.                                                    *)
(***************************************************************************)

\* A settings page belongs to whoever was signed in when it was opened.
SettingsKept ==
  \A i \in 1..Len(stack') : stack'[i].page = "settings" =>
    stack'[i].user = user \/ \E j \in 1..Len(stack) : stack[j] = stack'[i]

LEMMA Routes ==
  /\ NewGate.page = "gate"
  /\ TypeOK => NewGate \in Route
  /\ \A p \in {"main", "login", "register"} : Page(p) \in Route /\ Page(p).page = p
BY DEF NewGate, Page, Route, TypeOK

LEMMA TrackedWrites ==
  ASSUME NEW u \in Uids \union {0}, NEW routes
  PROVE  /\ Tracked(u, routes) \in Seq(Write)
         /\ \A i \in 1..Len(Tracked(u, routes)) :
              Tracked(u, routes)[i].by = 0 /\ Tracked(u, routes)[i].uid = u
         /\ u = 0 => Tracked(u, routes) = <<>>
<1>1. CASE u # 0
  <2> DEFINE on == [op |-> "online", uid |-> u, by |-> 0]
             arm == [op |-> "arm", uid |-> u, by |-> 0]
  <2>1. on \in Write /\ arm \in Write
    BY <1>1 DEF Write
  <2>2. on.by = 0 /\ on.uid = u /\ arm.by = 0 /\ arm.uid = u
    OBVIOUS
  <2>3. Tracked(u, routes) \in {<<on, arm>>, <<>>}
    BY DEF Tracked
  <2> HIDE DEF on, arm
  <2>4. <<on, arm>> \in Seq(Write) /\ <<>> \in Seq(Write)
    BY <2>1
  <2>5. /\ Len(<<on, arm>>) = 2 /\ Len(<<>>) = 0
        /\ <<on, arm>>[1] = on /\ <<on, arm>>[2] = arm
    OBVIOUS
  <2>6. \A i \in 1..2 : i = 1 \/ i = 2
    OBVIOUS
  <2>7. \A i \in 1..Len(<<on, arm>>) : <<on, arm>>[i].by = 0 /\ <<on, arm>>[i].uid = u
    BY <2>2, <2>5, <2>6
  <2>8. CASE Tracked(u, routes) = <<on, arm>>
    BY <1>1, <2>4, <2>7, <2>8
  <2>9. CASE Tracked(u, routes) = <<>>
    BY <2>4, <2>9
  <2> QED
    BY <2>3, <2>8, <2>9
<1>2. CASE u = 0
  BY <1>2 DEF Tracked
<1> QED
  BY <1>1, <1>2

LEMMA SentType ==
  ASSUME TypeOK, NEW ops \in Seq(Write), Send(ops)
  PROVE  sent' \in Seq(Write) /\ sent' = sent \o ops
BY ConcatProperties DEF TypeOK, Send

LEMMA TopRoute ==
  ASSUME TypeOK, NEW p, On(p)
  PROVE  /\ running /\ stack # <<>> /\ Len(stack) \in Nat \ {0} /\ Last(stack) \in Route
         /\ Last(stack) = stack[Len(stack)] /\ Last(stack).page = p
         /\ p = "settings" => Last(stack).user \in Uids \union {0}
<1>1. running /\ stack # <<>> /\ Last(stack).page = p /\ stack \in Seq(Route)
  BY DEF On, TypeOK
<1>2. Last(stack) \in Route /\ Len(stack) \in Nat \ {0} /\ Last(stack) = stack[Len(stack)]
  BY <1>1, LastOf
<1> QED
  BY <1>1, <1>2 DEF Route

LEMMA OpenSettingsType ==
  ASSUME TypeOK, OpenSettings
  PROVE  TypeOK' /\ SettingsKept
<1> DEFINE r == [page |-> "settings", user |-> user]
<1>1. r \in Route /\ r.user = user
  BY DEF Route, TypeOK
<1>2. Push(r) /\ running
  BY DEF OpenSettings, On
<1>3. /\ stack' \in Seq(Route) /\ Len(stack') <= MaxRoutes /\ stack' # <<>>
      /\ Len(stack') = Len(stack) + 1
      /\ \A i \in 1..Len(stack') : stack'[i] = r \/ (i \in 1..Len(stack) /\ stack'[i] = stack[i])
  BY <1>1, <1>2, PushedRoute
<1>4. Placed(calls', Len(stack'))
  BY <1>3, Domains, BoundsAssumption DEF OpenSettings, Placed, TypeOK, Call
<1>5. SettingsKept
  BY <1>1, <1>3 DEF SettingsKept
<1> QED
  BY <1>2, <1>3, <1>4, <1>5 DEF OpenSettings, TypeOK, Placed, server, history

\* Pushing a page that is not a settings page.
LEMMA PushedPage ==
  ASSUME TypeOK, running, NEW p \in {"main", "login", "register"}, Push(Page(p)),
         UNCHANGED <<server, running, user, remembered, calls, mutations, sent, history>>
  PROVE  TypeOK' /\ SettingsKept
<1>1. Page(p) \in Route /\ Page(p).page = p
  BY Routes
<1> DEFINE r == Page(p)
<1> HIDE DEF r
<1>2. /\ stack' \in Seq(Route) /\ Len(stack') <= MaxRoutes /\ stack' # <<>>
      /\ Len(stack') = Len(stack) + 1
      /\ \A i \in 1..Len(stack') : stack'[i] = r \/ (i \in 1..Len(stack) /\ stack'[i] = stack[i])
  BY <1>1, PushedRoute DEF r
<1>3. Placed(calls', Len(stack'))
  BY <1>2, Domains, BoundsAssumption DEF Placed, TypeOK, Call
<1>4. SettingsKept
  BY <1>1, <1>2 DEF SettingsKept, r
<1> QED
  BY <1>2, <1>3, <1>4 DEF TypeOK, Placed, server, history

LEMMA BackType ==
  ASSUME TypeOK, Back
  PROVE  TypeOK' /\ SettingsKept /\ \A c \in Slots : Same(calls, calls', c)
<1>1. running /\ Len(stack) > 1 /\ stack # <<>> /\ Len(stack) \in Nat
  BY Domains DEF Back, TypeOK
<1>2. /\ stack' \in Seq(Route) /\ Len(stack') = Len(stack) - 1
      /\ \A i \in 1..Len(stack') : i \in 1..Len(stack) /\ stack'[i] = stack[i]
  BY <1>1, PoppedRoute DEF Back
<1>3. Placed(calls, Len(stack)) /\ calls' = Unmounted(calls, Len(stack))
  BY DEF TypeOK, Placed, Back
<1>4. Placed(calls', Len(stack) - 1) /\ \A c \in Slots : Same(calls, calls', c)
  BY <1>1, <1>3, UnmountedCalls
<1>5. stack' # <<>> /\ Len(stack') <= MaxRoutes
  BY <1>1, <1>2, BoundsAssumption DEF TypeOK
<1>6. SettingsKept
  BY <1>2 DEF SettingsKept
<1> QED
  BY <1>1, <1>2, <1>4, <1>5, <1>6 DEF Back, TypeOK, Placed, server, history

\* A page that is not a settings page takes the place of the top page.
LEMMA ReplacedPage ==
  ASSUME TypeOK, running, stack # <<>>, NEW r \in Route, r.page # "settings",
         NEW cs, Placed(cs, Len(stack)), Replace(cs, r)
  PROVE  /\ stack' \in Seq(Route) /\ Len(stack') <= MaxRoutes /\ stack' # <<>>
         /\ Placed(calls', Len(stack')) /\ \A c \in Slots : Same(cs, calls', c)
         /\ SettingsKept
<1>1. /\ stack' \in Seq(Route) /\ Len(stack') = Len(stack) /\ stack' # <<>>
      /\ \A i \in 1..Len(stack') : stack'[i] = r \/ (i \in 1..Len(stack) /\ stack'[i] = stack[i])
      /\ Placed(calls', Len(stack')) /\ \A c \in Slots : Same(cs, calls', c)
  BY ReplacedRoute
<1>2. SettingsKept
  BY <1>1 DEF SettingsKept
<1> QED
  BY <1>1, <1>2 DEF TypeOK

LEMMA LoginInsteadType ==
  ASSUME TypeOK, LoginInstead
  PROVE  TypeOK' /\ SettingsKept /\ \A c \in Slots : Same(calls, calls', c)
<1>1. running /\ stack # <<>> /\ Placed(calls, Len(stack))
  BY TopRoute DEF LoginInstead, TypeOK, Placed
<1>2. /\ stack' \in Seq(Route) /\ Len(stack') <= MaxRoutes /\ stack' # <<>>
      /\ Placed(calls', Len(stack')) /\ \A c \in Slots : Same(calls, calls', c)
      /\ SettingsKept
  <2>1. Page("login") \in Route /\ Page("login").page # "settings"
    BY Routes
  <2> QED
    BY <1>1, <2>1, ReplacedPage DEF LoginInstead
<1> QED
  BY <1>1, <1>2 DEF LoginInstead, TypeOK, Placed, server, history

LEMMA WithoutLoginType ==
  ASSUME TypeOK, WithoutLogin
  PROVE  TypeOK' /\ SettingsKept /\ \A c \in Slots : Same(calls, calls', c)
<1>1. running /\ stack # <<>> /\ Placed(calls, Len(stack))
  BY TopRoute DEF WithoutLogin, TypeOK, Placed
<1>2. /\ stack' \in Seq(Route) /\ Len(stack') <= MaxRoutes /\ stack' # <<>>
      /\ Placed(calls', Len(stack')) /\ \A c \in Slots : Same(calls, calls', c)
      /\ SettingsKept
  <2>1. NewGate \in Route /\ NewGate.page # "settings"
    BY Routes
  <2> QED
    BY <1>1, <2>1, ReplacedPage DEF WithoutLogin
<1>3. sent' \in Seq(Write)
  BY TrackedWrites, SentType DEF WithoutLogin, TypeOK
<1>4. leaving' \subseteq Slots
  BY DEF WithoutLogin, TypeOK
<1> QED
  BY <1>1, <1>2, <1>3, <1>4 DEF WithoutLogin, TypeOK, Placed, server

\* A handler that a press starts.
LEMMA PressedType ==
  ASSUME TypeOK, NEW c \in Slots, NEW op \in Ops, NEW uid \in Uids \union {0},
         Start(c, op, uid), UNCHANGED <<server, device>>, leaving' \subseteq Slots, out' = out,
         mutations' \in Seq(Mutation), sent' \in Seq(Write)
  PROVE  TypeOK' /\ Goes(calls, calls', c, op, uid) /\ calls[c].op = "none"
<1>1. Placed(calls', Len(stack)) /\ Goes(calls, calls', c, op, uid) /\ calls[c].op = "none"
  BY StartCall
<1> QED
  BY <1>1 DEF TypeOK, Placed, server, device

LEMMA PressSignOutType ==
  ASSUME TypeOK, NEW c \in Slots, PressSignOut(c)
  PROVE  /\ TypeOK' /\ Last(stack).user \in Uids /\ stack # <<>>
         /\ Goes(calls, calls', c, "offline", Last(stack).user) /\ calls[c].op = "none"
<1>1. Last(stack).user \in Uids /\ stack # <<>>
  BY TopRoute DEF PressSignOut
<1>2. <<[op |-> "offline", uid |-> Last(stack).user, by |-> c]>> \in Seq(Write)
  <2>1. [op |-> "offline", uid |-> Last(stack).user, by |-> c] \in Write
    BY <1>1 DEF Write
  <2> QED
    BY <2>1
<1>3. sent' \in Seq(Write)
  BY <1>2, SentType DEF PressSignOut
<1>4. leaving' \subseteq Slots
  BY DEF PressSignOut, Leaves, TypeOK
<1>5. Start(c, "offline", Last(stack).user) /\ UNCHANGED <<server, device, mutations, out>>
  BY DEF PressSignOut
<1>6. mutations' \in Seq(Mutation) /\ "offline" \in Ops
  BY <1>5 DEF TypeOK, Ops
<1> QED
  BY <1>1, <1>3, <1>4, <1>5, <1>6, PressedType

LEMMA MutateType ==
  ASSUME TypeOK, NEW m \in Mutation, Mutate(m)
  PROVE  /\ mutations' \in Seq(Mutation) /\ mutations' = mutations \o <<m>>
         /\ Len(mutations') = Len(mutations) + 1 /\ mutations'[Len(mutations')] = m
         /\ \A i \in 1..Len(mutations') : \/ i = Len(mutations') /\ mutations'[i] = m
                                          \/ i \in 1..Len(mutations) /\ mutations'[i] = mutations[i]
<1>1. mutations \in Seq(Mutation) /\ mutations' = Append(mutations, m) /\ Len(mutations) \in Nat
  BY Domains DEF TypeOK, Mutate
<1>2. /\ mutations' \in Seq(Mutation) /\ Len(mutations') = Len(mutations) + 1
      /\ mutations'[Len(mutations')] = m
  BY <1>1, Appended
<1>3. mutations' = mutations \o <<m>>
  BY <1>1, AppendIsConcat
<1>4. \A i \in 1..Len(mutations) : mutations'[i] = mutations[i]
  BY <1>1, AppendProperties
<1>5. \A i \in 1..Len(mutations') : i = Len(mutations') \/ i \in 1..Len(mutations)
  BY <1>1, <1>2
<1> QED
  BY <1>2, <1>3, <1>4, <1>5

LEMMA PressDeleteType ==
  ASSUME TypeOK, NEW c \in Slots, PressDelete(c)
  PROVE  /\ TypeOK' /\ Last(stack).user \in Uids /\ stack # <<>>
         /\ [op |-> "delete", uid |-> Last(stack).user, by |-> c] \in Mutation
         /\ Goes(calls, calls', c, "delete", Last(stack).user) /\ calls[c].op = "none"
<1>1. Last(stack).user \in Uids /\ stack # <<>>
  BY TopRoute DEF PressDelete
<1>2. [op |-> "delete", uid |-> Last(stack).user, by |-> c] \in Mutation
  BY <1>1 DEF Mutation
<1>3. mutations' \in Seq(Mutation)
  BY <1>2, MutateType DEF PressDelete
<1>4. leaving' \subseteq Slots
  BY DEF PressDelete, Leaves, TypeOK
<1>5. Start(c, "delete", Last(stack).user) /\ UNCHANGED <<server, device, sent, out>>
  BY DEF PressDelete
<1>6. sent' \in Seq(Write) /\ "delete" \in Ops
  BY <1>5 DEF TypeOK, Ops
<1> QED
  BY <1>1, <1>2, <1>3, <1>4, <1>5, <1>6, PressedType

LEMMA CreatedType ==
  ASSUME TypeOK, NEW c \in Slots, NEW e \in Emails, Created(c, e)
  PROVE  /\ TypeOK' /\ Len(accounts) + 1 \in Uids /\ Len(accounts') = Len(accounts) + 1
         /\ \A i \in 1..Len(accounts) : accounts'[i] = accounts[i]
         /\ accounts'[Len(accounts) + 1].state = "unverified"
         /\ [op |-> "set", uid |-> Len(accounts) + 1, by |-> c] \in Mutation
         /\ Goes(calls, calls', c, "set", Len(accounts) + 1)
         /\ calls[c].op = "create" /\ stack' = stack
<1> DEFINE new == Len(accounts) + 1
           a == [email |-> e, state |-> "unverified"]
           m == [op |-> "set", uid |-> new, by |-> c]
           k == [calls[c] EXCEPT !.op = "set", !.uid = new]
<1>1. Len(accounts) \in Nat /\ Len(accounts) < MaxAccounts /\ MaxAccounts \in Nat
  BY Domains, BoundsAssumption DEF Created
<1>2. new \in Uids /\ a \in Account /\ a.state = "unverified"
  BY <1>1 DEF Uids, Account
<1>3. m \in Mutation
  BY <1>2 DEF Mutation
<1>4. /\ accounts' = Append(accounts, a) /\ Authenticate(new) /\ Mutate(m)
      /\ calls' = [calls EXCEPT ![c].op = "set", ![c].uid = new]
      /\ UNCHANGED <<docs, presence, armed, stale, connected, running, remembered, stack, history>>
      /\ calls[c].op = "create"
  BY DEF Created
<1>5. /\ accounts' \in Seq(Account) /\ Len(accounts') = new /\ accounts'[Len(accounts')] = a
      /\ \A i \in 1..Len(accounts') : accounts'[i] = a \/ (i \in 1..Len(accounts) /\ accounts'[i] = accounts[i])
  BY <1>2, <1>4, Appended DEF TypeOK
<1>6. \A i \in 1..Len(accounts) : accounts'[i] = accounts[i]
  BY <1>2, <1>4, AppendProperties DEF TypeOK
<1>7. k \in Call /\ k.op = "set" /\ k.uid = new /\ k.depth = calls[c].depth
  BY <1>2, CallType DEF Call
<1>8. calls' \in [Slots -> Call] /\ calls'[c] = k /\ \A d \in Slots \ {c} : calls'[d] = calls[d]
  BY <1>4, <1>7 DEF TypeOK
<1>9. Placed(calls', Len(stack')) /\ Goes(calls, calls', c, "set", new)
  BY <1>4, <1>7, <1>8 DEF Placed, Goes, Same, TypeOK
<1>10. user' = new /\ sent' \in Seq(Write)
  <2>1. /\ user' = new
        /\ Send(IF new = user THEN <<>> ELSE Tracked(new, stack))
    BY <1>4 DEF Authenticate
  <2>2. (IF new = user THEN <<>> ELSE Tracked(new, stack)) \in Seq(Write)
    BY <1>2, TrackedWrites
  <2> QED
    BY <2>1, <2>2, SentType
<1>11. mutations' \in Seq(Mutation)
  BY <1>3, <1>4, MutateType
<1> HIDE DEF new, a, m, k
<1>12. TypeOK'
  BY <1>1, <1>2, <1>4, <1>5, <1>9, <1>10, <1>11 DEF TypeOK, Placed, history, new
<1> QED
  BY <1>2, <1>3, <1>4, <1>5, <1>6, <1>9, <1>12 DEF new, a, m

LEMMA SameStack ==
  ASSUME stack' = stack
  PROVE  SettingsKept
BY DEF SettingsKept

\* Putting two changes of the handlers together.
LEMMA GoesThen ==
  ASSUME NEW cs, NEW ds, NEW es, NEW c, NEW op, NEW uid, c \in Slots,
         Goes(cs, ds, c, op, uid), \A d \in Slots : Same(ds, es, d)
  PROVE  Goes(cs, es, c, op, uid)
BY DEF Goes, Same

LEMMA AuthenticateType ==
  ASSUME TypeOK, NEW u \in Uids \union {0}, Authenticate(u)
  PROVE  /\ user' = u /\ sent' \in Seq(Write)
         /\ \E t \in Seq(Write) : /\ sent' = sent \o t
                                  /\ \A i \in 1..Len(t) : t[i].by = 0 /\ t[i].uid = u
                                  /\ u = 0 => t = <<>>
<1> DEFINE t == IF u = user THEN <<>> ELSE Tracked(u, stack)
<1>1. u = 0 => t = <<>>
  BY TrackedWrites
<1>2. t \in Seq(Write)
  BY TrackedWrites
<1>3. \A i \in 1..Len(t) : t[i].by = 0 /\ t[i].uid = u
  <2>1. CASE u = user
    <3>1. Len(t) = 0
      BY <2>1
    <3> QED
      BY <3>1
  <2>2. CASE u # user
    BY <2>2, TrackedWrites
  <2> QED
    BY <2>1, <2>2
<1>4. user' = u /\ Send(t)
  BY DEF Authenticate
<1> HIDE DEF t
<1>5. sent' \in Seq(Write) /\ sent' = sent \o t
  BY <1>2, <1>4, SentType
<1> QED
  BY <1>1, <1>2, <1>3, <1>4, <1>5

LEMMA MailSentType ==
  ASSUME TypeOK, NEW c \in Slots, MailSent(c)
  PROVE  TypeOK' /\ Goes(calls, calls', c, "none", 0) /\ SettingsKept /\ calls[c].op = "mail"
<1>1. calls[c].op = "mail" /\ UNCHANGED <<server, running, user, remembered, mutations, sent, history>>
  BY DEF MailSent
<1>2. Placed(Ended(c), Len(stack)) /\ Goes(calls, Ended(c), c, "none", 0)
  BY EndedCall
<1>3. CASE calls[c].depth = 0
  <2>1. calls' = Ended(c) /\ stack' = stack
    BY <1>3 DEF MailSent
  <2> QED
    BY <1>1, <1>2, <2>1, SameStack DEF TypeOK, Placed, server, history
<1>4. CASE calls[c].depth # 0
  <2>1. Replace(Ended(c), Page("login")) /\ running /\ stack # <<>>
    BY <1>4, CallType DEF MailSent, TypeOK
  <2>2. Page("login") \in Route /\ Page("login").page # "settings"
    BY Routes
  <2>3. /\ stack' \in Seq(Route) /\ Len(stack') <= MaxRoutes /\ stack' # <<>>
        /\ Placed(calls', Len(stack')) /\ \A d \in Slots : Same(Ended(c), calls', d)
        /\ SettingsKept
    BY <1>2, <2>1, <2>2, ReplacedPage
  <2>4. Goes(calls, calls', c, "none", 0)
    BY <1>2, <2>3, GoesThen
  <2> QED
    BY <1>1, <2>1, <2>3, <2>4 DEF TypeOK, Placed, server, history
<1> QED
  BY <1>3, <1>4

LEMMA SignedInType ==
  ASSUME TypeOK, NEW c \in Slots, NEW uid \in Uids, SignedIn(c, uid)
  PROVE  TypeOK' /\ Goes(calls, calls', c, "role", uid) /\ calls[c].op = "signin"
<1> DEFINE v == accounts[uid].state = "verified"
           k == [calls[c] EXCEPT !.op = "role", !.uid = uid, !.verified = v]
<1>1. /\ calls[c].op = "signin" /\ Authenticate(uid)
      /\ calls' = [calls EXCEPT ![c].op = "role", ![c].uid = uid, ![c].verified = v]
      /\ leaving' \subseteq leaving /\ out' \subseteq out
      /\ UNCHANGED <<server, running, remembered, stack, mutations>>
  BY DEF SignedIn
<1>2. v \in BOOLEAN
  OBVIOUS
<1> HIDE DEF v
<1>3. k \in Call /\ k.op = "role" /\ k.uid = uid /\ k.depth = calls[c].depth
  BY <1>2, CallType DEF Call
<1>4. calls' \in [Slots -> Call] /\ calls'[c] = k /\ \A d \in Slots \ {c} : calls'[d] = calls[d]
  BY <1>1, <1>3 DEF TypeOK
<1>5. Placed(calls', Len(stack')) /\ Goes(calls, calls', c, "role", uid)
  BY <1>1, <1>3, <1>4 DEF Placed, Goes, Same, TypeOK
<1>6. user' = uid /\ sent' \in Seq(Write)
  BY <1>1, AuthenticateType
<1> QED
  BY <1>1, <1>5, <1>6 DEF TypeOK, Placed, server

LEMMA RoleReadType ==
  ASSUME TypeOK, NEW c \in Slots, RoleRead(c)
  PROVE  /\ TypeOK' /\ calls[c].op = "role"
         /\ \E op \in {"remember", "undo"} : Goes(calls, calls', c, op, calls[c].uid)
<1> DEFINE op == IF calls[c].verified THEN "remember" ELSE "undo"
<1>1. op \in {"remember", "undo"} /\ op \in Ops
  BY DEF Ops
<1>2. Await(c, op) /\ calls[c].op = "role" /\ UNCHANGED <<server, device, mutations, sent, history>>
  BY DEF RoleRead
<1> HIDE DEF op
<1>3. Placed(calls', Len(stack)) /\ Goes(calls, calls', c, op, calls[c].uid)
  BY <1>1, <1>2, AwaitCall
<1> QED
  BY <1>1, <1>2, <1>3 DEF TypeOK, Placed, server, device, history

LEMMA SignOutUnverifiedType ==
  ASSUME TypeOK, NEW c \in Slots, SignOutUnverified(c)
  PROVE  TypeOK' /\ Goes(calls, calls', c, "none", 0) /\ calls[c].op = "undo"
<1>1. /\ calls[c].op = "undo" /\ Authenticate(0) /\ calls' = Ended(c)
      /\ UNCHANGED <<server, running, remembered, stack, mutations, history>>
  BY DEF SignOutUnverified
<1>2. Placed(calls', Len(stack)) /\ Goes(calls, calls', c, "none", 0)
  BY <1>1, EndedCall
<1>3. user' = 0 /\ sent' \in Seq(Write)
  BY <1>1, AuthenticateType
<1> QED
  BY <1>1, <1>2, <1>3 DEF TypeOK, Placed, server, history

LEMMA RememberStoredType ==
  ASSUME TypeOK, ListInv, NEW c \in Slots, NEW rememberMe \in BOOLEAN, RememberStored(c, rememberMe)
  PROVE  /\ TypeOK' /\ Goes(calls, calls', c, "online", calls[c].uid)
         /\ calls[c].op = "remember" /\ calls[c].uid \in Uids
         /\ [op |-> "online", uid |-> calls[c].uid, by |-> c] \in Write
<1> DEFINE w == [op |-> "online", uid |-> calls[c].uid, by |-> c]
<1>1. /\ calls[c].op = "remember" /\ remembered' = rememberMe /\ Send(<<w>>) /\ Await(c, "online")
      /\ UNCHANGED <<server, running, user, stack, mutations, history>>
  BY DEF RememberStored
<1>2. calls[c].uid \in Uids
  BY <1>1, CallType DEF ListInv, Registered, LoggingIn
<1>3. w \in Write
  BY <1>2 DEF Write
<1>4. <<w>> \in Seq(Write)
  BY <1>3
<1>5. sent' \in Seq(Write)
  BY <1>1, <1>4, SentType
<1>6. Placed(calls', Len(stack)) /\ Goes(calls, calls', c, "online", calls[c].uid)
  BY <1>1, AwaitCall DEF Ops
<1> QED
  BY <1>1, <1>2, <1>3, <1>5, <1>6 DEF TypeOK, Placed, server, history

LEMMA FunctionIsSeq ==
  ASSUME NEW S, NEW n \in Nat, NEW f \in [1..n -> S]
  PROVE  f \in Seq(S) /\ Len(f) = n
<1>1. f \in Seq(S)
  BY SeqDef
<1>2. Len(f) \in Nat /\ DOMAIN f = 1..Len(f) /\ DOMAIN f = 1..n
  BY <1>1, LenProperties
<1> QED
  BY <1>1, <1>2

LEMMA AppRebuiltType ==
  ASSUME TypeOK, NEW c \in Slots, AppRebuilt(c)
  PROVE  TypeOK' /\ Goes(calls, calls', c, "none", 0) /\ SettingsKept /\ calls[c].op = "dark"
<1>1. /\ calls[c].op = "dark" /\ calls' = Ended(c)
      /\ stack' = [i \in DOMAIN stack |-> IF stack[i].page = "gate" THEN NewGate ELSE stack[i]]
      /\ Send(Tracked(user, stack')) /\ leaving' \subseteq leaving
      /\ UNCHANGED <<server, running, user, remembered, mutations, out>>
  BY DEF AppRebuilt
<1>2. Placed(calls', Len(stack)) /\ Goes(calls, calls', c, "none", 0)
  BY <1>1, EndedCall
<1>3. /\ stack \in Seq(Route) /\ Len(stack) \in Nat /\ DOMAIN stack = 1..Len(stack)
      /\ \A i \in 1..Len(stack) : stack[i] \in Route
  BY Domains, ElementOfSeq DEF TypeOK
<1>4. stack' \in [1..Len(stack) -> Route]
  BY <1>1, <1>3, Routes
<1>5. stack' \in Seq(Route) /\ Len(stack') = Len(stack)
  BY <1>3, <1>4, FunctionIsSeq
<1>6. \A i \in 1..Len(stack') : stack'[i] = NewGate \/ (i \in 1..Len(stack) /\ stack'[i] = stack[i])
  BY <1>1, <1>3, <1>5
<1>7. SettingsKept
  BY <1>6, Routes DEF SettingsKept
<1>8. stack = <<>> <=> stack' = <<>>
  BY <1>3, <1>5, EmptySeq
<1>9. sent' \in Seq(Write)
  BY <1>1, TrackedWrites, SentType DEF TypeOK
<1> QED
  BY <1>1, <1>2, <1>5, <1>7, <1>8, <1>9 DEF TypeOK, Placed, server

\* A handler ends and, if it has its page, resets the navigator to a page that
\* is not a settings page.
LEMMA EndsAndResets ==
  ASSUME TypeOK, NEW c \in Slots, calls[c].op # "none",
         NEW r \in Route, r.page # "settings", running' = running,
         IF calls[c].depth = 0 THEN calls' = Ended(c) /\ UNCHANGED stack
         ELSE Reset(Ended(c), r)
  PROVE  /\ stack' \in Seq(Route) /\ Len(stack') <= MaxRoutes /\ (running' <=> stack' # <<>>)
         /\ Placed(calls', Len(stack')) /\ Goes(calls, calls', c, "none", 0) /\ SettingsKept
<1>1. Placed(Ended(c), Len(stack)) /\ Goes(calls, Ended(c), c, "none", 0)
  BY EndedCall
<1>2. CASE calls[c].depth = 0
  <2>1. calls' = Ended(c) /\ stack' = stack
    BY <1>2
  <2> QED
    BY <1>1, <2>1, SameStack DEF TypeOK
<1>3. CASE calls[c].depth # 0
  <2>1. Reset(Ended(c), r) /\ running
    BY <1>3, CallType DEF TypeOK
  <2>2. /\ stack' = <<r>> /\ stack' \in Seq(Route) /\ Len(stack') = 1 /\ stack'[1] = r
        /\ Placed(calls', Len(stack')) /\ \A d \in Slots : Same(Ended(c), calls', d)
    BY <1>1, <2>1, ResetRoutes
  <2>3. Goes(calls, calls', c, "none", 0)
    BY <1>1, <2>2, GoesThen
  <2>4. SettingsKept
    BY <2>2 DEF SettingsKept
  <2> QED
    BY <2>1, <2>2, <2>3, <2>4, BoundsAssumption
<1> QED
  BY <1>2, <1>3

LEMMA SignedOutType ==
  ASSUME TypeOK, ListInv, NEW c \in Slots, SignedOut(c)
  PROVE  TypeOK' /\ Goes(calls, calls', c, "none", 0) /\ SettingsKept /\ calls[c].op = "signout"
<1>1. /\ calls[c].op = "signout" /\ user' = 0 /\ HasLeft(c, {calls[c].uid} \intersect {user})
      /\ UNCHANGED <<server, running, remembered, mutations, sent>>
  BY DEF SignedOut
<1>2. NewGate \in Route /\ NewGate.page # "settings"
  BY Routes
<1>3. /\ stack' \in Seq(Route) /\ Len(stack') <= MaxRoutes /\ (running' <=> stack' # <<>>)
      /\ Placed(calls', Len(stack')) /\ Goes(calls, calls', c, "none", 0) /\ SettingsKept
  BY <1>1, <1>2, EndsAndResets DEF SignedOut
<1>4. calls[c].uid \in Uids
  BY <1>1, CallType DEF ListInv, Registered, Leaving
<1>5. leaving' \subseteq Slots /\ out' \subseteq Uids
  BY <1>1, <1>4 DEF HasLeft, TypeOK
<1> QED
  BY <1>1, <1>3, <1>5 DEF TypeOK, Placed, server

LEMMA AccountDeletedType ==
  ASSUME TypeOK, NEW c \in Slots, AccountDeleted(c)
  PROVE  /\ TypeOK' /\ Goes(calls, calls', c, "none", 0) /\ SettingsKept
         /\ calls[c].op = "end" /\ calls[c].uid \in 1..Len(accounts) /\ calls[c].uid \in Uids
         /\ Len(accounts') = Len(accounts) /\ accounts'[calls[c].uid].state = "deleted"
         /\ \A i \in 1..Len(accounts) : i # calls[c].uid => accounts'[i] = accounts[i]
<1> DEFINE uid == calls[c].uid
           a == [accounts[uid] EXCEPT !.state = "deleted"]
<1>1. /\ calls[c].op = "end" /\ uid \in 1..Len(accounts)
      /\ accounts' = [accounts EXCEPT ![uid].state = "deleted"]
      /\ user' = (IF user = uid THEN 0 ELSE user) /\ HasLeft(c, {uid})
      /\ UNCHANGED <<docs, presence, armed, stale, connected, running, remembered, mutations, sent>>
  BY Domains DEF AccountDeleted, Exists
<1>2. Page("login") \in Route /\ Page("login").page # "settings"
  BY Routes
<1>3. /\ stack' \in Seq(Route) /\ Len(stack') <= MaxRoutes /\ (running' <=> stack' # <<>>)
      /\ Placed(calls', Len(stack')) /\ Goes(calls, calls', c, "none", 0) /\ SettingsKept
  BY <1>1, <1>2, EndsAndResets DEF AccountDeleted
<1>4. accounts[uid] \in Account
  BY <1>1, ElementOfSeq DEF TypeOK
<1>5. a \in Account /\ a.state = "deleted" /\ accounts' = [accounts EXCEPT ![uid] = a]
  BY <1>1, <1>4 DEF Account
<1> HIDE DEF a
<1>6. /\ accounts' \in Seq(Account) /\ Len(accounts') = Len(accounts)
      /\ \A i \in 1..Len(accounts) : accounts'[i] = IF i = uid THEN a ELSE accounts[i]
  <2> HIDE DEF uid
  <2>1. accounts \in Seq(Account) /\ uid \in 1..Len(accounts) /\ a \in Account
    BY <1>1, <1>5 DEF TypeOK
  <2>2. [accounts EXCEPT ![uid] = a] \in Seq(Account) /\ Len([accounts EXCEPT ![uid] = a]) = Len(accounts)
    BY <2>1, ExceptSeq
  <2>3. \A i \in 1..Len(accounts) :
          [accounts EXCEPT ![uid] = a][i] = IF i = uid THEN a ELSE accounts[i]
    BY <2>1, ExceptSeq
  <2> QED
    BY <1>5, <2>2, <2>3
<1>7. uid \in Uids
  BY <1>1, CallType, Domains
<1>8. leaving' \subseteq Slots /\ out' \subseteq Uids
  BY <1>1, <1>7 DEF HasLeft, TypeOK
<1> HIDE DEF uid
<1>9. TypeOK'
  BY <1>1, <1>3, <1>6, <1>8 DEF TypeOK, Placed
<1> QED
  BY <1>1, <1>3, <1>5, <1>6, <1>7, <1>9 DEF uid

LEMMA CallFailsType ==
  ASSUME TypeOK, NEW c \in Slots, CallFails(c)
  PROVE  /\ TypeOK' /\ Goes(calls, calls', c, "none", 0)
         /\ calls[c].op \in {"create", "mail", "signin", "role", "end"}
<1>1. Placed(calls', Len(stack)) /\ Goes(calls, calls', c, "none", 0)
  BY EndedCall DEF CallFails
<1> QED
  BY <1>1 DEF CallFails, TypeOK, Placed, server, device, history

\* The oldest write of a queue, and what stays behind it.
LEMMA OldestOf ==
  ASSUME NEW S, NEW q \in Seq(S), q # <<>>
  PROVE  /\ Head(q) \in S /\ Head(q) = q[1] /\ 1 \in 1..Len(q)
         /\ Tail(q) \in Seq(S) /\ Len(Tail(q)) = Len(q) - 1
         /\ \A i \in 1..Len(Tail(q)) : i + 1 \in 1..Len(q) /\ Tail(q)[i] = q[i + 1]
<1>1. Len(q) \in Nat \ {0}
  BY EmptySeq
<1>2. /\ Head(q) \in S /\ Tail(q) \in Seq(S) /\ Len(Tail(q)) = Len(q) - 1
      /\ \A i \in 1..Len(Tail(q)) : Tail(q)[i] = q[i + 1]
  BY HeadTailProperties
<1> QED
  BY <1>1, <1>2

\* What the answer to the oldest write to users does to the handlers.
MutationAnswered(m) ==
  \/ m.by = 0 /\ calls' = calls /\ sent' = sent
  \/ /\ m.by \in Slots /\ m.op = "set" /\ sent' = sent
     /\ Goes(calls, calls', m.by, "mail", calls[m.by].uid)
  \/ /\ m.by \in Slots /\ m.op = "delete"
     /\ Goes(calls, calls', m.by, "remove", calls[m.by].uid)
     /\ [op |-> "remove", uid |-> m.uid, by |-> m.by] \in Write
     /\ sent' = sent \o <<[op |-> "remove", uid |-> m.uid, by |-> m.by]>>

LEMMA MutationStoredType ==
  ASSUME TypeOK, MutationStored
  PROVE  /\ TypeOK' /\ mutations # <<>> /\ mutations' = Tail(mutations)
         /\ Head(mutations) \in Mutation /\ MutationAnswered(Head(mutations))
         /\ \/ Head(mutations).op = "set" /\ docs' = docs \union {Head(mutations).uid}
            \/ Head(mutations).op = "delete" /\ docs' = docs \ {Head(mutations).uid}
<1> DEFINE m == Head(mutations)
           w == [op |-> "remove", uid |-> m.uid, by |-> m.by]
<1>1. /\ mutations # <<>> /\ mutations' = Tail(mutations) /\ mutations' \in Seq(Mutation)
      /\ m \in Mutation
      /\ UNCHANGED <<accounts, presence, armed, stale, connected, device, history>>
  BY OldestOf DEF MutationStored, TypeOK
<1>2. m.uid \in Uids /\ m.by \in Slots \union {0}
  BY <1>1 DEF Mutation
<1>3. CASE m.op = "set"
  <2>1. docs' = docs \union {m.uid} /\ sent' = sent
    BY <1>3 DEF MutationStored
  <2>2. CASE m.by = 0
    <3>1. calls' = calls
      BY <1>3, <2>2 DEF MutationStored
    <3>2. TypeOK'
      BY <1>1, <1>2, <2>1, <3>1 DEF TypeOK, device, history
    <3> QED
      BY <1>1, <1>3, <2>1, <2>2, <3>1, <3>2 DEF MutationAnswered
  <2>3. CASE m.by # 0
    <3>1. m.by \in Slots /\ Await(m.by, "mail")
      BY <1>2, <1>3, <2>3 DEF MutationStored
    <3>2. Placed(calls', Len(stack)) /\ Goes(calls, calls', m.by, "mail", calls[m.by].uid)
      BY <3>1, AwaitCall DEF Ops
    <3>3. TypeOK'
      BY <1>1, <1>2, <2>1, <3>2 DEF TypeOK, Placed, device, history
    <3> QED
      BY <1>1, <1>3, <2>1, <3>1, <3>2, <3>3 DEF MutationAnswered
  <2> QED
    BY <2>2, <2>3
<1>4. CASE m.op = "delete"
  <2>1. docs' = docs \ {m.uid}
    BY <1>4 DEF MutationStored
  <2>2. CASE m.by = 0
    <3>1. calls' = calls /\ sent' = sent
      BY <1>4, <2>2 DEF MutationStored
    <3>2. TypeOK'
      BY <1>1, <1>2, <2>1, <3>1 DEF TypeOK, device, history
    <3> QED
      BY <1>1, <1>4, <2>1, <2>2, <3>1, <3>2 DEF MutationAnswered
  <2>3. CASE m.by # 0
    <3>1. m.by \in Slots /\ Await(m.by, "remove") /\ Send(<<w>>)
      BY <1>2, <1>4, <2>3 DEF MutationStored
    <3>2. Placed(calls', Len(stack)) /\ Goes(calls, calls', m.by, "remove", calls[m.by].uid)
      BY <3>1, AwaitCall DEF Ops
    <3>3. w \in Write
      BY <1>2 DEF Write
    <3>4. <<w>> \in Seq(Write)
      BY <3>3
    <3>5. sent' \in Seq(Write) /\ sent' = sent \o <<w>>
      BY <3>1, <3>4, SentType
    <3>6. TypeOK'
      BY <1>1, <1>2, <2>1, <3>2, <3>5 DEF TypeOK, Placed, device, history
    <3> QED
      BY <1>1, <1>4, <2>1, <3>1, <3>2, <3>3, <3>5, <3>6 DEF MutationAnswered
  <2> QED
    BY <2>2, <2>3
<1> QED
  BY <1>1, <1>3, <1>4 DEF Mutation

\* A write is refused: its handler, if any, ends.
Refused(w) ==
  \/ w.by = 0 /\ calls' = calls
  \/ w.by \in Slots /\ Goes(calls, calls', w.by, "none", 0)

LEMMA MutationRefusedType ==
  ASSUME TypeOK, MutationRefused
  PROVE  /\ TypeOK' /\ mutations # <<>> /\ mutations' = Tail(mutations)
         /\ Head(mutations) \in Mutation /\ Refused(Head(mutations))
<1> DEFINE m == Head(mutations)
<1>1. /\ mutations # <<>> /\ mutations' = Tail(mutations) /\ mutations' \in Seq(Mutation)
      /\ m \in Mutation /\ UNCHANGED <<server, device, sent, history>>
  BY OldestOf DEF MutationRefused, TypeOK
<1>2. m.by \in Slots \union {0}
  BY <1>1 DEF Mutation
<1>3. Placed(calls', Len(stack)) /\ Refused(m)
  <2>1. CASE m.by = 0
    BY <2>1 DEF MutationRefused, Refused, Placed, TypeOK
  <2>2. CASE m.by # 0
    BY <1>2, <2>2, EndedCall DEF MutationRefused, Refused
  <2> QED
    BY <2>1, <2>2
<1> QED
  BY <1>1, <1>3 DEF TypeOK, Placed, server, device, history

\* What the answer to the oldest write to presence does to the handlers.
WriteAnswered(w) ==
  \/ w.by = 0 /\ \A c \in Slots : Same(calls, calls', c)
  \/ /\ w.by \in Slots /\ w.op = "offline"
     /\ Goes(calls, calls', w.by, "signout", calls[w.by].uid)
  \/ /\ w.by \in Slots /\ w.op = "remove"
     /\ Goes(calls, calls', w.by, "end", calls[w.by].uid)
  \/ /\ w.by \in Slots /\ w.op = "online"
     /\ Goes(calls, calls', w.by, "none", 0)

LEMMA WriteStoredType ==
  ASSUME TypeOK, WriteStored
  PROVE  /\ TypeOK' /\ sent # <<>> /\ sent' = Tail(sent) /\ Head(sent) \in Write
         /\ \A uid \in Uids : presence'[uid] =
              IF uid # Head(sent).uid \/ Head(sent).op = "arm" THEN presence[uid]
              ELSE IF Head(sent).op = "remove" THEN "none" ELSE Head(sent).op
         /\ WriteAnswered(Head(sent)) /\ SettingsKept
<1> DEFINE w == Head(sent)
<1>1. /\ sent # <<>> /\ sent' = Tail(sent) /\ sent' \in Seq(Write) /\ w \in Write
      /\ UNCHANGED <<accounts, docs, stale, connected, running, user, remembered, mutations, history>>
  BY OldestOf DEF WriteStored, TypeOK
<1>2. w.uid \in Uids /\ w.by \in Slots \union {0} /\ w.op \in {"online", "offline", "remove", "arm"}
  BY <1>1 DEF Write
<1>3. /\ presence' = [presence EXCEPT ![w.uid] =
           CASE w.op = "arm" -> @ [] w.op = "remove" -> "none" [] OTHER -> w.op]
      /\ armed' = IF w.op = "arm" THEN armed \union {w.uid} ELSE armed
  BY DEF WriteStored
<1>4. /\ presence' \in [Uids -> {"none", "online", "offline"}]
      /\ \A uid \in Uids : presence'[uid] =
           IF uid # w.uid \/ w.op = "arm" THEN presence[uid]
           ELSE IF w.op = "remove" THEN "none" ELSE w.op
  BY <1>2, <1>3 DEF TypeOK
<1>5. /\ stack' \in Seq(Route) /\ Len(stack') <= MaxRoutes /\ (running <=> stack' # <<>>)
      /\ Placed(calls', Len(stack')) /\ WriteAnswered(w) /\ SettingsKept
  <2>1. \/ w.by = 0 /\ UNCHANGED <<calls, stack>>
        \/ w.by # 0 /\ w.op = "offline" /\ Await(w.by, "signout") /\ UNCHANGED stack
        \/ w.by # 0 /\ w.op = "remove" /\ Await(w.by, "end") /\ UNCHANGED stack
        \/ /\ w.by # 0 /\ w.op = "online"
           /\ IF calls[w.by].depth = 0 THEN calls' = Ended(w.by) /\ UNCHANGED stack
              ELSE Replace(Ended(w.by), Page("main"))
    BY DEF WriteStored
  <2>2. CASE w.by = 0 /\ UNCHANGED <<calls, stack>>
    BY <2>2, SameStack DEF TypeOK, Placed, WriteAnswered, Same
  <2>3. CASE w.by # 0 /\ w.op = "offline" /\ Await(w.by, "signout") /\ UNCHANGED stack
    <3>1. w.by \in Slots
      BY <1>2, <2>3
    <3>2. Placed(calls', Len(stack)) /\ Goes(calls, calls', w.by, "signout", calls[w.by].uid)
      BY <2>3, <3>1, AwaitCall DEF Ops
    <3> QED
      BY <2>3, <3>1, <3>2, SameStack DEF TypeOK, WriteAnswered
  <2>4. CASE w.by # 0 /\ w.op = "remove" /\ Await(w.by, "end") /\ UNCHANGED stack
    <3>1. w.by \in Slots
      BY <1>2, <2>4
    <3>2. Placed(calls', Len(stack)) /\ Goes(calls, calls', w.by, "end", calls[w.by].uid)
      BY <2>4, <3>1, AwaitCall DEF Ops
    <3> QED
      BY <2>4, <3>1, <3>2, SameStack DEF TypeOK, WriteAnswered
  <2>5. CASE /\ w.by # 0 /\ w.op = "online"
             /\ IF calls[w.by].depth = 0 THEN calls' = Ended(w.by) /\ UNCHANGED stack
                ELSE Replace(Ended(w.by), Page("main"))
    <3>1. w.by \in Slots
      BY <1>2, <2>5
    <3>2. Placed(Ended(w.by), Len(stack)) /\ Goes(calls, Ended(w.by), w.by, "none", 0)
      BY <3>1, EndedCall
    <3>3. CASE calls[w.by].depth = 0
      BY <2>5, <3>1, <3>2, <3>3, SameStack DEF TypeOK, WriteAnswered
    <3>4. CASE calls[w.by].depth # 0
      <4>1. Replace(Ended(w.by), Page("main")) /\ running /\ stack # <<>>
        BY <2>5, <3>1, <3>4, CallType DEF TypeOK
      <4>2. Page("main") \in Route /\ Page("main").page # "settings"
        BY Routes
      <4>3. /\ stack' \in Seq(Route) /\ Len(stack') <= MaxRoutes /\ stack' # <<>>
            /\ Placed(calls', Len(stack')) /\ \A d \in Slots : Same(Ended(w.by), calls', d)
            /\ SettingsKept
        BY <3>2, <4>1, <4>2, ReplacedPage
      <4>4. Goes(calls, calls', w.by, "none", 0)
        BY <3>1, <3>2, <4>3, GoesThen
      <4> QED
        BY <2>5, <3>1, <4>1, <4>3, <4>4 DEF WriteAnswered
    <3> QED
      BY <3>3, <3>4
  <2> QED
    BY <2>1, <2>2, <2>3, <2>4, <2>5
<1>6. armed' \subseteq Uids
  BY <1>2, <1>3 DEF TypeOK
<1> HIDE DEF w
<1>7. TypeOK'
  BY <1>1, <1>4, <1>5, <1>6 DEF TypeOK, Placed, history
<1> QED
  BY <1>1, <1>4, <1>5, <1>7 DEF w

LEMMA WriteRefusedType ==
  ASSUME TypeOK, WriteRefused
  PROVE  /\ TypeOK' /\ sent # <<>> /\ sent' = Tail(sent)
         /\ Head(sent) \in Write /\ Refused(Head(sent))
<1> DEFINE w == Head(sent)
<1>1. /\ sent # <<>> /\ sent' = Tail(sent) /\ sent' \in Seq(Write)
      /\ w \in Write /\ UNCHANGED <<server, device, mutations, history>>
  BY OldestOf DEF WriteRefused, TypeOK
<1>2. w.by \in Slots \union {0}
  BY <1>1 DEF Write
<1>3. Placed(calls', Len(stack)) /\ Refused(w)
  <2>1. CASE w.by = 0
    BY <2>1 DEF WriteRefused, Refused, Placed, TypeOK
  <2>2. CASE w.by # 0
    BY <1>2, <2>2, EndedCall DEF WriteRefused, Refused
  <2> QED
    BY <2>1, <2>2
<1> QED
  BY <1>1, <1>3 DEF TypeOK, Placed, server, device, history

LEMMA ConnectType ==
  ASSUME TypeOK, Connect \/ ConnectionLost
  PROVE  TypeOK'
<1>1. CASE Connect
  BY <1>1 DEF TypeOK, Connect, device, history
<1>2. CASE ConnectionLost
  <2>1. armed' \subseteq Uids /\ stale' \subseteq Uids /\ connected' \in BOOLEAN
    BY <1>2 DEF TypeOK, ConnectionLost
  <2> QED
    BY <1>2, <2>1 DEF TypeOK, ConnectionLost, device, history
<1> QED
  BY <1>1, <1>2

LEMMA ServerNoticesType ==
  ASSUME TypeOK, ServerNotices
  PROVE  /\ TypeOK'
         /\ \A uid \in Uids : presence'[uid] \in {"offline", presence[uid]}
<1>1. /\ presence' \in [Uids -> {"none", "online", "offline"}]
      /\ \A uid \in Uids : presence'[uid] \in {"offline", presence[uid]}
  BY DEF TypeOK, ServerNotices
<1> QED
  BY <1>1 DEF TypeOK, ServerNotices, device, history

LEMMA StartAppType ==
  ASSUME TypeOK, StartApp
  PROVE  TypeOK' /\ SettingsKept
<1>1. /\ running' = TRUE /\ stack' = <<NewGate>> /\ Send(Tracked(user, <<NewGate>>))
      /\ UNCHANGED <<server, user, remembered, calls, mutations, history>>
  BY DEF StartApp
<1>2. NewGate \in Route /\ NewGate.page # "settings"
  BY Routes
<1>3. stack' \in Seq(Route) /\ Len(stack') = 1 /\ stack'[1] = NewGate
  BY <1>1, <1>2
<1>4. stack' # <<>> /\ Len(stack') <= MaxRoutes
  <2>1. Len(<<>>) = 0 /\ 1 <= MaxRoutes
    BY BoundsAssumption
  <2> QED
    BY <1>3, <2>1
<1>5. SettingsKept
  BY <1>2, <1>3 DEF SettingsKept
<1>6. sent' \in Seq(Write)
  BY <1>1, TrackedWrites, SentType DEF TypeOK
<1>7. Placed(calls', Len(stack'))
  <2>1. Len(stack) = 0
    BY DEF StartApp, TypeOK
  <2> QED
    BY <1>1, <1>3, <2>1, CallType DEF Placed, TypeOK
<1> QED
  BY <1>1, <1>3, <1>4, <1>5, <1>6, <1>7 DEF TypeOK, Placed, server, history

LEMMA KillType ==
  ASSUME TypeOK, Kill
  PROVE  /\ TypeOK' /\ SettingsKept /\ Len(mutations') = Len(mutations)
         /\ \A i \in 1..Len(mutations) : /\ mutations'[i].op = mutations[i].op
                                         /\ mutations'[i].uid = mutations[i].uid
                                         /\ mutations'[i].by = 0
         /\ \A c \in Slots : calls'[c].op = "none" /\ calls'[c].uid = 0
<1>1. NoCall \in Call /\ NoCall.op = "none" /\ NoCall.uid = 0 /\ NoCall.depth = 0
  BY BoundsAssumption DEF NoCall, Call, Ops
<1>2. /\ calls' \in [Slots -> Call] /\ \A c \in Slots : calls'[c] = NoCall
      /\ stack' = <<>> /\ Len(stack') = 0 /\ stack' \in Seq(Route)
      /\ sent' = <<>> /\ sent' \in Seq(Write)
  BY <1>1 DEF Kill
<1>3. /\ Len(mutations) \in Nat /\ DOMAIN mutations = 1..Len(mutations)
      /\ \A i \in 1..Len(mutations) : mutations[i] \in Mutation
      /\ mutations' = [i \in DOMAIN mutations |-> [mutations[i] EXCEPT !.by = 0]]
  BY Domains, ElementOfSeq DEF TypeOK, Kill
<1>4. \A i \in 1..Len(mutations) :
        /\ mutations'[i] \in Mutation
        /\ mutations'[i].op = mutations[i].op /\ mutations'[i].uid = mutations[i].uid
        /\ mutations'[i].by = 0
  BY <1>3 DEF Mutation
<1>5. mutations' \in [1..Len(mutations) -> Mutation]
  BY <1>3, <1>4
<1>6. mutations' \in Seq(Mutation) /\ Len(mutations') = Len(mutations)
  BY <1>3, <1>5, FunctionIsSeq
<1>7. SettingsKept
  BY <1>2 DEF SettingsKept
<1>8. TypeOK'
  <2>1. /\ armed' \subseteq Uids /\ stale' \subseteq Uids /\ leaving' \subseteq Slots
        /\ connected' = FALSE /\ running' = FALSE
        /\ UNCHANGED <<accounts, docs, presence, user, remembered, out>>
    BY DEF TypeOK, Kill
  <2>2. Placed(calls', Len(stack')) /\ Len(stack') <= MaxRoutes
    BY <1>1, <1>2, BoundsAssumption DEF Placed
  <2> QED
    BY <1>2, <1>6, <2>1, <2>2 DEF TypeOK, Placed
<1> QED
  BY <1>1, <1>2, <1>4, <1>6, <1>7, <1>8

LEMMA VerifyType ==
  ASSUME TypeOK, NEW uid \in Uids, Verify(uid)
  PROVE  /\ TypeOK' /\ Len(accounts') = Len(accounts)
         /\ \A i \in 1..Len(accounts) :
              accounts'[i].state = "deleted" <=> accounts[i].state = "deleted"
<1> DEFINE a == [accounts[uid] EXCEPT !.state = "verified"]
<1>1. /\ uid \in 1..Len(accounts) /\ accounts[uid].state = "unverified"
      /\ accounts' = [accounts EXCEPT ![uid].state = "verified"]
      /\ UNCHANGED <<docs, presence, armed, stale, connected, device, calls, mutations, sent, history>>
  BY Domains DEF Verify, Exists
<1>2. accounts \in Seq(Account) /\ accounts[uid] \in Account
  BY <1>1, ElementOfSeq DEF TypeOK
<1>3. a \in Account /\ a.state = "verified" /\ accounts' = [accounts EXCEPT ![uid] = a]
  BY <1>1, <1>2 DEF Account
<1> HIDE DEF a
<1>4. accounts' \in Seq(Account) /\ Len(accounts') = Len(accounts)
  BY <1>1, <1>2, <1>3, ExceptSeq
<1>5. \A i \in 1..Len(accounts) : accounts'[i] = IF i = uid THEN a ELSE accounts[i]
  BY <1>1, <1>2, <1>3, ExceptSeq
<1> QED
  BY <1>1, <1>3, <1>4, <1>5 DEF TypeOK, device, history

LEMMA AdminDeletesType ==
  ASSUME TypeOK, NEW uid \in Uids, AdminDeletes(uid)
  PROVE  TypeOK'
BY DEF TypeOK, AdminDeletes, device, history

-----------------------------------------------------------------------------
(***************************************************************************)
(* The list of users: ListInv is kept by every step                        *)
(***************************************************************************)

Awaiting == {"set", "delete", "online", "offline", "remove"}

LEMMA QueueTypes ==
  ASSUME TypeOK
  PROVE  /\ \A i \in 1..Len(mutations) :
              /\ mutations[i] \in Mutation /\ mutations[i].op \in {"set", "delete"}
              /\ mutations[i].uid \in Uids /\ mutations[i].by \in Slots \union {0}
         /\ \A i \in 1..Len(sent) :
              /\ sent[i] \in Write /\ sent[i].op \in {"online", "offline", "remove", "arm"}
              /\ sent[i].uid \in Uids /\ sent[i].by \in Slots \union {0}
<1>1. /\ \A i \in 1..Len(mutations) : mutations[i] \in Mutation
      /\ \A i \in 1..Len(sent) : sent[i] \in Write
  BY ElementOfSeq DEF TypeOK
<1> QED
  BY <1>1 DEF Mutation, Write

\* The handlers know their accounts, and none comes to the end of a deletion.
HandlersFit ==
  /\ \A c \in Slots : calls'[c].uid \in DOMAIN accounts \union {0}
  /\ \A c \in Slots : calls'[c].op \in LoggingIn \union Leaving => calls'[c].uid # 0
  /\ \A c \in Slots : calls'[c].op \in {"remove", "end"} =>
       calls[c].op \in {"remove", "end"} /\ calls'[c].uid = calls[c].uid

LEMMA SameHandlers ==
  ASSUME ListInv, \A c \in Slots : Same(calls, calls', c)
  PROVE  HandlersFit /\ Awaited(mutations, calls') /\ Awaited(sent, calls')
BY AwaitedOthers DEF ListInv, Registered, HandlersFit, Same

\* A handler that waits for no write goes on, or a new one starts.
LEMMA OneHandler ==
  ASSUME TypeOK, ListInv, NEW c \in Slots, NEW op, NEW uid,
         Goes(calls, calls', c, op, uid), calls[c].op \notin Awaiting,
         uid \in DOMAIN accounts \union {0},
         op \in LoggingIn \union Leaving => uid # 0, op \notin {"remove", "end"}
  PROVE  /\ HandlersFit /\ Awaited(mutations, calls') /\ Awaited(sent, calls')
         /\ \A i \in 1..Len(mutations) : mutations[i].by # c
         /\ \A i \in 1..Len(sent) : sent[i].by # c
<1>1. HandlersFit
  BY DEF ListInv, Registered, HandlersFit, Goes, Same
<1>2. \A i \in 1..Len(mutations) : mutations[i].op \in Awaiting
  BY QueueTypes DEF Awaiting
<1>3. \A i \in 1..Len(sent) : sent[i].op \in Awaiting \/ sent[i].op = "arm"
  BY QueueTypes DEF Awaiting
<1>4. calls[c].op # "arm"
  BY CallType DEF Ops
<1>5. \A d \in Slots : \/ Same(calls, calls', d)
                       \/ /\ \A i \in 1..Len(mutations) : mutations[i].op # calls[d].op
                          /\ \A i \in 1..Len(sent) : sent[i].op # calls[d].op
  BY <1>2, <1>3, <1>4 DEF Goes
<1>6. Awaited(mutations, calls') /\ Awaited(sent, calls')
  BY <1>5, AwaitedOthers DEF ListInv, Same
<1>7. /\ \A i \in 1..Len(mutations) : mutations[i].by # c
      /\ \A i \in 1..Len(sent) : sent[i].by # c
  BY <1>2, <1>3, <1>4 DEF ListInv, Awaited
<1> QED
  BY <1>1, <1>6, <1>7

\* A step that writes nothing to users and deletes no account.
LEMMA ListKept ==
  ASSUME TypeOK, TypeOK', ListInv, mutations' = mutations, docs' \subseteq docs,
         Len(accounts') = Len(accounts),
         \A i \in 1..Len(accounts) :
           accounts'[i].state = "deleted" <=> accounts[i].state = "deleted",
         user' \in DOMAIN accounts \union {0}, out' \subseteq DOMAIN accounts,
         SettingsKept, HandlersFit, Awaited(mutations, calls'), Awaited(sent', calls')
  PROVE  ListInv'
<1>1. /\ DOMAIN accounts = 1..Len(accounts) /\ DOMAIN accounts' = DOMAIN accounts
      /\ \A uid : Exists(uid) <=> Exists(uid)'
  BY Domains DEF Exists
<1>2. Registered'
  BY <1>1 DEF ListInv, Registered, HandlersFit, SettingsKept
<1>3. SetsLead' /\ DocsHaveAccounts'
  BY <1>1 DEF ListInv, SetsLead, DocsHaveAccounts
<1>4. EndersUnlisted'
  BY DEF ListInv, EndersUnlisted, HandlersFit
<1> QED
  BY <1>2, <1>3, <1>4 DEF ListInv

\* The same if the accounts are not touched at all.
LEMMA ListQuiet ==
  ASSUME TypeOK, TypeOK', ListInv, UNCHANGED <<mutations, docs, accounts>>,
         user' \in {user, 0}, out' \subseteq DOMAIN accounts,
         SettingsKept, HandlersFit, Awaited(mutations, calls'), Awaited(sent', calls')
  PROVE  ListInv'
<1>1. user' \in DOMAIN accounts \union {0}
  BY DEF ListInv, Registered
<1> QED
  BY <1>1, ListKept

LEMMA OutRegistered ==
  ASSUME ListInv
  PROVE  out \subseteq DOMAIN accounts /\ user \in DOMAIN accounts \union {0}
BY DEF ListInv, Registered

\* Nobody waits for what a gate writes.
LEMMA GateAwaited ==
  ASSUME TypeOK, Awaited(sent, calls'), NEW routes, NEW u \in Uids \union {0},
         Send(Tracked(u, routes))
  PROVE  Awaited(sent', calls')
<1> DEFINE t == Tracked(u, routes)
<1>1. t \in Seq(Write) /\ \A i \in 1..Len(t) : t[i].by = 0
  BY TrackedWrites
<1> HIDE DEF t
<1>2. sent \in Seq(Write) /\ sent' = sent \o t
  BY <1>1, SentType DEF TypeOK, t
<1>3. Awaited(sent \o t, calls')
  BY <1>1, <1>2, AwaitedMore
<1> QED
  BY <1>2, <1>3

LEMMA PagesKeepList ==
  ASSUME TypeOK, ListInv,
         OpenSettings \/ OpenLogin \/ OpenRegister \/ Back \/ LoginInstead
  PROVE  TypeOK' /\ ListInv' /\ \A c \in Slots : Same(calls, calls', c)
<1>1. TypeOK' /\ SettingsKept /\ \A c \in Slots : Same(calls, calls', c)
  <2>1. CASE OpenSettings
    BY <2>1, OpenSettingsType DEF OpenSettings, Same
  <2>2. CASE OpenLogin
    <3>1. /\ running /\ Push(Page("login"))
          /\ UNCHANGED <<server, running, user, remembered, calls, mutations, sent, history>>
      BY <2>2 DEF OpenLogin, On
    <3> QED
      BY <3>1, PushedPage DEF Same
  <2>3. CASE OpenRegister
    <3>1. /\ running /\ Push(Page("register"))
          /\ UNCHANGED <<server, running, user, remembered, calls, mutations, sent, history>>
      BY <2>3 DEF OpenRegister, On
    <3> QED
      BY <3>1, PushedPage DEF Same
  <2>4. CASE Back
    BY <2>4, BackType
  <2>5. CASE LoginInstead
    BY <2>5, LoginInsteadType
  <2> QED
    BY <2>1, <2>2, <2>3, <2>4, <2>5
<1>2. UNCHANGED <<mutations, docs, accounts, user, out, sent>>
  BY DEF OpenSettings, OpenLogin, OpenRegister, Back, LoginInstead, server, history
<1> QED
  BY <1>1, <1>2, SameHandlers, OutRegistered, ListQuiet

LEMMA WithoutLoginKeepsList ==
  ASSUME TypeOK, ListInv, WithoutLogin
  PROVE  ListInv'
<1>1. TypeOK' /\ SettingsKept /\ \A c \in Slots : Same(calls, calls', c)
  BY WithoutLoginType
<1>2. HandlersFit /\ Awaited(mutations, calls') /\ Awaited(sent, calls')
  BY <1>1, SameHandlers
<1>3. Awaited(sent', calls')
  BY <1>2, GateAwaited DEF WithoutLogin, TypeOK
<1>4. UNCHANGED <<mutations, docs, accounts, user, out>>
  BY DEF WithoutLogin, server
<1> QED
  BY <1>1, <1>2, <1>3, <1>4, OutRegistered, ListQuiet

LEMMA StartAppKeepsList ==
  ASSUME TypeOK, ListInv, StartApp
  PROVE  ListInv'
<1>1. TypeOK' /\ SettingsKept /\ \A c \in Slots : Same(calls, calls', c)
  BY StartAppType DEF StartApp, Same
<1>2. HandlersFit /\ Awaited(mutations, calls') /\ Awaited(sent, calls')
  BY <1>1, SameHandlers
<1>3. Awaited(sent', calls')
  BY <1>2, GateAwaited DEF StartApp, TypeOK
<1>4. UNCHANGED <<mutations, docs, accounts, user, out>>
  BY DEF StartApp, server, history
<1> QED
  BY <1>1, <1>2, <1>3, <1>4, OutRegistered, ListQuiet

LEMMA ConnectionsKeepList ==
  ASSUME TypeOK, ListInv, Connect \/ ConnectionLost \/ ServerNotices
  PROVE  TypeOK' /\ ListInv'
<1>1. TypeOK'
  BY ConnectType, ServerNoticesType
<1>2. UNCHANGED <<mutations, docs, accounts, user, out, sent, calls, stack>>
  BY DEF Connect, ConnectionLost, ServerNotices, device, history
<1>3. SettingsKept /\ \A c \in Slots : Same(calls, calls', c)
  BY <1>2, SameStack DEF Same
<1> QED
  BY <1>1, <1>2, <1>3, SameHandlers, OutRegistered, ListQuiet

\* What a handler of registration or of the settings page starts with or ends in
\* is an account of the list of accounts.
LEMMA HandlersKeepList ==
  ASSUME TypeOK, ListInv, NEW c \in Slots,
         \/ PressRegister(c) \/ PressLogin(c) \/ PressDarkMode(c)
         \/ RoleRead(c) \/ MailSent(c) \/ SignedOut(c) \/ CallFails(c)
  PROVE  /\ TypeOK' /\ ListInv'
         /\ \E op \in Ops, uid \in Uids \union {0} :
              /\ Goes(calls, calls', c, op, uid)
              /\ op \in LoggingIn => calls[c].op \in LoggingIn /\ uid = calls[c].uid
              /\ op \notin Leaving
<1> DEFINE P(op, uid) ==
      /\ TypeOK' /\ SettingsKept /\ Goes(calls, calls', c, op, uid)
      /\ calls[c].op \notin Awaiting /\ op \notin Leaving
      /\ op \in LoggingIn => calls[c].op \in LoggingIn /\ uid = calls[c].uid
      /\ UNCHANGED <<mutations, docs, accounts, sent>> /\ user' \in {user, 0}
      /\ out' \subseteq DOMAIN accounts
<1>1. \E op \in Ops, uid \in {0, calls[c].uid} : P(op, uid)
  <2>1. ASSUME NEW op \in {"create", "signin", "dark"}, Start(c, op, 0),
               UNCHANGED <<server, device, mutations, sent, history>>
        PROVE  P(op, 0)
    <3>1. TypeOK' /\ Goes(calls, calls', c, op, 0) /\ calls[c].op = "none"
      <4>1. op \in Ops /\ 0 \in Uids \union {0}
        BY DEF Ops
      <4>2. /\ UNCHANGED <<server, device>> /\ leaving' \subseteq Slots /\ out' = out
            /\ mutations' \in Seq(Mutation) /\ sent' \in Seq(Write)
        BY <2>1 DEF TypeOK, history
      <4> QED
        BY <2>1, <4>1, <4>2, PressedType
    <3>2. SettingsKept
      BY <2>1, SameStack DEF device
    <3> QED
      BY <2>1, <3>1, <3>2, OutRegistered DEF server, device, history, Awaiting, LoggingIn, Leaving
  <2>2. CASE PressRegister(c)
    BY <2>1, <2>2 DEF PressRegister, Ops
  <2>3. CASE PressLogin(c)
    BY <2>1, <2>3 DEF PressLogin, Ops
  <2>4. CASE PressDarkMode(c)
    BY <2>1, <2>4 DEF PressDarkMode, Ops
  <2>5. CASE RoleRead(c)
    <3>1. PICK op \in {"remember", "undo"} :
            TypeOK' /\ Goes(calls, calls', c, op, calls[c].uid) /\ calls[c].op = "role"
      BY <2>5, RoleReadType
    <3>2. UNCHANGED <<mutations, docs, accounts, sent, user, out, stack>>
      BY <2>5 DEF RoleRead, server, device, history
    <3>3. P(op, calls[c].uid)
      BY <3>1, <3>2, SameStack, OutRegistered DEF Awaiting, LoggingIn, Leaving
    <3> QED
      BY <3>3 DEF Ops
  <2>6. CASE MailSent(c)
    <3>1. UNCHANGED <<mutations, docs, accounts, sent, user, out>>
      BY <2>6 DEF MailSent, server, history
    <3>2. P("none", 0)
      BY <2>6, <3>1, MailSentType, OutRegistered DEF Awaiting, LoggingIn, Leaving
    <3> QED
      BY <3>2 DEF Ops
  <2>7. CASE SignedOut(c)
    <3>1. /\ UNCHANGED <<mutations, docs, accounts, sent>> /\ user' = 0
          /\ out' \subseteq out \union ({calls[c].uid} \intersect {user})
      BY <2>7 DEF SignedOut, server, HasLeft
    <3>2. /\ TypeOK' /\ SettingsKept /\ Goes(calls, calls', c, "none", 0)
          /\ calls[c].op = "signout"
      BY <2>7, SignedOutType
    <3>3. calls[c].uid \in DOMAIN accounts
      BY <3>2 DEF ListInv, Registered, Leaving
    <3>4. P("none", 0)
      BY <3>1, <3>2, <3>3, OutRegistered DEF Awaiting, LoggingIn, Leaving
    <3> QED
      BY <3>4 DEF Ops
  <2>8. CASE CallFails(c)
    <3>1. UNCHANGED <<mutations, docs, accounts, sent, user, out, stack>>
      BY <2>8 DEF CallFails, server, device, history
    <3>2. P("none", 0)
      BY <2>8, <3>1, SameStack, CallFailsType, OutRegistered DEF Awaiting, LoggingIn, Leaving
    <3> QED
      BY <3>2 DEF Ops
  <2> QED
    BY <2>2, <2>3, <2>4, <2>5, <2>6, <2>7, <2>8
<1>2. PICK op \in Ops, uid \in {0, calls[c].uid} : P(op, uid)
  BY <1>1
<1>3. uid \in DOMAIN accounts \union {0} /\ uid \in Uids \union {0}
  BY CallType DEF ListInv, Registered
<1>4. op \in LoggingIn \union Leaving => uid # 0
  BY <1>2 DEF ListInv, Registered
<1>5. op \notin {"remove", "end"}
  BY <1>2 DEF Leaving
<1>6. HandlersFit /\ Awaited(mutations, calls') /\ Awaited(sent, calls')
  BY <1>2, <1>3, <1>4, <1>5, OneHandler
<1>7. ListInv'
  BY <1>2, <1>6, ListQuiet
<1> QED
  BY <1>2, <1>3, <1>7

LEMMA SignOutUnverifiedKeepsList ==
  ASSUME TypeOK, ListInv, NEW c \in Slots, SignOutUnverified(c)
  PROVE  ListInv' /\ sent' = sent /\ user' = 0
<1>1. TypeOK' /\ Goes(calls, calls', c, "none", 0) /\ calls[c].op = "undo"
  BY SignOutUnverifiedType
<1>2. user' = 0 /\ sent' = sent
  <2>1. sent \in Seq(Write) /\ Authenticate(0)
    BY DEF SignOutUnverified, TypeOK
  <2>2. user' = 0 /\ sent' = sent \o <<>>
    BY <2>1, AuthenticateType
  <2> QED
    BY <2>1, <2>2, ConcatEmptySeq
<1>3. HandlersFit /\ Awaited(mutations, calls') /\ Awaited(sent, calls')
  BY <1>1, OneHandler DEF Awaiting, LoggingIn, Leaving
<1>4. UNCHANGED <<mutations, docs, accounts, out, stack>>
  BY DEF SignOutUnverified, server, history
<1> QED
  BY <1>1, <1>2, <1>3, <1>4, SameStack, OutRegistered, ListQuiet

LEMMA AppRebuiltKeepsList ==
  ASSUME TypeOK, ListInv, NEW c \in Slots, AppRebuilt(c)
  PROVE  ListInv'
<1>1. TypeOK' /\ Goes(calls, calls', c, "none", 0) /\ SettingsKept /\ calls[c].op = "dark"
  BY AppRebuiltType
<1>2. HandlersFit /\ Awaited(mutations, calls') /\ Awaited(sent, calls')
  BY <1>1, OneHandler DEF Awaiting, LoggingIn, Leaving
<1>3. Awaited(sent', calls')
  BY <1>2, GateAwaited DEF AppRebuilt, TypeOK
<1>4. UNCHANGED <<mutations, docs, accounts, user, out>>
  BY DEF AppRebuilt, server
<1> QED
  BY <1>1, <1>2, <1>3, <1>4, OutRegistered, ListQuiet

LEMMA SignedInKeepsList ==
  ASSUME TypeOK, ListInv, NEW c \in Slots, NEW uid \in Uids, SignedIn(c, uid)
  PROVE  ListInv'
<1>1. TypeOK' /\ Goes(calls, calls', c, "role", uid) /\ calls[c].op = "signin"
  BY SignedInType
<1>2. uid \in DOMAIN accounts /\ uid # 0
  BY DEF SignedIn, Exists, Uids
<1>3. HandlersFit /\ Awaited(mutations, calls') /\ Awaited(sent, calls')
  BY <1>1, <1>2, OneHandler DEF Awaiting, LoggingIn, Leaving
<1>4. /\ UNCHANGED <<mutations, docs, accounts, stack>> /\ out' \subseteq out
      /\ Authenticate(uid)
  BY DEF SignedIn, server
<1>5. PICK t \in Seq(Write) : /\ user' = uid /\ sent' = sent \o t
                              /\ \A i \in 1..Len(t) : t[i].by = 0
  BY <1>4, AuthenticateType
<1>6. Awaited(sent \o t, calls')
  BY <1>3, <1>5, AwaitedMore DEF TypeOK
<1> QED
  BY <1>1, <1>2, <1>3, <1>4, <1>5, <1>6, SameStack, OutRegistered, ListKept

\* One write that the handler c waits for is sent behind the others.
LEMMA OneMore ==
  ASSUME NEW S, NEW q \in Seq(S), NEW w \in S, NEW ds, Awaited(q, ds),
         NEW c \in Slots, w.by = c, ds[c].op = w.op, ds[c].uid = w.uid,
         \A i \in 1..Len(q) : q[i].by # c
  PROVE  Awaited(q \o <<w>>, ds)
<1> DEFINE more == <<w>>
<1>1. more \in Seq(S) /\ Len(more) = 1 /\ more[1] = w
  OBVIOUS
<1> HIDE DEF more
<1>2. Awaited(q \o more, ds)
  BY <1>1, AwaitedMore
<1> QED
  BY <1>2 DEF more

LEMMA RememberStoredKeepsList ==
  ASSUME TypeOK, ListInv, NEW c \in Slots, NEW rememberMe \in BOOLEAN, RememberStored(c, rememberMe)
  PROVE  ListInv'
<1> DEFINE w == [op |-> "online", uid |-> calls[c].uid, by |-> c]
<1>1. /\ TypeOK' /\ Goes(calls, calls', c, "online", calls[c].uid)
      /\ calls[c].op = "remember" /\ calls[c].uid \in Uids /\ w \in Write
  BY RememberStoredType
<1>2. calls[c].uid \in DOMAIN accounts /\ calls[c].uid # 0
  BY <1>1 DEF ListInv, Registered, LoggingIn
<1>3. /\ HandlersFit /\ Awaited(mutations, calls') /\ Awaited(sent, calls')
      /\ \A i \in 1..Len(sent) : sent[i].by # c
  BY <1>1, <1>2, OneHandler DEF Awaiting, LoggingIn, Leaving
<1>4. w.by = c /\ w.op = "online" /\ w.uid = calls[c].uid
  OBVIOUS
<1>5. sent' = sent \o <<w>> /\ UNCHANGED <<mutations, docs, accounts, user, out, stack>>
  BY DEF RememberStored, Send, server, history
<1> HIDE DEF w
<1>6. Awaited(sent', calls')
  <2>1. sent \in Seq(Write) /\ calls'[c].op = w.op /\ calls'[c].uid = w.uid
    BY <1>1, <1>3, <1>4, <1>5 DEF TypeOK, Goes
  <2>2. Awaited(sent \o <<w>>, calls')
    BY <1>1, <1>3, <1>4, <1>5, <2>1, OneMore
  <2> QED
    BY <1>4, <1>5, <2>2
<1> QED
  BY <1>1, <1>3, <1>5, <1>6, SameStack, OutRegistered, ListQuiet

\* The user of a settings page has an account.
LEMMA SettingsUser ==
  ASSUME TypeOK, ListInv, On("settings"), Last(stack).user # 0
  PROVE  Last(stack).user \in DOMAIN accounts
<1>1. /\ Last(stack) = stack[Len(stack)] /\ Last(stack).page = "settings"
      /\ Len(stack) \in Nat \ {0}
  BY TopRoute
<1>2. Len(stack) \in 1..Len(stack)
  BY <1>1
<1> QED
  BY <1>1, <1>2 DEF ListInv, Registered

LEMMA PressSignOutKeepsList ==
  ASSUME TypeOK, ListInv, NEW c \in Slots, PressSignOut(c)
  PROVE  ListInv'
<1> DEFINE u == Last(stack).user
           w == [op |-> "offline", uid |-> u, by |-> c]
<1>1. /\ TypeOK' /\ u \in Uids /\ Goes(calls, calls', c, "offline", u) /\ calls[c].op = "none"
  BY PressSignOutType
<1>2. u \in DOMAIN accounts /\ u # 0
  BY SettingsUser DEF PressSignOut
<1>3. w \in Write /\ w.by = c /\ w.op = "offline" /\ w.uid = u
  BY <1>1 DEF Write
<1>4. sent' = sent \o <<w>> /\ UNCHANGED <<mutations, docs, accounts, user, out, stack>>
  BY DEF PressSignOut, Send, server, device
<1> HIDE DEF u, w
<1>5. /\ HandlersFit /\ Awaited(mutations, calls') /\ Awaited(sent, calls')
      /\ \A i \in 1..Len(sent) : sent[i].by # c
  BY <1>1, <1>2, OneHandler DEF Awaiting, LoggingIn, Leaving
<1>6. Awaited(sent', calls')
  <2>1. sent \in Seq(Write) /\ calls'[c].op = w.op /\ calls'[c].uid = w.uid
    BY <1>1, <1>3, <1>4, <1>5 DEF TypeOK, Goes
  <2>2. Awaited(sent \o <<w>>, calls')
    BY <1>1, <1>3, <1>4, <1>5, <2>1, OneMore
  <2> QED
    BY <1>4, <1>5, <2>2
<1> QED
  BY <1>1, <1>4, <1>5, <1>6, SameStack, OutRegistered, ListQuiet

LEMMA CreatedKeepsList ==
  ASSUME TypeOK, ListInv, NEW c \in Slots, NEW e \in Emails, Created(c, e)
  PROVE  ListInv'
<1> DEFINE new == Len(accounts) + 1
           m == [op |-> "set", uid |-> new, by |-> c]
<1>1. /\ TypeOK' /\ new \in Uids /\ Len(accounts') = new
      /\ \A i \in 1..Len(accounts) : accounts'[i] = accounts[i]
      /\ accounts'[new].state = "unverified" /\ m \in Mutation
      /\ Goes(calls, calls', c, "set", new) /\ calls[c].op = "create" /\ stack' = stack
  BY CreatedType
<1>2. /\ m.op = "set" /\ m.uid = new /\ m.by = c
      /\ Mutate(m) /\ Authenticate(new) /\ UNCHANGED <<docs, out>>
  BY DEF Created, history
<1> HIDE DEF m
<1>3. /\ mutations' = mutations \o <<m>>
      /\ Len(mutations') = Len(mutations) + 1 /\ mutations'[Len(mutations')] = m
      /\ \A i \in 1..Len(mutations') : \/ i = Len(mutations') /\ mutations'[i] = m
                                       \/ i \in 1..Len(mutations) /\ mutations'[i] = mutations[i]
  BY <1>1, <1>2, MutateType
<1>4. PICK t \in Seq(Write) : /\ user' = new /\ sent' = sent \o t
                              /\ \A i \in 1..Len(t) : t[i].by = 0
  BY <1>1, <1>2, AuthenticateType
<1>5. /\ DOMAIN accounts = 1..Len(accounts) /\ DOMAIN accounts' = 1..Len(accounts')
      /\ Len(accounts) \in Nat /\ Len(mutations) \in Nat
  <2>1. accounts' \in Seq(Account)
    BY <1>1 DEF TypeOK
  <2> QED
    BY <2>1, Domains, LenProperties
<1>6. /\ new \notin DOMAIN accounts /\ new \in DOMAIN accounts' /\ new # 0
      /\ \A uid \in DOMAIN accounts : uid # new /\ uid \in DOMAIN accounts'
  BY <1>1, <1>5
<1>7. /\ accounts'[new].state # "deleted"
      /\ \A uid \in DOMAIN accounts : accounts'[uid] = accounts[uid]
  BY <1>1, <1>5
<1> HIDE DEF new
<1>8. Registered'
  <2>1. /\ user' \in DOMAIN accounts' \union {0} /\ out' \subseteq DOMAIN accounts'
    BY <1>2, <1>4, <1>6 DEF ListInv, Registered
  <2>2. \A i \in 1..Len(stack') :
          stack'[i].page = "settings" => stack'[i].user \in DOMAIN accounts' \union {0}
    BY <1>1, <1>6 DEF ListInv, Registered
  <2>3. \A d \in Slots :
          /\ calls'[d].uid \in DOMAIN accounts' \union {0}
          /\ calls'[d].op \in LoggingIn \union Leaving => calls'[d].uid # 0
    BY <1>1, <1>6 DEF ListInv, Registered, Goes, Same
  <2>4. \A i \in 1..Len(mutations') : mutations'[i].uid \in DOMAIN accounts'
    BY <1>2, <1>3, <1>6 DEF ListInv, Registered
  <2> QED
    BY <2>1, <2>2, <2>3, <2>4 DEF Registered
<1>9. \A d \in Slots : \/ Same(calls, calls', d)
                       \/ /\ \A i \in 1..Len(mutations) : mutations[i].op # calls[d].op
                          /\ \A i \in 1..Len(sent) : sent[i].op # calls[d].op
  BY <1>1, QueueTypes DEF Goes
<1>10. /\ Awaited(mutations, calls') /\ Awaited(sent, calls')
       /\ \A i \in 1..Len(mutations) : mutations[i].by # c
  <2>1. Awaited(mutations, calls') /\ Awaited(sent, calls')
    BY <1>9, AwaitedOthers DEF ListInv, Same
  <2>2. \A i \in 1..Len(mutations) : mutations[i].by # c
    BY <1>1, QueueTypes DEF ListInv, Awaited
  <2> QED
    BY <2>1, <2>2
<1>11. Awaited(mutations', calls')
  <2>1. mutations \in Seq(Mutation) /\ calls'[c].op = m.op /\ calls'[c].uid = m.uid
    BY <1>1, <1>2 DEF TypeOK, Goes
  <2>2. Awaited(mutations \o <<m>>, calls')
    BY <1>1, <1>2, <1>10, <2>1, OneMore
  <2> QED
    BY <1>3, <2>2
<1>12. Awaited(sent', calls')
  <2>1. Awaited(sent \o t, calls')
    BY <1>4, <1>10, AwaitedMore DEF TypeOK
  <2> QED
    BY <1>4, <2>1
<1>13. docs \subseteq DOMAIN accounts
  BY DEF ListInv, DocsHaveAccounts, Exists
<1>14. DocsHaveAccounts'
  BY <1>2, <1>6, <1>7, <1>13 DEF ListInv, DocsHaveAccounts, Exists
<1>15. SetsLead'
  <2> SUFFICES ASSUME NEW j \in 1..Len(mutations'), mutations'[j].op = "set"
               PROVE  /\ mutations'[j].uid \in DOMAIN accounts'
                      /\ accounts'[mutations'[j].uid].state # "deleted"
                      /\ mutations'[j].uid \notin docs
                      /\ \A i \in 1..Len(mutations') : i < j => mutations'[i].uid # mutations'[j].uid
    BY <1>2 DEF SetsLead, Exists
  <2>1. CASE j = Len(mutations')
    <3>1. mutations'[j].uid = new
      BY <1>2, <1>3, <2>1
    <3>2. \A i \in 1..Len(mutations') : i < j => mutations'[i].uid \in DOMAIN accounts
      BY <1>3, <1>5, <2>1 DEF ListInv, Registered
    <3> QED
      BY <1>6, <1>7, <1>13, <3>1, <3>2
  <2>2. CASE j # Len(mutations')
    <3>1. j \in 1..Len(mutations) /\ mutations'[j] = mutations[j] /\ mutations[j].uid \in DOMAIN accounts
      BY <1>3, <2>2 DEF ListInv, Registered
    <3>2. \A i \in 1..Len(mutations') : i < j =>
            i \in 1..Len(mutations) /\ mutations'[i] = mutations[i]
      BY <1>3, <1>5, <3>1
    <3> QED
      BY <1>6, <1>7, <3>1, <3>2 DEF ListInv, SetsLead, Exists
  <2> QED
    BY <2>1, <2>2
<1>16. EndersUnlisted'
  <2> SUFFICES ASSUME NEW d \in Slots, calls'[d].op \in {"remove", "end"}
               PROVE  /\ calls'[d].uid \notin docs
                      /\ \A i \in 1..Len(mutations') :
                           mutations'[i].op = "set" => mutations'[i].uid # calls'[d].uid
    BY <1>2 DEF EndersUnlisted
  <2>1. calls[d].op \in {"remove", "end"} /\ calls'[d].uid = calls[d].uid
    BY <1>1 DEF Goes, Same
  <2>2. calls[d].uid \in DOMAIN accounts
    BY <2>1 DEF ListInv, Registered, Leaving
  <2> QED
    BY <1>2, <1>3, <1>6, <2>1, <2>2 DEF ListInv, EndersUnlisted
<1> QED
  BY <1>8, <1>11, <1>12, <1>14, <1>15, <1>16 DEF ListInv

LEMMA PressDeleteKeepsList ==
  ASSUME TypeOK, ListInv, NEW c \in Slots, PressDelete(c)
  PROVE  ListInv'
<1> DEFINE u == Last(stack).user
           m == [op |-> "delete", uid |-> u, by |-> c]
<1>1. /\ TypeOK' /\ u \in Uids /\ m \in Mutation
      /\ Goes(calls, calls', c, "delete", u) /\ calls[c].op = "none"
  BY PressDeleteType
<1>2. u \in DOMAIN accounts /\ u # 0
  BY SettingsUser DEF PressDelete
<1>3. /\ m.op = "delete" /\ m.uid = u /\ m.by = c
      /\ Mutate(m) /\ UNCHANGED <<accounts, docs, out, user, sent, stack>>
  BY DEF PressDelete, server, device
<1> HIDE DEF u, m
<1>4. /\ mutations' = mutations \o <<m>>
      /\ Len(mutations') = Len(mutations) + 1 /\ mutations'[Len(mutations')] = m
      /\ \A i \in 1..Len(mutations') : \/ i = Len(mutations') /\ mutations'[i] = m
                                       \/ i \in 1..Len(mutations) /\ mutations'[i] = mutations[i]
  BY <1>1, <1>3, MutateType
<1>5. /\ HandlersFit /\ Awaited(mutations, calls') /\ Awaited(sent, calls')
      /\ \A i \in 1..Len(mutations) : mutations[i].by # c
  BY <1>1, <1>2, OneHandler DEF Awaiting, LoggingIn, Leaving
<1>6. Awaited(mutations', calls')
  <2>1. mutations \in Seq(Mutation) /\ calls'[c].op = m.op /\ calls'[c].uid = m.uid
    BY <1>1, <1>3 DEF TypeOK, Goes
  <2>2. Awaited(mutations \o <<m>>, calls')
    BY <1>1, <1>3, <1>5, <2>1, OneMore
  <2> QED
    BY <1>4, <2>2
<1>7. Registered'
  BY <1>2, <1>3, <1>4, <1>5 DEF ListInv, Registered, HandlersFit
<1>8. /\ \A uid : Exists(uid) <=> Exists(uid)'
      /\ Len(mutations) \in Nat
  BY <1>3, Domains DEF Exists
<1>9. DocsHaveAccounts'
  BY <1>3, <1>8 DEF ListInv, DocsHaveAccounts
<1>10. SetsLead'
  <2> SUFFICES ASSUME NEW j \in 1..Len(mutations'), mutations'[j].op = "set"
               PROVE  /\ mutations'[j].uid \in DOMAIN accounts'
                      /\ accounts'[mutations'[j].uid].state # "deleted"
                      /\ mutations'[j].uid \notin docs
                      /\ \A i \in 1..Len(mutations') : i < j => mutations'[i].uid # mutations'[j].uid
    BY <1>3 DEF SetsLead, Exists
  <2>1. j \in 1..Len(mutations) /\ mutations'[j] = mutations[j]
    BY <1>3, <1>4
  <2>2. \A i \in 1..Len(mutations') : i < j =>
          i \in 1..Len(mutations) /\ mutations'[i] = mutations[i]
    BY <1>4, <1>8, <2>1
  <2> QED
    BY <1>3, <2>1, <2>2 DEF ListInv, SetsLead, Exists
<1>11. EndersUnlisted'
  BY <1>3, <1>4, <1>5 DEF ListInv, EndersUnlisted, HandlersFit
<1> QED
  BY <1>3, <1>5, <1>6, <1>7, <1>9, <1>10, <1>11 DEF ListInv

LEMMA AccountDeletedKeepsList ==
  ASSUME TypeOK, ListInv, NEW c \in Slots, AccountDeleted(c)
  PROVE  ListInv'
<1> DEFINE uid == calls[c].uid
<1>1. /\ TypeOK' /\ Goes(calls, calls', c, "none", 0) /\ SettingsKept
      /\ calls[c].op = "end" /\ uid \in 1..Len(accounts)
      /\ Len(accounts') = Len(accounts) /\ accounts'[uid].state = "deleted"
      /\ \A i \in 1..Len(accounts) : i # uid => accounts'[i] = accounts[i]
  BY AccountDeletedType
<1>2. /\ UNCHANGED <<docs, mutations, sent>> /\ user' \in {user, 0}
      /\ out' \subseteq out \union {uid}
  BY DEF AccountDeleted, HasLeft
<1>3. HandlersFit /\ Awaited(mutations, calls') /\ Awaited(sent, calls')
  BY <1>1, OneHandler DEF Awaiting, LoggingIn, Leaving
<1>4. /\ uid \notin docs
      /\ \A i \in 1..Len(mutations) : mutations[i].op = "set" => mutations[i].uid # uid
  BY <1>1 DEF ListInv, EndersUnlisted
<1> HIDE DEF uid
<1>5. /\ DOMAIN accounts = 1..Len(accounts) /\ DOMAIN accounts' = DOMAIN accounts
      /\ \A x : x # uid => (Exists(x) <=> Exists(x)')
  BY <1>1, Domains DEF Exists
<1>6. Registered'
  BY <1>1, <1>2, <1>3, <1>5 DEF ListInv, Registered, HandlersFit, SettingsKept
<1>7. DocsHaveAccounts' /\ SetsLead'
  BY <1>2, <1>4, <1>5 DEF ListInv, DocsHaveAccounts, SetsLead
<1>8. EndersUnlisted'
  BY <1>2, <1>3 DEF ListInv, EndersUnlisted, HandlersFit
<1> QED
  BY <1>2, <1>3, <1>6, <1>7, <1>8 DEF ListInv

LEMMA AccountsKeepList ==
  ASSUME TypeOK, ListInv, NEW uid \in Uids, Verify(uid) \/ AdminDeletes(uid)
  PROVE  TypeOK' /\ ListInv'
<1>1. /\ TypeOK' /\ Len(accounts') = Len(accounts)
      /\ \A i \in 1..Len(accounts) :
           accounts'[i].state = "deleted" <=> accounts[i].state = "deleted"
      /\ docs' \subseteq docs
      /\ UNCHANGED <<mutations, sent, calls, stack, user, out>>
  <2>1. CASE Verify(uid)
    BY <2>1, VerifyType DEF Verify, device, history
  <2>2. CASE AdminDeletes(uid)
    BY <2>2, AdminDeletesType DEF AdminDeletes, device, history
  <2> QED
    BY <2>1, <2>2
<1>2. SettingsKept /\ \A c \in Slots : Same(calls, calls', c)
  BY <1>1, SameStack DEF Same
<1>3. HandlersFit /\ Awaited(mutations, calls') /\ Awaited(sent, calls')
  BY <1>2, SameHandlers
<1> QED
  BY <1>1, <1>2, <1>3, OutRegistered, ListKept

\* The handler that waits for the oldest write to users, m, is the one that came
\* to it; in the rest t, documents that are still to be written stay the first
\* and only ones.
OldestFits(m, t) ==
  /\ m \in Mutation /\ m.uid \in DOMAIN accounts /\ m.by \in Slots \union {0}
  /\ m.by # 0 => calls[m.by].op = m.op /\ calls[m.by].uid = m.uid
  /\ m.op = "set" => Exists(m.uid) /\ m.uid \notin docs
  /\ \A i \in 1..Len(t) : t[i].uid \in DOMAIN accounts
  /\ \A j \in 1..Len(t) : t[j].op = "set" =>
       /\ Exists(t[j].uid) /\ t[j].uid \notin docs /\ t[j].uid # m.uid
       /\ \A i \in 1..Len(t) : i < j => t[i].uid # t[j].uid
  /\ \A c \in Slots : calls[c].op \in {"remove", "end"} =>
       /\ calls[c].uid \notin docs
       /\ m.op = "set" => m.uid # calls[c].uid
       /\ \A i \in 1..Len(t) : t[i].op = "set" => t[i].uid # calls[c].uid

LEMMA OldestMutation ==
  ASSUME TypeOK, ListInv, mutations # <<>>
  PROVE  OldestFits(Head(mutations), Tail(mutations))
<1> DEFINE m == Head(mutations)
           t == Tail(mutations)
<1>1. mutations \in Seq(Mutation)
  BY DEF TypeOK
<1>2. /\ m \in Mutation /\ m = mutations[1] /\ 1 \in 1..Len(mutations)
      /\ t \in Seq(Mutation) /\ Len(t) = Len(mutations) - 1
      /\ \A i \in 1..Len(t) : i + 1 \in 1..Len(mutations) /\ t[i] = mutations[i + 1]
  BY <1>1, OldestOf
<1> HIDE DEF m, t
<1>3. m.by \in Slots \union {0} /\ m.uid \in DOMAIN accounts
  BY <1>2 DEF Mutation, ListInv, Registered
<1>4. m.by # 0 => calls[m.by].op = m.op /\ calls[m.by].uid = m.uid
  BY <1>2, <1>3 DEF ListInv, Awaited
<1>5. m.op = "set" => Exists(m.uid) /\ m.uid \notin docs
  BY <1>2 DEF ListInv, SetsLead
<1>6. \A i \in 1..Len(t) : t[i].uid \in DOMAIN accounts
  BY <1>2 DEF ListInv, Registered
<1>7. ASSUME NEW j \in 1..Len(t), t[j].op = "set"
      PROVE  /\ Exists(t[j].uid) /\ t[j].uid \notin docs /\ t[j].uid # m.uid
             /\ \A i \in 1..Len(t) : i < j => t[i].uid # t[j].uid
  <2>1. /\ j + 1 \in 1..Len(mutations) /\ t[j] = mutations[j + 1] /\ 1 < j + 1
        /\ \A i \in 1..Len(t) : i < j => i + 1 < j + 1
    BY <1>2
  <2> QED
    BY <1>2, <1>7, <2>1 DEF ListInv, SetsLead
<1>8. ASSUME NEW c \in Slots, calls[c].op \in {"remove", "end"}
      PROVE  /\ calls[c].uid \notin docs
             /\ m.op = "set" => m.uid # calls[c].uid
             /\ \A i \in 1..Len(t) : t[i].op = "set" => t[i].uid # calls[c].uid
  BY <1>2, <1>8 DEF ListInv, EndersUnlisted
<1> QED
  BY <1>2, <1>3, <1>4, <1>5, <1>6, <1>7, <1>8 DEF OldestFits, m, t

LEMMA MutationStoredKeepsList ==
  ASSUME TypeOK, ListInv, MutationStored
  PROVE  ListInv'
<1> DEFINE m == Head(mutations)
           t == Tail(mutations)
<1>1. /\ TypeOK' /\ mutations # <<>> /\ mutations' = t /\ m \in Mutation /\ MutationAnswered(m)
      /\ \/ m.op = "set" /\ docs' = docs \union {m.uid}
         \/ m.op = "delete" /\ docs' = docs \ {m.uid}
  BY MutationStoredType
<1>2. UNCHANGED <<accounts, stack, user, out>>
  BY DEF MutationStored, device, history
<1>3. OldestFits(m, t)
  BY <1>1, OldestMutation
<1>4. mutations \in Seq(Mutation) /\ sent \in Seq(Write)
  BY DEF TypeOK
<1>5. /\ \A d \in Slots : d # m.by => Same(calls, calls', d)
      /\ \A d \in Slots : calls'[d].uid = calls[d].uid
      /\ m.by # 0 => \/ m.op = "set" /\ calls'[m.by].op = "mail"
                     \/ m.op = "delete" /\ calls'[m.by].op = "remove"
  BY <1>1, <1>3 DEF MutationAnswered, Goes, Same, OldestFits
<1>6. Awaited(mutations', calls')
  <2>1. Awaited(mutations, calls)
    BY DEF ListInv
  <2>2. Awaited(Tail(mutations), calls')
    BY <1>1, <1>4, <1>5, <2>1, AwaitedTail DEF Same
  <2> QED
    BY <1>1, <2>2
<1>7. Awaited(sent, calls')
  <2>1. \A d \in Slots : \/ calls'[d].op = calls[d].op /\ calls'[d].uid = calls[d].uid
                         \/ \A i \in 1..Len(sent) : sent[i].op # calls[d].op
    <3>1. \A i \in 1..Len(sent) : sent[i].op \notin {"set", "delete"}
      BY QueueTypes
    <3>2. m.op \in {"set", "delete"}
      BY <1>1
    <3> QED
      BY <1>3, <1>5, <3>1, <3>2, SlotsAssumption DEF Same, OldestFits
  <2> QED
    BY <2>1, AwaitedOthers DEF ListInv
<1>8. Awaited(sent', calls')
  <2>1. CASE sent' = sent
    BY <1>7, <2>1
  <2>2. CASE sent' # sent
    <3> DEFINE w == [op |-> "remove", uid |-> m.uid, by |-> m.by]
    <3>1. /\ m.by \in Slots /\ m.op = "delete" /\ w \in Write /\ sent' = sent \o <<w>>
          /\ calls'[m.by].op = "remove"
      BY <1>1, <2>2 DEF MutationAnswered, Goes
    <3>2. m.by # 0
      BY <3>1, SlotsAssumption
    <3>3. w.op = "remove" /\ w.uid = m.uid /\ w.by = m.by
      OBVIOUS
    <3>4. \A i \in 1..Len(sent) : sent[i].by # m.by
      <4>1. \A i \in 1..Len(sent) : sent[i].op # "delete"
        BY QueueTypes
      <4> QED
        BY <1>3, <3>1, <3>2, <4>1 DEF ListInv, Awaited, OldestFits
    <3> HIDE DEF w, m
    <3>5. calls'[m.by].op = w.op /\ calls'[m.by].uid = w.uid
      BY <1>3, <1>5, <3>1, <3>2, <3>3 DEF OldestFits
    <3>6. Awaited(sent \o <<w>>, calls')
      BY <1>4, <1>7, <3>1, <3>3, <3>4, <3>5, OneMore
    <3> QED
      BY <3>1, <3>6
  <2> QED
    BY <2>1, <2>2
<1> HIDE DEF m, t
<1>9. \A d \in Slots : calls'[d].op \in LoggingIn \union Leaving =>
        calls[d].op \in LoggingIn \union Leaving
  BY <1>3, <1>5, SlotsAssumption DEF Same, LoggingIn, Leaving, OldestFits
<1>10. Registered'
  <2>1. \A d \in Slots : /\ calls'[d].uid \in DOMAIN accounts \union {0}
                         /\ calls'[d].op \in LoggingIn \union Leaving => calls'[d].uid # 0
    BY <1>5, <1>9 DEF ListInv, Registered
  <2> QED
    BY <1>1, <1>2, <1>3, <2>1 DEF ListInv, Registered, OldestFits
<1>11. SetsLead'
  BY <1>1, <1>2, <1>3 DEF SetsLead, Exists, OldestFits
<1>12. EndersUnlisted'
  <2> SUFFICES ASSUME NEW d \in Slots, calls'[d].op \in {"remove", "end"}
               PROVE  /\ calls[d].uid \notin docs'
                      /\ \A i \in 1..Len(t) : t[i].op = "set" => t[i].uid # calls[d].uid
    BY <1>1, <1>5 DEF EndersUnlisted
  <2>1. CASE d # m.by
    <3>1. calls[d].op \in {"remove", "end"}
      BY <1>5, <2>1 DEF Same
    <3> QED
      BY <1>1, <1>3, <3>1 DEF OldestFits
  <2>2. CASE d = m.by
    <3>1. m.by # 0
      BY <2>2, SlotsAssumption
    <3> QED
      BY <1>1, <1>3, <1>5, <2>2, <3>1 DEF OldestFits
  <2> QED
    BY <2>1, <2>2
<1>13. DocsHaveAccounts'
  BY <1>1, <1>2, <1>3 DEF ListInv, DocsHaveAccounts, Exists, OldestFits
<1> QED
  BY <1>6, <1>8, <1>10, <1>11, <1>12, <1>13 DEF ListInv

LEMMA MutationRefusedKeepsList ==
  ASSUME TypeOK, ListInv, MutationRefused
  PROVE  ListInv'
<1> DEFINE m == Head(mutations)
           t == Tail(mutations)
<1>1. TypeOK' /\ mutations # <<>> /\ mutations' = t /\ m \in Mutation /\ Refused(m)
  BY MutationRefusedType
<1>2. UNCHANGED <<accounts, docs, stack, user, out, sent>>
  BY DEF MutationRefused, server, device, history
<1>3. OldestFits(m, t)
  BY <1>1, OldestMutation
<1>4. /\ \A d \in Slots : d # m.by => Same(calls, calls', d)
      /\ \A d \in Slots : \/ Same(calls, calls', d)
                          \/ calls'[d].op = "none" /\ calls'[d].uid = 0
  BY <1>1 DEF Refused, Goes, Same
<1>5. Awaited(mutations', calls')
  <2>1. mutations \in Seq(Mutation) /\ Awaited(mutations, calls)
    BY DEF TypeOK, ListInv
  <2>2. Awaited(Tail(mutations), calls')
    BY <1>1, <1>4, <2>1, AwaitedTail DEF Same
  <2> QED
    BY <1>1, <2>2
<1>6. Awaited(sent', calls')
  <2>1. \A d \in Slots : \/ calls'[d].op = calls[d].op /\ calls'[d].uid = calls[d].uid
                         \/ \A i \in 1..Len(sent) : sent[i].op # calls[d].op
    <3>1. \A i \in 1..Len(sent) : sent[i].op \notin {"set", "delete"}
      BY QueueTypes
    <3>2. m.op \in {"set", "delete"}
      BY <1>1 DEF Mutation
    <3> QED
      BY <1>3, <1>4, <3>1, <3>2, SlotsAssumption DEF Same, OldestFits
  <2> QED
    BY <1>2, <2>1, AwaitedOthers DEF ListInv
<1> HIDE DEF m, t
<1>7. HandlersFit
  BY <1>4 DEF HandlersFit, Same, ListInv, Registered, LoggingIn, Leaving
<1>8. Registered'
  BY <1>1, <1>2, <1>3, <1>7 DEF ListInv, Registered, HandlersFit, OldestFits
<1>9. SetsLead' /\ DocsHaveAccounts'
  BY <1>1, <1>2, <1>3 DEF ListInv, SetsLead, DocsHaveAccounts, Exists, OldestFits
<1>10. EndersUnlisted'
  BY <1>1, <1>2, <1>3, <1>7 DEF EndersUnlisted, HandlersFit, OldestFits
<1> QED
  BY <1>5, <1>6, <1>8, <1>9, <1>10 DEF ListInv

\* The handler that waits for the oldest write to presence, if any.
LEMMA OldestWrite ==
  ASSUME TypeOK, ListInv, sent # <<>>, NEW w, w = Head(sent)
  PROVE  /\ w \in Write /\ w.uid \in Uids /\ w.by \in Slots \union {0}
         /\ w = sent[1] /\ 1 \in 1..Len(sent)
         /\ w.by # 0 => calls[w.by].op = w.op /\ calls[w.by].uid = w.uid
<1>1. w \in Write /\ w = sent[1] /\ 1 \in 1..Len(sent)
  BY OldestOf DEF TypeOK
<1>2. w.by \in Slots \union {0} /\ w.uid \in Uids
  BY <1>1 DEF Write
<1>3. w.by # 0 => calls[w.by].op = w.op /\ calls[w.by].uid = w.uid
  BY <1>1, <1>2 DEF ListInv, Awaited
<1> QED
  BY <1>1, <1>2, <1>3

LEMMA WritesKeepList ==
  ASSUME TypeOK, ListInv, WriteStored \/ WriteRefused
  PROVE  TypeOK' /\ ListInv'
<1> DEFINE w == Head(sent)
<1>1. /\ TypeOK' /\ sent # <<>> /\ sent' = Tail(sent) /\ SettingsKept
      /\ WriteAnswered(w) \/ Refused(w)
  <2>1. CASE WriteStored
    BY <2>1, WriteStoredType
  <2>2. CASE WriteRefused
    BY <2>2, WriteRefusedType, SameStack DEF WriteRefused, device
  <2> QED
    BY <2>1, <2>2
<1>2. /\ w.by \in Slots \union {0} /\ w \in Write
      /\ w.by # 0 => calls[w.by].op = w.op /\ calls[w.by].uid = w.uid
  BY <1>1, OldestWrite
<1>3. UNCHANGED <<mutations, docs, accounts, user, out>>
  BY DEF WriteStored, WriteRefused, server, device, history
<1> HIDE DEF w
<1>4. /\ \A d \in Slots : d # w.by => Same(calls, calls', d)
      /\ w.by # 0 => \/ /\ calls'[w.by].op = "none" /\ calls'[w.by].uid = 0
                     \/ /\ calls'[w.by].op = "signout" /\ calls'[w.by].uid = calls[w.by].uid
                        /\ calls[w.by].op = "offline"
                     \/ /\ calls'[w.by].op = "end" /\ calls'[w.by].uid = calls[w.by].uid
                        /\ calls[w.by].op = "remove"
  BY <1>1, <1>2, SlotsAssumption DEF WriteAnswered, Refused, Goes, Same
<1>5. HandlersFit
  <2> SUFFICES ASSUME NEW d \in Slots
               PROVE  /\ calls'[d].uid \in DOMAIN accounts \union {0}
                      /\ calls'[d].op \in LoggingIn \union Leaving => calls'[d].uid # 0
                      /\ calls'[d].op \in {"remove", "end"} =>
                           calls[d].op \in {"remove", "end"} /\ calls'[d].uid = calls[d].uid
    BY DEF HandlersFit
  <2>1. CASE d # w.by
    BY <1>4, <2>1 DEF Same, ListInv, Registered
  <2>2. CASE d = w.by
    <3>1. w.by # 0
      BY <2>2, SlotsAssumption
    <3> QED
      BY <1>4, <2>2, <3>1 DEF ListInv, Registered, LoggingIn, Leaving
  <2> QED
    BY <2>1, <2>2
<1>6. Awaited(sent', calls')
  <2>1. sent \in Seq(Write) /\ Awaited(sent, calls)
    BY DEF TypeOK, ListInv
  <2>2. Awaited(Tail(sent), calls')
    BY <1>1, <1>4, <2>1, AwaitedTail DEF Same, w
  <2> QED
    BY <1>1, <2>2
<1>7. Awaited(mutations, calls')
  <2>1. \A d \in Slots : \/ calls'[d].op = calls[d].op /\ calls'[d].uid = calls[d].uid
                         \/ \A i \in 1..Len(mutations) : mutations[i].op # calls[d].op
    <3>1. \A i \in 1..Len(mutations) : mutations[i].op \in {"set", "delete"}
      BY QueueTypes
    <3>2. w.op \notin {"set", "delete"}
      BY <1>2 DEF Write
    <3> QED
      BY <1>2, <1>4, <3>1, <3>2, SlotsAssumption DEF Same
  <2> QED
    BY <2>1, AwaitedOthers DEF ListInv
<1> QED
  BY <1>1, <1>3, <1>5, <1>6, <1>7, OutRegistered, ListQuiet

LEMMA KillKeepsList ==
  ASSUME TypeOK, ListInv, Kill
  PROVE  ListInv'
<1>1. /\ TypeOK' /\ SettingsKept /\ Len(mutations') = Len(mutations)
      /\ \A i \in 1..Len(mutations) : /\ mutations'[i].op = mutations[i].op
                                      /\ mutations'[i].uid = mutations[i].uid
                                      /\ mutations'[i].by = 0
      /\ \A c \in Slots : calls'[c].op = "none" /\ calls'[c].uid = 0
  BY KillType
<1>2. UNCHANGED <<accounts, docs, user, out>> /\ stack' = <<>> /\ sent' = <<>>
  BY DEF Kill
<1>3. Len(sent') = 0 /\ Len(stack') = 0
  BY <1>2
<1>4. Registered'
  BY <1>1, <1>2, <1>3 DEF ListInv, Registered, LoggingIn, Leaving
<1>5. Awaited(mutations', calls') /\ Awaited(sent', calls')
  BY <1>1, <1>3, SlotsAssumption DEF Awaited
<1>6. SetsLead' /\ DocsHaveAccounts'
  BY <1>1, <1>2 DEF ListInv, SetsLead, DocsHaveAccounts, Exists
<1>7. EndersUnlisted'
  BY <1>1 DEF EndersUnlisted
<1> QED
  BY <1>4, <1>5, <1>6, <1>7 DEF ListInv

-----------------------------------------------------------------------------
(***************************************************************************)
(* Who has left: LeaversOffline and OutStaysOffline are kept by every step *)
(***************************************************************************)

Protected == LeaversOffline /\ OutStaysOffline

\* This account may be signed in or set online: it is not of those who have left
\* or are leaving.
Free(uid) ==
  /\ uid \notin out'
  /\ \A c \in leaving \intersect leaving' : calls[c].op \in Leaving => calls[c].uid # uid

\* The handlers that are leaving after the step were so before, or begin now.
LeaversStay ==
  /\ running' \/ leaving' = {}
  /\ \A c \in leaving' : calls'[c].op \in Leaving =>
       \/ c \in leaving /\ Same(calls, calls', c)
       \/ /\ c \in leaving /\ calls[c].op \in Leaving /\ calls'[c].uid = calls[c].uid
          /\ calls'[c].op \notin {"signout", "end"}
       \/ LeaverOffline(c)'

\* Handlers sign in for accounts that they were signing in for, or for free ones.
LoginsStay ==
  \A d \in Slots : calls'[d].op \in LoggingIn =>
    \/ Free(calls'[d].uid)
    \/ calls[d].op \in LoggingIn /\ calls'[d].uid = calls[d].uid

\* After the step, who is out is not signed in; before it nothing was under way
\* that would set the account online.
OutsFit ==
  \A uid \in out' :
    user' # uid /\ NoLogin(calls, uid) /\ NoOnline(sent, uid, 0) /\ presence[uid] # "online"

\* Writes are added to a queue, none of which sets this account online.
LEMMA QueueGrows ==
  ASSUME NEW s \in Seq(Write), NEW t \in Seq(Write), NEW r, r = s \o t, NEW uid,
         \A i \in 1..Len(t) : t[i].op = "online" => t[i].uid # uid
  PROVE  /\ \A i : NoOnline(s, uid, i) => NoOnline(r, uid, i)
         /\ \A i \in 1..Len(r) : \/ i \in 1..Len(s) /\ r[i] = s[i]
                                 \/ NoOnline(r, uid, i)
<1>1. /\ Len(s) \in Nat /\ Len(t) \in Nat /\ Len(r) = Len(s) + Len(t)
      /\ \A i \in 1..(Len(s) + Len(t)) :
           r[i] = IF i <= Len(s) THEN s[i] ELSE t[i - Len(s)]
  BY ConcatProperties, LenProperties
<1>2. \A i \in 1..Len(r) : \/ i \in 1..Len(s) /\ r[i] = s[i]
                           \/ i > Len(s) /\ i - Len(s) \in 1..Len(t) /\ r[i] = t[i - Len(s)]
  BY <1>1
<1>3. ASSUME NEW i, NoOnline(s, uid, i)
      PROVE  NoOnline(r, uid, i)
  BY <1>2, <1>3 DEF NoOnline
<1>4. ASSUME NEW i \in 1..Len(r), i > Len(s)
      PROVE  NoOnline(r, uid, i)
  <2> SUFFICES ASSUME NEW j \in 1..Len(r), j > i, r[j].op = "online"
               PROVE  r[j].uid # uid
    BY DEF NoOnline
  <2>1. j - Len(s) \in 1..Len(t) /\ r[j] = t[j - Len(s)]
    BY <1>1, <1>2, <1>4
  <2> QED
    BY <2>1
<1> QED
  BY <1>2, <1>3, <1>4

\* A step that adds writes to the queue and sets nobody online.
LEMMA StepProtects ==
  ASSUME TypeOK, TypeOK', ListInv, Protected, LeaversStay, LoginsStay, OutsFit,
         \A uid \in Uids : presence'[uid] = "online" => presence[uid] = "online",
         NEW t \in Seq(Write), sent' = sent \o t,
         \A i \in 1..Len(t) : t[i].op = "online" => Free(t[i].uid)
  PROVE  Protected'
<1>1. ASSUME NEW uid, ~Free(uid)
      PROVE  /\ \A i : NoOnline(sent, uid, i) => NoOnline(sent', uid, i)
             /\ \A i \in 1..Len(sent') : \/ i \in 1..Len(sent) /\ sent'[i] = sent[i]
                                         \/ NoOnline(sent', uid, i)
             /\ NoLogin(calls, uid) => NoLogin(calls', uid)
  <2>1. sent \in Seq(Write) /\ \A i \in 1..Len(t) : t[i].op = "online" => t[i].uid # uid
    BY <1>1 DEF TypeOK
  <2>2. /\ \A i : NoOnline(sent, uid, i) => NoOnline(sent', uid, i)
        /\ \A i \in 1..Len(sent') : \/ i \in 1..Len(sent) /\ sent'[i] = sent[i]
                                    \/ NoOnline(sent', uid, i)
    BY <2>1, QueueGrows
  <2>3. NoLogin(calls, uid) => NoLogin(calls', uid)
    BY <1>1 DEF NoLogin, LoginsStay
  <2> QED
    BY <2>2, <2>3
<1>2. OutStaysOffline'
  <2> SUFFICES ASSUME NEW uid \in out'
               PROVE  /\ user' # uid /\ NoLogin(calls', uid) /\ NoOnline(sent', uid, 0)
                      /\ presence'[uid] # "online"
    BY DEF OutStaysOffline
  <2>1. ~Free(uid) /\ uid \in Uids
    BY DEF Free, TypeOK
  <2> QED
    BY <1>1, <2>1 DEF OutsFit
<1>3. LeaversOffline'
  <2>1. (~running => leaving = {})'
    BY DEF LeaversStay
  <2>2. ASSUME NEW c \in leaving', calls'[c].op \in Leaving
        PROVE  LeaverOffline(c)'
    <3>1. CASE /\ c \in leaving /\ calls[c].op \in Leaving /\ calls'[c].uid = calls[c].uid
               /\ calls'[c].op = calls[c].op \/ calls'[c].op \notin {"signout", "end"}
      <4>1. LeaverOffline(c)
        BY <3>1 DEF Protected, LeaversOffline
      <4>2. ~Free(calls[c].uid) /\ calls[c].uid \in Uids
        BY <3>1, CallType DEF Free, TypeOK, ListInv, Registered
      <4>3. /\ \A i : NoOnline(sent, calls[c].uid, i) => NoOnline(sent', calls[c].uid, i)
            /\ \A i \in 1..Len(sent') : \/ i \in 1..Len(sent) /\ sent'[i] = sent[i]
                                        \/ NoOnline(sent', calls[c].uid, i)
            /\ NoLogin(calls', calls[c].uid)
        BY <1>1, <4>1, <4>2 DEF LeaverOffline
      <4>4. ASSUME calls'[c].op \in {"signout", "end"}
            PROVE  presence'[calls[c].uid] # "online" /\ NoOnline(sent', calls[c].uid, 0)
        <5>1. presence[calls[c].uid] # "online" /\ NoOnline(sent, calls[c].uid, 0)
          BY <3>1, <4>1, <4>4 DEF LeaverOffline
        <5> QED
          BY <4>2, <4>3, <5>1
      <4> QED
        BY <3>1, <4>1, <4>3, <4>4 DEF LeaverOffline
    <3> QED
      BY <2>2, <3>1 DEF LeaversStay, Same
  <2> QED
    BY <2>1, <2>2 DEF LeaversOffline
<1> QED
  BY <1>2, <1>3 DEF Protected

\* Nobody who is out comes in.
LEMMA OutKept ==
  ASSUME TypeOK, Protected, out' \subseteq out, user' \in {user, 0} \/ user' \notin out'
  PROVE  OutsFit
BY DEF Protected, OutStaysOffline, OutsFit, TypeOK, Uids

\* Handlers go on without beginning to sign in or coming to the end of leaving,
\* and nothing is written that sets somebody online.
LEMMA HandlersProtect ==
  ASSUME TypeOK, TypeOK', ListInv, Protected, UNCHANGED <<leaving, out, running>>,
         user' \in {user, 0},
         \A uid \in Uids : presence'[uid] = "online" => presence[uid] = "online",
         \A d \in Slots :
           \/ Same(calls, calls', d)
           \/ calls'[d].op \notin LoggingIn \union Leaving
           \/ /\ calls'[d].op \in LoggingIn
              /\ calls[d].op \in LoggingIn /\ calls'[d].uid = calls[d].uid
           \/ /\ calls'[d].op \in {"offline", "delete", "remove"}
              /\ calls[d].op \in Leaving /\ calls'[d].uid = calls[d].uid,
         NEW t \in Seq(Write), sent' = sent \o t, \A i \in 1..Len(t) : t[i].op # "online"
  PROVE  Protected'
<1>1. LeaversStay
  BY DEF LeaversStay, Protected, LeaversOffline, Leaving, LoggingIn, TypeOK
<1>2. LoginsStay
  BY DEF LoginsStay, Same, LoggingIn, Leaving
<1>3. OutsFit
  BY OutKept
<1>4. \A i \in 1..Len(t) : t[i].op = "online" => Free(t[i].uid)
  OBVIOUS
<1> QED
  BY <1>1, <1>2, <1>3, <1>4, StepProtects

\* The same if nothing is written at all.
LEMMA QuietProtects ==
  ASSUME TypeOK, TypeOK', ListInv, Protected, UNCHANGED <<leaving, out, running, sent>>,
         user' \in {user, 0},
         \A uid \in Uids : presence'[uid] = "online" => presence[uid] = "online",
         \A d \in Slots :
           \/ Same(calls, calls', d)
           \/ calls'[d].op \notin LoggingIn \union Leaving
           \/ /\ calls'[d].op \in LoggingIn
              /\ calls[d].op \in LoggingIn /\ calls'[d].uid = calls[d].uid
           \/ /\ calls'[d].op \in {"offline", "delete", "remove"}
              /\ calls[d].op \in Leaving /\ calls'[d].uid = calls[d].uid
  PROVE  Protected'
<1> DEFINE t == <<>>
<1>1. t \in Seq(Write) /\ Len(t) = 0
  OBVIOUS
<1>2. sent' = sent \o t
  BY ConcatEmptySeq DEF TypeOK
<1> HIDE DEF t
<1>3. \A i \in 1..Len(t) : t[i].op # "online"
  BY <1>1
<1> QED
  BY <1>1, <1>2, <1>3, HandlersProtect

\* What the gates write sets online who is signed in, hence nobody who is out;
\* whoever was leaving is not protected any more.
LEMMA GatesProtect ==
  ASSUME TypeOK, TypeOK', ListInv, Protected, UNCHANGED <<out, user, presence>>,
         running => running',
         \A d \in Slots : Same(calls, calls', d) \/ calls'[d].op = "none",
         NEW routes, Send(Tracked(user, routes)),
         leaving' = IF Tracked(user, routes) = <<>> THEN leaving ELSE {}
  PROVE  Protected'
<1> DEFINE t == Tracked(user, routes)
<1>1. /\ t \in Seq(Write) /\ \A i \in 1..Len(t) : t[i].uid = user
  BY TrackedWrites DEF TypeOK
<1>2. sent' = sent \o t
  BY DEF Send
<1>3. LeaversStay
  <2>1. running' \/ leaving' = {}
    BY DEF Protected, LeaversOffline
  <2>2. leaving' \subseteq leaving
    OBVIOUS
  <2> QED
    BY <2>1, <2>2 DEF LeaversStay, Leaving, TypeOK
<1>4. LoginsStay
  BY DEF LoginsStay, Same, LoggingIn
<1>5. OutsFit
  BY OutKept
<1>6. \A i \in 1..Len(t) : t[i].op = "online" => Free(t[i].uid)
  <2>1. CASE t = <<>>
    <3>1. Len(<<>>) = 0
      OBVIOUS
    <3> QED
      BY <2>1, <3>1
  <2>2. CASE t # <<>>
    BY <1>1, <2>2 DEF Free, Protected, OutStaysOffline
  <2> QED
    BY <2>1, <2>2
<1> HIDE DEF t
<1> QED
  BY <1>1, <1>2, <1>3, <1>4, <1>5, <1>6, StepProtects

LEMMA PagesProtect ==
  ASSUME TypeOK, ListInv, Protected,
         OpenSettings \/ OpenLogin \/ OpenRegister \/ Back \/ LoginInstead
  PROVE  Protected'
<1>1. TypeOK' /\ \A c \in Slots : Same(calls, calls', c)
  BY PagesKeepList
<1>2. UNCHANGED <<leaving, out, running, sent, user, presence>>
  BY DEF OpenSettings, OpenLogin, OpenRegister, Back, LoginInstead, server, history
<1> QED
  BY <1>1, <1>2, QuietProtects

LEMMA WithoutLoginProtects ==
  ASSUME TypeOK, ListInv, Protected, WithoutLogin
  PROVE  Protected'
<1> DEFINE routes == <<NewGate>>
<1>1. TypeOK' /\ \A c \in Slots : Same(calls, calls', c)
  BY WithoutLoginType
<1>2. /\ UNCHANGED <<out, running, user, presence>> /\ Send(Tracked(user, routes))
      /\ leaving' = IF Tracked(user, routes) = <<>> THEN leaving ELSE {}
  BY DEF WithoutLogin, server
<1> HIDE DEF routes
<1> QED
  BY <1>1, <1>2, GatesProtect

LEMMA AppRebuiltProtects ==
  ASSUME TypeOK, ListInv, Protected, NEW c \in Slots, AppRebuilt(c)
  PROVE  Protected'
<1> DEFINE routes == stack'
<1>1. TypeOK' /\ Goes(calls, calls', c, "none", 0) /\ calls[c].op = "dark"
  BY AppRebuiltType
<1>2. /\ UNCHANGED <<out, running, user, presence>> /\ Send(Tracked(user, routes))
      /\ leaving' = IF Tracked(user, routes) = <<>> THEN leaving ELSE {}
  BY DEF AppRebuilt, server
<1> HIDE DEF routes
<1> QED
  BY <1>1, <1>2, GatesProtect DEF Goes

LEMMA StartAppProtects ==
  ASSUME TypeOK, ListInv, Protected, StartApp
  PROVE  Protected'
<1> DEFINE routes == <<NewGate>>
<1>1. TypeOK' /\ \A c \in Slots : Same(calls, calls', c)
  BY StartAppType DEF StartApp, Same
<1>2. UNCHANGED <<out, leaving, user, presence>> /\ running' /\ Send(Tracked(user, routes))
  BY DEF StartApp, server, history
<1>3. leaving = {}
  BY DEF StartApp, Protected, LeaversOffline
<1>4. leaving' = IF Tracked(user, routes) = <<>> THEN leaving ELSE {}
  BY <1>2, <1>3
<1> HIDE DEF routes
<1> QED
  BY <1>1, <1>2, <1>4, GatesProtect

LEMMA ConnectionsProtect ==
  ASSUME TypeOK, ListInv, Protected, Connect \/ ConnectionLost \/ ServerNotices
  PROVE  Protected'
<1>1. TypeOK' /\ \A uid \in Uids : presence'[uid] = "online" => presence[uid] = "online"
  <2>1. CASE Connect \/ ConnectionLost
    BY <2>1, ConnectType DEF Connect, ConnectionLost
  <2>2. CASE ServerNotices
    BY <2>2, ServerNoticesType
  <2> QED
    BY <2>1, <2>2
<1>2. UNCHANGED <<leaving, out, running, sent, user, calls>>
  BY DEF Connect, ConnectionLost, ServerNotices, device, history
<1> QED
  BY <1>1, <1>2, QuietProtects DEF Same

LEMMA AccountsProtect ==
  ASSUME TypeOK, ListInv, Protected, NEW uid \in Uids, Verify(uid) \/ AdminDeletes(uid)
  PROVE  Protected'
<1>1. TypeOK'
  BY AccountsKeepList
<1>2. UNCHANGED <<leaving, out, running, sent, user, calls, presence>>
  BY DEF Verify, AdminDeletes, device, history
<1> QED
  BY <1>1, <1>2, QuietProtects DEF Same

LEMMA QuietHandlersProtect ==
  ASSUME TypeOK, ListInv, Protected, NEW c \in Slots,
         \/ PressRegister(c) \/ PressLogin(c) \/ PressDarkMode(c)
         \/ RoleRead(c) \/ MailSent(c) \/ CallFails(c)
  PROVE  Protected'
<1>1. PICK op \in Ops, uid \in Uids \union {0} :
        /\ TypeOK' /\ Goes(calls, calls', c, op, uid)
        /\ op \in LoggingIn => calls[c].op \in LoggingIn /\ uid = calls[c].uid
        /\ op \notin Leaving
  BY HandlersKeepList
<1>2. UNCHANGED <<leaving, out, running, sent, user, presence>>
  BY DEF PressRegister, PressLogin, PressDarkMode, RoleRead, MailSent, CallFails,
         server, device, history
<1>3. \A d \in Slots :
        \/ Same(calls, calls', d)
        \/ calls'[d].op \notin LoggingIn \union Leaving
        \/ /\ calls'[d].op \in LoggingIn
           /\ calls[d].op \in LoggingIn /\ calls'[d].uid = calls[d].uid
  BY <1>1 DEF Goes
<1> QED
  BY <1>1, <1>2, <1>3, QuietProtects

LEMMA SignOutUnverifiedProtects ==
  ASSUME TypeOK, ListInv, Protected, NEW c \in Slots, SignOutUnverified(c)
  PROVE  Protected'
<1>1. TypeOK' /\ Goes(calls, calls', c, "none", 0) /\ sent' = sent /\ user' = 0
  BY SignOutUnverifiedType, SignOutUnverifiedKeepsList
<1>2. UNCHANGED <<leaving, out, running, presence>>
  BY DEF SignOutUnverified, server, history
<1>3. \A d \in Slots : Same(calls, calls', d) \/ calls'[d].op \notin LoggingIn \union Leaving
  BY <1>1 DEF Goes, LoggingIn, Leaving
<1> QED
  BY <1>1, <1>2, <1>3, QuietProtects

\* Who has signed out or deleted the account was protected until now.
LEMMA LeftProtects ==
  ASSUME TypeOK, TypeOK', ListInv, Protected, NEW c \in Slots,
         Goes(calls, calls', c, "none", 0), calls[c].op \in {"signout", "end"},
         UNCHANGED <<running, sent, presence>>, leaving' \subseteq leaving,
         user' \in {user, 0}, user' \notin {calls[c].uid} \intersect out',
         out' \subseteq out \union {calls[c].uid}, c \in leaving \/ out' = out
  PROVE  Protected'
<1>1. c \in leaving => LeaverOffline(c)
  BY DEF Protected, LeaversOffline, Leaving
<1>2. OutsFit
  <2> SUFFICES ASSUME NEW uid \in out'
               PROVE  /\ user' # uid /\ NoLogin(calls, uid) /\ NoOnline(sent, uid, 0)
                      /\ presence[uid] # "online"
    BY DEF OutsFit
  <2>1. CASE uid \in out
    BY <2>1 DEF Protected, OutStaysOffline, TypeOK, Uids
  <2>2. CASE uid \notin out
    BY <1>1, <2>2 DEF LeaverOffline
  <2> QED
    BY <2>1, <2>2
<1>3. LeaversStay
  <2>1. running' \/ leaving' = {}
    BY DEF Protected, LeaversOffline
  <2> QED
    BY <2>1 DEF LeaversStay, Goes, Leaving, TypeOK
<1>4. LoginsStay
  BY DEF LoginsStay, Goes, Same, LoggingIn
<1> DEFINE t == <<>>
<1>5. t \in Seq(Write) /\ Len(t) = 0
  OBVIOUS
<1>6. sent' = sent \o t
  BY ConcatEmptySeq DEF TypeOK
<1> HIDE DEF t
<1>7. \A i \in 1..Len(t) : t[i].op = "online" => Free(t[i].uid)
  BY <1>5
<1> QED
  BY <1>2, <1>3, <1>4, <1>5, <1>6, <1>7, StepProtects

LEMMA SignedOutProtects ==
  ASSUME TypeOK, ListInv, Protected, NEW c \in Slots, SignedOut(c)
  PROVE  Protected'
<1>1. TypeOK' /\ Goes(calls, calls', c, "none", 0) /\ calls[c].op = "signout"
  BY SignedOutType
<1>2. calls[c].uid # 0
  BY <1>1 DEF ListInv, Registered, Leaving
<1>3. /\ UNCHANGED <<running, sent, presence>> /\ user' = 0 /\ leaving' \subseteq leaving
      /\ out' \subseteq out \union {calls[c].uid}
      /\ c \in leaving \/ out' = out
  BY DEF SignedOut, HasLeft, server
<1> QED
  BY <1>1, <1>2, <1>3, LeftProtects

LEMMA AccountDeletedProtects ==
  ASSUME TypeOK, ListInv, Protected, NEW c \in Slots, AccountDeleted(c)
  PROVE  Protected'
<1>1. /\ TypeOK' /\ Goes(calls, calls', c, "none", 0) /\ calls[c].op = "end"
      /\ calls[c].uid \in Uids
  BY AccountDeletedType
<1>2. /\ UNCHANGED <<running, sent, presence>> /\ leaving' \subseteq leaving
      /\ user' \in {user, 0} /\ user' \notin {calls[c].uid} \intersect out'
      /\ out' \subseteq out \union {calls[c].uid}
      /\ c \in leaving \/ out' = out
  BY <1>1 DEF AccountDeleted, HasLeft, Uids
<1> QED
  BY <1>1, <1>2, LeftProtects

\* A login goes on; whoever is leaving has none under way.
LEMMA RememberStoredProtects ==
  ASSUME TypeOK, ListInv, Protected, NEW c \in Slots, NEW rememberMe \in BOOLEAN,
         RememberStored(c, rememberMe)
  PROVE  Protected'
<1> DEFINE w == [op |-> "online", uid |-> calls[c].uid, by |-> c]
           t == <<w>>
<1>1. /\ TypeOK' /\ Goes(calls, calls', c, "online", calls[c].uid)
      /\ calls[c].op = "remember" /\ calls[c].uid \in Uids /\ w \in Write
  BY RememberStoredType
<1>2. UNCHANGED <<running, leaving, out, presence, user>> /\ sent' = sent \o t
  BY DEF RememberStored, Send, server, history
<1>3. t \in Seq(Write) /\ \A i \in 1..Len(t) : t[i].uid = calls[c].uid
  <2>1. w.uid = calls[c].uid
    OBVIOUS
  <2> HIDE DEF w
  <2>2. t \in Seq(Write) /\ Len(t) = 1 /\ t[1] = w
    BY <1>1
  <2> QED
    BY <2>1, <2>2
<1> HIDE DEF t, w
<1>4. Free(calls[c].uid)
  BY <1>1, <1>2 DEF Free, Protected, OutStaysOffline, LeaversOffline, LeaverOffline, NoLogin, LoggingIn
<1>5. LeaversStay
  BY <1>1, <1>2 DEF LeaversStay, Protected, LeaversOffline, Goes, Leaving, TypeOK
<1>6. LoginsStay
  BY <1>1 DEF LoginsStay, Goes, Same, LoggingIn
<1>7. OutsFit
  BY <1>2, OutKept
<1> QED
  BY <1>1, <1>2, <1>3, <1>4, <1>5, <1>6, <1>7, StepProtects

\* A login ends the protection of this account, and of no other.
LEMMA SignedInProtects ==
  ASSUME TypeOK, ListInv, Protected, NEW c \in Slots, NEW uid \in Uids, SignedIn(c, uid)
  PROVE  Protected'
<1>1. TypeOK' /\ Goes(calls, calls', c, "role", uid) /\ calls[c].op = "signin"
  BY SignedInType
<1>2. /\ UNCHANGED <<running, presence>> /\ Authenticate(uid)
      /\ leaving' = {d \in leaving : calls[d].uid # uid} /\ out' = out \ {uid}
  BY DEF SignedIn, server
<1>3. PICK t \in Seq(Write) : /\ user' = uid /\ sent' = sent \o t
                              /\ \A i \in 1..Len(t) : t[i].uid = uid
  <2>1. uid \in Uids \union {0}
    OBVIOUS
  <2>2. \E t \in Seq(Write) : /\ sent' = sent \o t
                              /\ \A i \in 1..Len(t) : t[i].by = 0 /\ t[i].uid = uid
                              /\ uid = 0 => t = <<>>
    BY <1>2, <2>1, AuthenticateType
  <2>3. user' = uid
    BY <1>2 DEF Authenticate
  <2> QED
    BY <2>2, <2>3
<1>4. Free(uid)
  BY <1>2 DEF Free
<1>5. LeaversStay
  <2>1. running' \/ leaving' = {}
    BY <1>2 DEF Protected, LeaversOffline
  <2> QED
    BY <1>1, <1>2, <2>1 DEF LeaversStay, Goes, Leaving, TypeOK
<1>6. LoginsStay
  BY <1>1, <1>4 DEF LoginsStay, Goes, Same
<1>7. OutsFit
  BY <1>2, <1>3, OutKept
<1> QED
  BY <1>1, <1>2, <1>3, <1>4, <1>5, <1>6, <1>7, StepProtects

\* A new account is nobody's who has left.
LEMMA CreatedProtects ==
  ASSUME TypeOK, ListInv, Protected, NEW c \in Slots, NEW e \in Emails, Created(c, e)
  PROVE  Protected'
<1> DEFINE new == Len(accounts) + 1
<1>1. /\ TypeOK' /\ new \in Uids /\ Goes(calls, calls', c, "set", new)
      /\ calls[c].op = "create"
  BY CreatedType
<1>2. UNCHANGED <<running, leaving, out, presence>> /\ Authenticate(new)
  BY DEF Created, history
<1>3. PICK t \in Seq(Write) : /\ user' = new /\ sent' = sent \o t
                              /\ \A i \in 1..Len(t) : t[i].uid = new
  BY <1>1, <1>2, AuthenticateType
<1>4. new \notin DOMAIN accounts /\ new # 0
  BY Domains
<1> HIDE DEF new
<1>5. Free(new)
  BY <1>2, <1>4 DEF Free, ListInv, Registered, TypeOK
<1>6. LeaversStay
  <2>1. running' \/ leaving' = {}
    BY <1>2 DEF Protected, LeaversOffline
  <2> QED
    BY <1>1, <1>2, <2>1 DEF LeaversStay, Goes, Leaving, TypeOK
<1>7. LoginsStay
  BY <1>1, <1>5 DEF LoginsStay, Goes, Same
<1>8. OutsFit
  BY <1>2, <1>3, <1>5, OutKept DEF Free
<1> QED
  BY <1>1, <1>2, <1>3, <1>5, <1>6, <1>7, <1>8, StepProtects

\* Somebody presses a button to leave: nothing that was under way sets the
\* account online after what the handler writes, if it writes anything.
LEMMA PressProtects ==
  ASSUME TypeOK, TypeOK', ListInv, Protected, NEW c \in Slots, NEW uid \in Uids, Leaves(c, uid),
         NEW op \in {"offline", "delete"}, Goes(calls, calls', c, op, uid), calls[c].op = "none",
         running, UNCHANGED <<running, presence, user, out>>,
         NEW t \in Seq(Write), sent' = sent \o t, Len(t) <= 1,
         \A i \in 1..Len(t) : t[i].op # "online"
  PROVE  Protected'
<1>1. \A i \in 1..Len(sent) : sent[i].by # c
  BY QueueTypes DEF ListInv, Awaited
<1>2. /\ Len(sent) \in Nat /\ Len(t) \in Nat /\ Len(sent') = Len(sent) + Len(t)
      /\ \A i \in 1..Len(sent) : sent'[i] = sent[i]
  BY ConcatProperties, LenProperties DEF TypeOK
<1>3. \A i \in 1..Len(sent') : sent'[i].by = c => i = Len(sent')
  BY <1>1, <1>2
<1>4. \A i \in 1..Len(sent') : sent'[i].by = c => NoOnline(sent', uid, i)
  BY <1>2, <1>3 DEF NoOnline
<1>5. c \in leaving' => NoLogin(calls', uid)
  BY DEF Leaves, NoLogin, Goes, Same, LoggingIn, TypeOK
<1>6. c \in leaving' => LeaverOffline(c)'
  BY <1>4, <1>5 DEF LeaverOffline, Goes
<1>7. LeaversStay
  BY <1>6 DEF LeaversStay, Leaves, Goes, TypeOK
<1>8. LoginsStay
  BY DEF LoginsStay, Goes, Same, LoggingIn
<1>9. OutsFit
  BY OutKept
<1>10. \A i \in 1..Len(t) : t[i].op = "online" => Free(t[i].uid)
  OBVIOUS
<1> QED
  BY <1>7, <1>8, <1>9, <1>10, StepProtects

LEMMA PressSignOutProtects ==
  ASSUME TypeOK, ListInv, Protected, NEW c \in Slots, PressSignOut(c)
  PROVE  Protected'
<1> DEFINE u == Last(stack).user
           w == [op |-> "offline", uid |-> u, by |-> c]
           t == <<w>>
<1>1. /\ TypeOK' /\ u \in Uids /\ Goes(calls, calls', c, "offline", u) /\ calls[c].op = "none"
  BY PressSignOutType
<1>2. /\ running /\ UNCHANGED <<running, presence, user, out>> /\ Leaves(c, u)
      /\ sent' = sent \o t
  BY DEF PressSignOut, On, Send, server, device
<1>3. t \in Seq(Write) /\ Len(t) <= 1 /\ \A i \in 1..Len(t) : t[i].op # "online"
  <2>1. w \in Write /\ w.op # "online"
    BY <1>1 DEF Write
  <2> HIDE DEF w
  <2>2. t \in Seq(Write) /\ Len(t) = 1 /\ t[1] = w
    BY <2>1
  <2> QED
    BY <2>1, <2>2
<1> HIDE DEF t, u
<1> QED
  BY <1>1, <1>2, <1>3, PressProtects

LEMMA PressDeleteProtects ==
  ASSUME TypeOK, ListInv, Protected, NEW c \in Slots, PressDelete(c)
  PROVE  Protected'
<1> DEFINE u == Last(stack).user
           t == <<>>
<1>1. /\ TypeOK' /\ u \in Uids /\ Goes(calls, calls', c, "delete", u) /\ calls[c].op = "none"
  BY PressDeleteType
<1>2. running /\ UNCHANGED <<running, presence, user, out, sent>> /\ Leaves(c, u)
  BY DEF PressDelete, On, server, device
<1>3. t \in Seq(Write) /\ Len(t) = 0 /\ sent' = sent \o t
  BY <1>2, ConcatEmptySeq DEF TypeOK
<1> HIDE DEF t, u
<1>4. Len(t) <= 1 /\ \A i \in 1..Len(t) : t[i].op # "online"
  BY <1>3
<1> QED
  BY <1>1, <1>2, <1>3, <1>4, PressProtects

LEMMA MutationStoredProtects ==
  ASSUME TypeOK, ListInv, Protected, MutationStored
  PROVE  Protected'
<1> DEFINE m == Head(mutations)
<1>1. TypeOK' /\ mutations # <<>> /\ MutationAnswered(m)
  BY MutationStoredType
<1>2. UNCHANGED <<leaving, out, running, user, presence>>
  BY DEF MutationStored, device, history
<1>3. m.by # 0 => calls[m.by].op = m.op
  BY <1>1, OldestMutation DEF OldestFits
<1> HIDE DEF m
<1>4. \A d \in Slots :
        \/ Same(calls, calls', d)
        \/ calls'[d].op \notin LoggingIn \union Leaving
        \/ /\ calls'[d].op \in {"offline", "delete", "remove"}
           /\ calls[d].op \in Leaving /\ calls'[d].uid = calls[d].uid
  BY <1>1, <1>3, SlotsAssumption DEF MutationAnswered, Goes, Same, LoggingIn, Leaving
<1>5. CASE sent' = sent
  BY <1>1, <1>2, <1>4, <1>5, QuietProtects
<1>6. CASE sent' # sent
  <2> DEFINE w == [op |-> "remove", uid |-> m.uid, by |-> m.by]
             t == <<w>>
  <2>1. sent' = sent \o t /\ w \in Write
    BY <1>1, <1>6 DEF MutationAnswered
  <2>2. w.op = "remove"
    OBVIOUS
  <2> HIDE DEF w
  <2>3. t \in Seq(Write) /\ Len(t) = 1 /\ t[1] = w
    BY <2>1
  <2> HIDE DEF t
  <2>4. \A i \in 1..Len(t) : t[i].op # "online"
    BY <2>2, <2>3
  <2> QED
    BY <1>1, <1>2, <1>4, <2>1, <2>3, <2>4, HandlersProtect
<1> QED
  BY <1>5, <1>6

LEMMA MutationRefusedProtects ==
  ASSUME TypeOK, ListInv, Protected, MutationRefused
  PROVE  Protected'
<1>1. TypeOK' /\ Refused(Head(mutations))
  BY MutationRefusedType
<1>2. UNCHANGED <<leaving, out, running, user, presence, sent>>
  BY DEF MutationRefused, server, device, history
<1>3. \A d \in Slots : Same(calls, calls', d) \/ calls'[d].op \notin LoggingIn \union Leaving
  BY <1>1 DEF Refused, Goes, Same, LoggingIn, Leaving
<1> QED
  BY <1>1, <1>2, <1>3, QuietProtects

\* The oldest write goes.
LEMMA QueueAnswered ==
  ASSUME NEW s \in Seq(Write), s # <<>>, NEW uid
  PROVE  /\ \A i \in 1..Len(Tail(s)) :
              /\ i + 1 \in 1..Len(s) /\ Tail(s)[i] = s[i + 1]
              /\ NoOnline(s, uid, i + 1) => NoOnline(Tail(s), uid, i)
         /\ NoOnline(s, uid, 1) => NoOnline(Tail(s), uid, 0)
         /\ NoOnline(s, uid, 0) =>
              NoOnline(Tail(s), uid, 0) /\ ~(Head(s).op = "online" /\ Head(s).uid = uid)
<1> DEFINE t == Tail(s)
<1>1. /\ Head(s) = s[1] /\ 1 \in 1..Len(s) /\ Len(s) \in Nat /\ Len(t) = Len(s) - 1
      /\ \A i \in 1..Len(t) : i + 1 \in 1..Len(s) /\ t[i] = s[i + 1]
  BY OldestOf, LenProperties
<1> HIDE DEF t
<1>2. ASSUME NEW i \in Nat, NoOnline(s, uid, i + 1)
      PROVE  NoOnline(t, uid, i)
  <2> SUFFICES ASSUME NEW j \in 1..Len(t), j > i, t[j].op = "online"
               PROVE  t[j].uid # uid
    BY DEF NoOnline
  <2>1. j + 1 \in 1..Len(s) /\ j + 1 > i + 1 /\ t[j] = s[j + 1]
    BY <1>1
  <2> QED
    BY <1>2, <2>1 DEF NoOnline
<1>3. NoOnline(s, uid, 1) => NoOnline(t, uid, 0)
  <2>1. 0 \in Nat /\ 0 + 1 = 1
    OBVIOUS
  <2> QED
    BY <1>2, <2>1
<1>4. NoOnline(s, uid, 0) => NoOnline(s, uid, 1) /\ ~(s[1].op = "online" /\ s[1].uid = uid)
  BY <1>1 DEF NoOnline
<1>5. \A i \in 1..Len(t) : i \in Nat
  BY <1>1
<1> QED
  BY <1>1, <1>2, <1>3, <1>4, <1>5 DEF t

LEMMA WritesProtect ==
  ASSUME TypeOK, ListInv, Protected, WriteStored \/ WriteRefused
  PROVE  Protected'
<1> DEFINE w == Head(sent)
           Arrives(d) ==
             /\ d = w.by /\ calls[d].op = w.op /\ calls[d].uid = w.uid /\ calls'[d].uid = w.uid
             /\ \/ w.op = "offline" /\ calls'[d].op = "signout"
                \/ w.op = "remove" /\ calls'[d].op = "end"
             /\ presence'[w.uid] # "online"
<1>1. /\ TypeOK' /\ sent # <<>> /\ sent' = Tail(sent)
      /\ \A uid \in Uids : presence'[uid] = "online" =>
           presence[uid] = "online" \/ (w.op = "online" /\ w.uid = uid)
      /\ Refused(w) \/ (WriteAnswered(w) /\ (w.op \in {"offline", "remove"} => presence'[w.uid] # "online"))
  <2>1. CASE WriteStored
    <3>1. /\ TypeOK' /\ sent # <<>> /\ sent' = Tail(sent) /\ w \in Write /\ WriteAnswered(w)
          /\ \A uid \in Uids : presence'[uid] =
               IF uid # w.uid \/ w.op = "arm" THEN presence[uid]
               ELSE IF w.op = "remove" THEN "none" ELSE w.op
      BY <2>1, WriteStoredType
    <3>2. w.uid \in Uids
      BY <3>1 DEF Write
    <3> HIDE DEF w
    <3> QED
      BY <3>1, <3>2
  <2>2. CASE WriteRefused
    BY <2>2, WriteRefusedType DEF WriteRefused, server
  <2> QED
    BY <2>1, <2>2
<1>2. UNCHANGED <<leaving, out, running, user>>
  BY DEF WriteStored, WriteRefused, server, device, history
<1>3. /\ w.by \in Slots \union {0} /\ w = sent[1] /\ 1 \in 1..Len(sent)
      /\ w.by # 0 => calls[w.by].op = w.op /\ calls[w.by].uid = w.uid
  BY <1>1, OldestWrite
<1>4. sent \in Seq(Write)
  BY DEF TypeOK
<1> HIDE DEF w
<1>5. \A d \in Slots : Same(calls, calls', d) \/ calls'[d].op = "none" \/ Arrives(d)
  BY <1>1, <1>3, SlotsAssumption DEF Refused, WriteAnswered, Goes, Same
<1>6. ASSUME NEW uid, NoLogin(calls, uid)
      PROVE  NoLogin(calls', uid)
  BY <1>5, <1>6 DEF NoLogin, Same, LoggingIn
<1>7. ASSUME NEW uid
      PROVE  /\ \A i \in 1..Len(sent') :
                  /\ i + 1 \in 1..Len(sent) /\ sent'[i] = sent[i + 1]
                  /\ NoOnline(sent, uid, i + 1) => NoOnline(sent', uid, i)
             /\ NoOnline(sent, uid, 1) => NoOnline(sent', uid, 0)
             /\ NoOnline(sent, uid, 0) =>
                  NoOnline(sent', uid, 0) /\ ~(w.op = "online" /\ w.uid = uid)
  BY <1>1, <1>4, QueueAnswered DEF w
<1>8. ASSUME NEW uid \in Uids, presence[uid] # "online", NoOnline(sent, uid, 0)
      PROVE  presence'[uid] # "online" /\ NoOnline(sent', uid, 0)
  BY <1>1, <1>7, <1>8
<1>9. OutStaysOffline'
  BY <1>2, <1>6, <1>8 DEF Protected, OutStaysOffline, TypeOK
<1>10. LeaversOffline'
  <2>1. (~running => leaving = {})'
    BY <1>2 DEF Protected, LeaversOffline
  <2>2. ASSUME NEW c \in leaving, calls'[c].op \in Leaving
        PROVE  LeaverOffline(c)'
    <3> DEFINE uid == calls[c].uid
    <3>1. c \in Slots /\ calls[c].op \in Leaving /\ calls'[c].uid = uid
      BY <1>5, <2>2 DEF Same, Leaving, TypeOK
    <3>2. LeaverOffline(c) /\ uid \in Uids
      BY <3>1, CallType DEF Protected, LeaversOffline, ListInv, Registered
    <3>3. NoLogin(calls', uid)
      BY <1>6, <3>2 DEF LeaverOffline
    <3>4. \A i \in 1..Len(sent') : sent'[i].by = c => NoOnline(sent', uid, i)
      BY <1>7, <3>2 DEF LeaverOffline
    <3>5. ASSUME calls'[c].op \in {"signout", "end"}
          PROVE  presence'[uid] # "online" /\ NoOnline(sent', uid, 0)
      <4>1. CASE Same(calls, calls', c)
        BY <1>8, <3>2, <3>5, <4>1 DEF LeaverOffline, Same
      <4>2. CASE Arrives(c)
        <5>1. NoOnline(sent, uid, 1)
          BY <1>3, <3>2, <4>2 DEF LeaverOffline
        <5> QED
          BY <1>7, <4>2, <5>1
      <4> QED
        BY <1>5, <3>1, <3>5, <4>1, <4>2
    <3> QED
      BY <3>1, <3>3, <3>4, <3>5 DEF LeaverOffline
  <2> QED
    BY <1>2, <2>1, <2>2 DEF LeaversOffline
<1> QED
  BY <1>9, <1>10 DEF Protected

\* The process ends, and nobody is leaving any more.
LEMMA KillProtects ==
  ASSUME TypeOK, ListInv, Protected, Kill
  PROVE  Protected'
<1>1. TypeOK' /\ \A c \in Slots : calls'[c].op = "none"
  BY KillType
<1>2. UNCHANGED <<out, user, presence>> /\ leaving' = {} /\ sent' = <<>>
  BY DEF Kill
<1>3. Len(sent') = 0
  BY <1>2
<1>4. \A uid : NoLogin(calls', uid) /\ NoOnline(sent', uid, 0)
  BY <1>1, <1>3 DEF NoLogin, NoOnline, LoggingIn
<1> QED
  BY <1>2, <1>4 DEF Protected, LeaversOffline, OutStaysOffline

-----------------------------------------------------------------------------
(***************************************************************************)
(* Theorems                                                                *)
(***************************************************************************)

LEMMA InitInv == Init => IInv
<1> SUFFICES ASSUME Init
             PROVE  IInv
  OBVIOUS
<1>1. NoCall \in Call /\ NoCall.op = "none" /\ NoCall.uid = 0 /\ NoCall.depth = 0
  BY BoundsAssumption DEF NoCall, Call
<1>2. \A c \in Slots : calls[c] = NoCall
  BY DEF Init
<1>3. /\ <<>> \in Seq(Account) /\ <<>> \in Seq(Route) /\ <<>> \in Seq(Mutation)
      /\ <<>> \in Seq(Write) /\ Len(<<>>) = 0
  OBVIOUS
<1>4. TypeOK
  <2>1. /\ accounts = <<>> /\ stack = <<>> /\ mutations = <<>> /\ sent = <<>>
        /\ docs = {} /\ armed = {} /\ stale = {} /\ leaving = {} /\ out = {}
        /\ connected = FALSE /\ running = FALSE /\ remembered = FALSE /\ user = 0
    BY DEF Init
  <2>2. presence \in [Uids -> {"none", "online", "offline"}]
    BY DEF Init
  <2>3. calls \in [Slots -> Call] /\ \A c \in Slots : calls[c].depth <= Len(stack)
    <3>1. calls \in [Slots -> Call]
      BY <1>1 DEF Init
    <3> QED
      BY <1>1, <1>2, <1>3, <2>1, <3>1
  <2>4. 0 <= MaxAccounts /\ 0 <= MaxRoutes
    BY BoundsAssumption
  <2>5. running <=> stack # <<>>
    BY <2>1
  <2> QED
    BY <1>3, <2>1, <2>2, <2>3, <2>4, <2>5 DEF TypeOK
<1>5. ListInv
  BY <1>1, <1>2, <1>3 DEF Init, ListInv, Registered, Awaited, SetsLead, EndersUnlisted,
     DocsHaveAccounts, LoggingIn, Leaving
<1>6. LeaversOffline /\ OutStaysOffline
  BY DEF Init, LeaversOffline, OutStaysOffline
<1> QED
  BY <1>4, <1>5, <1>6 DEF IInv

LEMMA NextInv == IInv /\ [Next]_vars => IInv'
<1> SUFFICES ASSUME TypeOK, ListInv, Protected, [Next]_vars
             PROVE  TypeOK' /\ ListInv' /\ Protected'
  BY DEF IInv, Protected
<1>1. CASE OpenSettings \/ OpenLogin \/ OpenRegister \/ Back \/ LoginInstead
  BY <1>1, PagesKeepList, PagesProtect
<1>2. CASE WithoutLogin
  BY <1>2, WithoutLoginType, WithoutLoginKeepsList, WithoutLoginProtects
<1>3. ASSUME NEW c \in Slots,
             \/ PressRegister(c) \/ PressLogin(c) \/ PressDarkMode(c)
             \/ RoleRead(c) \/ MailSent(c) \/ CallFails(c)
      PROVE  TypeOK' /\ ListInv' /\ Protected'
  BY <1>3, HandlersKeepList, QuietHandlersProtect
<1>4. ASSUME NEW c \in Slots, NEW e \in Emails, Created(c, e)
      PROVE  TypeOK' /\ ListInv' /\ Protected'
  BY <1>4, CreatedType, CreatedKeepsList, CreatedProtects
<1>5. ASSUME NEW c \in Slots, NEW uid \in Uids, SignedIn(c, uid)
      PROVE  TypeOK' /\ ListInv' /\ Protected'
  BY <1>5, SignedInType, SignedInKeepsList, SignedInProtects
<1>6. ASSUME NEW c \in Slots, SignOutUnverified(c)
      PROVE  TypeOK' /\ ListInv' /\ Protected'
  BY <1>6, SignOutUnverifiedType, SignOutUnverifiedKeepsList, SignOutUnverifiedProtects
<1>7. ASSUME NEW c \in Slots, NEW rememberMe \in BOOLEAN, RememberStored(c, rememberMe)
      PROVE  TypeOK' /\ ListInv' /\ Protected'
  BY <1>7, RememberStoredType, RememberStoredKeepsList, RememberStoredProtects
<1>8. ASSUME NEW c \in Slots, AppRebuilt(c)
      PROVE  TypeOK' /\ ListInv' /\ Protected'
  BY <1>8, AppRebuiltType, AppRebuiltKeepsList, AppRebuiltProtects
<1>9. ASSUME NEW c \in Slots, PressSignOut(c)
      PROVE  TypeOK' /\ ListInv' /\ Protected'
  BY <1>9, PressSignOutType, PressSignOutKeepsList, PressSignOutProtects
<1>10. ASSUME NEW c \in Slots, SignedOut(c)
       PROVE  TypeOK' /\ ListInv' /\ Protected'
  BY <1>10, HandlersKeepList, SignedOutProtects
<1>11. ASSUME NEW c \in Slots, PressDelete(c)
       PROVE  TypeOK' /\ ListInv' /\ Protected'
  BY <1>11, PressDeleteType, PressDeleteKeepsList, PressDeleteProtects
<1>12. ASSUME NEW c \in Slots, AccountDeleted(c)
       PROVE  TypeOK' /\ ListInv' /\ Protected'
  BY <1>12, AccountDeletedType, AccountDeletedKeepsList, AccountDeletedProtects
<1>13. CASE MutationStored
  BY <1>13, MutationStoredType, MutationStoredKeepsList, MutationStoredProtects
<1>14. CASE MutationRefused
  BY <1>14, MutationRefusedType, MutationRefusedKeepsList, MutationRefusedProtects
<1>15. CASE WriteStored \/ WriteRefused
  BY <1>15, WritesKeepList, WritesProtect
<1>16. CASE Connect \/ ConnectionLost \/ ServerNotices
  BY <1>16, ConnectionsKeepList, ConnectionsProtect
<1>17. CASE StartApp
  BY <1>17, StartAppType, StartAppKeepsList, StartAppProtects
<1>18. CASE Kill
  BY <1>18, KillType, KillKeepsList, KillProtects
<1>19. ASSUME NEW uid \in Uids, Verify(uid) \/ AdminDeletes(uid)
       PROVE  TypeOK' /\ ListInv' /\ Protected'
  BY <1>19, AccountsKeepList, AccountsProtect
<1>20. CASE UNCHANGED vars
  <2>1. /\ UNCHANGED <<accounts, docs, presence, connected, armed, stale, running, user>>
        /\ UNCHANGED <<remembered, stack, calls, mutations, sent, leaving, out>>
    BY <1>20 DEF vars
  <2>2. TypeOK'
    BY <2>1 DEF TypeOK
  <2>3. \A c \in Slots : Same(calls, calls', c)
    BY <2>1 DEF Same
  <2>4. ListInv'
    BY <2>1, <2>2, <2>3, SameStack, SameHandlers, OutRegistered, ListQuiet
  <2> QED
    BY <2>1, <2>2, <2>3, <2>4, QuietProtects
<1> QED
  BY <1>1, <1>2, <1>3, <1>4, <1>5, <1>6, <1>7, <1>8, <1>9, <1>10, <1>11, <1>12, <1>13, <1>14,
     <1>15, <1>16, <1>17, <1>18, <1>19, <1>20 DEF Next

\* The inductive invariant holds.
THEOREM Inductive == Spec => []IInv
BY InitInv, NextInv, PTL DEF Spec

\* Every variable keeps its type; a handler that has its page finds it in the
\* stack, and the stack is empty exactly when the app does not run.
THEOREM TypeCorrect == Spec => []TypeOK
<1>1. IInv => TypeOK
  BY DEF IInv
<1> QED
  BY <1>1, Inductive, PTL

\* Whatever fails, is repeated or was left under way by an earlier process, the
\* list of users names no account that is deleted (settingsPage.dart,
\* _deleteAccount).
THEOREM ListedHaveAccounts == Spec => []DocsHaveAccounts
<1>1. IInv => DocsHaveAccounts
  BY DEF IInv, ListInv
<1> QED
  BY <1>1, Inductive, PTL

\* Whoever has signed out or deleted the account is not shown as online until
\* signed in again, unless a gate was built or a login was under way meanwhile
\* (settingsPage.dart, _signOut and _deleteAccount; main.dart, AuthGate).
THEOREM LeaversStayOffline == Spec => []LeaversNotOnline
<1>1. IInv => LeaversNotOnline
  BY DEF IInv, OutStaysOffline, LeaversNotOnline
<1> QED
  BY <1>1, Inductive, PTL

-----------------------------------------------------------------------------
(***************************************************************************)
(* The pages, the queue of Firestore and the administrator implement the   *)
(* life of an account                                                      *)
(***************************************************************************)

Pending(ms, uid) == \E i \in 1..Len(ms) : ms[i].op = "set" /\ ms[i].uid = uid

Lives == [uid \in Uids |-> Life(uid)]

\* An account goes on in its life, and no other does.
Moves(uid, from, to) ==
  /\ Life(uid) \in from
  /\ \A x \in Uids : Life(x)' = IF x = uid THEN to ELSE Life(x)

Lived ==
  \/ \A x \in Uids : Life(x)' = Life(x)
  \/ \E uid \in Uids :
       \/ Moves(uid, {"none"}, "new") \/ Moves(uid, {"new"}, "listed")
       \/ Moves(uid, {"new", "listed"}, "unlisted") \/ Moves(uid, {"unlisted"}, "gone")

LEMMA RegistryStep ==
  ASSUME Lived
  PROVE  [Registry!Next]_Lives
<1>1. ASSUME NEW uid \in Uids, NEW from, NEW to, Moves(uid, from, to)
      PROVE  Registry!Moves(uid, from, to)
  <2>1. Lives[uid] \in from /\ Lives' = [Lives EXCEPT ![uid] = to]
    BY <1>1 DEF Lives, Moves
  <2> QED
    BY <2>1 DEF Registry!Moves, Lives
<1>2. CASE \A x \in Uids : Life(x)' = Life(x)
  BY <1>2 DEF Lives
<1>3. CASE ~ \A x \in Uids : Life(x)' = Life(x)
  <2>1. PICK uid \in Uids :
          \/ Moves(uid, {"none"}, "new") \/ Moves(uid, {"new"}, "listed")
          \/ Moves(uid, {"new", "listed"}, "unlisted") \/ Moves(uid, {"unlisted"}, "gone")
    BY <1>3 DEF Lived
  <2>2. \/ Registry!Create(uid) \/ Registry!Enlist(uid)
        \/ Registry!Unlist(uid) \/ Registry!Delete(uid)
    BY <1>1, <2>1 DEF Registry!Create, Registry!Enlist, Registry!Unlist, Registry!Delete
  <2> QED
    BY <2>2 DEF Registry!Next
<1> QED
  BY <1>2, <1>3

\* Where an account is in its life, before and after a step.
LEMMA LifeOf ==
  ASSUME TypeOK, TypeOK', NEW uid \in Uids
  PROVE  /\ Life(uid) =
              IF uid \notin DOMAIN accounts THEN "none"
              ELSE IF Pending(mutations, uid) THEN "new"
              ELSE IF uid \in docs THEN "listed"
              ELSE IF accounts[uid].state # "deleted" THEN "unlisted" ELSE "gone"
         /\ Life(uid)' =
              IF uid \notin DOMAIN accounts' THEN "none"
              ELSE IF Pending(mutations', uid) THEN "new"
              ELSE IF uid \in docs' THEN "listed"
              ELSE IF accounts'[uid].state # "deleted" THEN "unlisted" ELSE "gone"
<1>1. DOMAIN mutations = 1..Len(mutations)
  BY Domains
<1>2. DOMAIN mutations' = 1..Len(mutations')
  BY LenProperties DEF TypeOK
<1> QED
  BY <1>1, <1>2 DEF Life, Pending, Exists

\* Accounts of which nothing changes stay where they are.
LEMMA LifeKept ==
  ASSUME TypeOK, TypeOK', NEW uid \in Uids,
         uid \in DOMAIN accounts' <=> uid \in DOMAIN accounts,
         uid \in DOMAIN accounts =>
           (accounts'[uid].state = "deleted" <=> accounts[uid].state = "deleted"),
         uid \in docs' <=> uid \in docs,
         Pending(mutations', uid) <=> Pending(mutations, uid)
  PROVE  Life(uid)' = Life(uid)
BY LifeOf

LEMMA SetPending ==
  ASSUME ListInv, NEW uid, Pending(mutations, uid)
  PROVE  Exists(uid) /\ uid \notin docs
BY DEF ListInv, SetsLead, Pending

LEMMA CreatedLives ==
  ASSUME TypeOK, ListInv, NEW c \in Slots, NEW e \in Emails, Created(c, e)
  PROVE  Lived
<1>1. PICK new \in Uids : new = Len(accounts) + 1
  BY CreatedType
<1> DEFINE m == [op |-> "set", uid |-> new, by |-> c]
<1>2. /\ TypeOK' /\ Len(accounts') = new /\ m \in Mutation
      /\ \A i \in 1..Len(accounts) : accounts'[i] = accounts[i]
  BY <1>1, CreatedType
<1>3. Mutate(m) /\ docs' = docs /\ m.op = "set" /\ m.uid = new
  BY <1>1 DEF Created
<1> HIDE DEF m
<1>4. /\ Len(mutations') = Len(mutations) + 1 /\ mutations'[Len(mutations')] = m
      /\ \A i \in 1..Len(mutations') : \/ i = Len(mutations') /\ mutations'[i] = m
                                       \/ i \in 1..Len(mutations) /\ mutations'[i] = mutations[i]
  BY <1>2, <1>3, MutateType
<1>5. \A i \in 1..Len(mutations) : i \in 1..Len(mutations') /\ mutations'[i] = mutations[i]
  BY <1>4, Domains
<1>6. /\ DOMAIN accounts = 1..Len(accounts) /\ Len(accounts) \in Nat
      /\ DOMAIN accounts' = 1..Len(accounts')
  <2>1. accounts' \in Seq(Account)
    BY <1>2 DEF TypeOK
  <2> QED
    BY <2>1, Domains, LenProperties
<1>7. \A x \in Uids \ {new} : Life(x)' = Life(x)
  <2> SUFFICES ASSUME NEW x \in Uids \ {new}
               PROVE  Life(x)' = Life(x)
    OBVIOUS
  <2>1. /\ x \in DOMAIN accounts' <=> x \in DOMAIN accounts
        /\ x \in DOMAIN accounts => accounts'[x] = accounts[x]
    BY <1>1, <1>2, <1>6 DEF Uids
  <2>2. Pending(mutations', x) <=> Pending(mutations, x)
    BY <1>3, <1>4, <1>5 DEF Pending
  <2> QED
    BY <1>2, <1>3, <2>1, <2>2, LifeKept
<1>8. Life(new) = "none" /\ Life(new)' = "new"
  <2>1. new \notin DOMAIN accounts /\ new \in DOMAIN accounts'
    BY <1>1, <1>2, <1>6
  <2>2. Pending(mutations', new)
    <3>1. Len(mutations') \in 1..Len(mutations')
      BY <1>4, Domains
    <3> QED
      BY <1>3, <1>4, <3>1 DEF Pending
  <2> QED
    BY <1>2, <2>1, <2>2, LifeOf
<1> QED
  BY <1>7, <1>8 DEF Lived, Moves

\* The oldest write is answered: for other accounts nothing changes.
LEMMA TailLives ==
  ASSUME TypeOK, TypeOK', ListInv, mutations # <<>>, mutations' = Tail(mutations),
         accounts' = accounts, NEW uid \in Uids, uid = Head(mutations).uid,
         \A x \in Uids : x # uid => (x \in docs' <=> x \in docs)
  PROVE  /\ \A x \in Uids : x # uid => Life(x)' = Life(x)
         /\ uid \in DOMAIN accounts /\ ~Pending(mutations', uid)
         /\ Pending(mutations, uid) <=> Head(mutations).op = "set"
<1> DEFINE m == Head(mutations)
           t == Tail(mutations)
<1>1. /\ m = mutations[1] /\ 1 \in 1..Len(mutations) /\ Len(t) = Len(mutations) - 1
      /\ \A i \in 1..Len(t) : i + 1 \in 1..Len(mutations) /\ t[i] = mutations[i + 1]
      /\ Len(mutations) \in Nat
  BY OldestOf, Domains DEF TypeOK
<1>2. OldestFits(m, t)
  BY OldestMutation
<1>3. m.uid = uid
  OBVIOUS
<1> HIDE DEF m, t
<1>4. \A i \in 1..Len(mutations) : \/ i = 1 /\ mutations[i] = m
                                   \/ i - 1 \in 1..Len(t) /\ mutations[i] = t[i - 1]
  <2> SUFFICES ASSUME NEW i \in 1..Len(mutations), i # 1
               PROVE  i - 1 \in 1..Len(t) /\ mutations[i] = t[i - 1]
    BY <1>1
  <2>1. i - 1 \in 1..Len(t) /\ i - 1 + 1 = i
    BY <1>1
  <2> QED
    BY <1>1, <2>1
<1>5. ~Pending(t, uid)
  BY <1>2, <1>3 DEF OldestFits, Pending
<1>6. Pending(mutations, uid) <=> m.op = "set"
  <2>1. m.op = "set" => Pending(mutations, uid)
    BY <1>1, <1>3 DEF Pending
  <2>2. Pending(mutations, uid) => m.op = "set"
    BY <1>4, <1>5 DEF Pending
  <2> QED
    BY <2>1, <2>2
<1>7. \A x \in Uids : x # uid => Life(x)' = Life(x)
  <2> SUFFICES ASSUME NEW x \in Uids, x # uid
               PROVE  Life(x)' = Life(x)
    OBVIOUS
  <2>1. Pending(t, x) => Pending(mutations, x)
    BY <1>1 DEF Pending
  <2>2. Pending(mutations, x) => Pending(t, x)
    BY <1>3, <1>4 DEF Pending
  <2>3. mutations' = t
    BY DEF t
  <2> QED
    BY <2>1, <2>2, <2>3, LifeKept
<1> QED
  BY <1>2, <1>3, <1>5, <1>6, <1>7 DEF OldestFits, m, t

LEMMA MutationsLive ==
  ASSUME TypeOK, ListInv, MutationStored \/ MutationRefused
  PROVE  Lived
<1> DEFINE m == Head(mutations)
<1>1. /\ TypeOK' /\ mutations # <<>> /\ mutations' = Tail(mutations) /\ m \in Mutation
      /\ accounts' = accounts
      /\ \/ docs' = docs
         \/ m.op = "set" /\ docs' = docs \union {m.uid}
         \/ m.op = "delete" /\ docs' = docs \ {m.uid}
  <2>1. CASE MutationStored
    BY <2>1, MutationStoredType DEF MutationStored
  <2>2. CASE MutationRefused
    BY <2>2, MutationRefusedType DEF MutationRefused, server
  <2> QED
    BY <2>1, <2>2
<1>2. PICK uid \in Uids : uid = m.uid
  BY <1>1 DEF Mutation
<1>3. OldestFits(m, Tail(mutations))
  BY <1>1, OldestMutation
<1>4. m.op \in {"set", "delete"}
  BY <1>1 DEF Mutation
<1>5. /\ \A x \in Uids : x # uid => Life(x)' = Life(x)
      /\ uid \in DOMAIN accounts /\ ~Pending(mutations', uid)
      /\ Pending(mutations, uid) <=> m.op = "set"
  BY <1>1, <1>2, TailLives
<1> HIDE DEF m
<1>6. CASE m.op = "set"
  <2>1. Exists(uid) /\ uid \notin docs
    BY <1>2, <1>3, <1>6 DEF OldestFits
  <2>2. Life(uid) = "new"
    BY <1>1, <1>5, <1>6, LifeOf
  <2>3. Life(uid)' \in {"listed", "unlisted"}
    BY <1>1, <1>5, <2>1, LifeOf DEF Exists
  <2> QED
    BY <1>5, <2>2, <2>3 DEF Lived, Moves
<1>7. CASE m.op = "delete"
  <2>1. CASE uid \in docs /\ uid \notin docs'
    <3>1. Exists(uid)
      BY <2>1 DEF ListInv, DocsHaveAccounts
    <3>2. Life(uid) = "listed"
      BY <1>1, <1>5, <1>7, <2>1, LifeOf
    <3>3. Life(uid)' = "unlisted"
      BY <1>1, <1>5, <2>1, <3>1, LifeOf DEF Exists
    <3> QED
      BY <1>5, <3>2, <3>3 DEF Lived, Moves
  <2>2. CASE uid \in docs <=> uid \in docs'
    <3>1. Life(uid)' = Life(uid)
      BY <1>1, <1>5, <1>7, <2>2, LifeKept
    <3> QED
      BY <1>5, <3>1 DEF Lived
  <2> QED
    BY <1>1, <1>7, <2>1, <2>2
<1> QED
  BY <1>4, <1>6, <1>7

LEMMA AccountDeletedLives ==
  ASSUME TypeOK, ListInv, NEW c \in Slots, AccountDeleted(c)
  PROVE  Lived
<1>1. PICK uid \in Uids : uid = calls[c].uid
  BY AccountDeletedType
<1>2. /\ TypeOK' /\ calls[c].op = "end" /\ uid \in 1..Len(accounts)
      /\ Len(accounts') = Len(accounts) /\ accounts'[uid].state = "deleted"
      /\ \A i \in 1..Len(accounts) : i # uid => accounts'[i] = accounts[i]
  BY <1>1, AccountDeletedType
<1>3. UNCHANGED <<docs, mutations>> /\ Exists(uid)
  BY <1>1 DEF AccountDeleted
<1>4. DOMAIN accounts = 1..Len(accounts) /\ DOMAIN accounts' = 1..Len(accounts')
  <2>1. accounts' \in Seq(Account)
    BY <1>2 DEF TypeOK
  <2> QED
    BY <2>1, Domains, LenProperties
<1>5. uid \notin docs /\ ~Pending(mutations, uid)
  BY <1>1, <1>2 DEF ListInv, EndersUnlisted, Pending
<1>6. \A x \in Uids : x # uid => Life(x)' = Life(x)
  BY <1>2, <1>3, <1>4, LifeKept
<1>7. Life(uid) = "unlisted" /\ Life(uid)' = "gone"
  BY <1>2, <1>3, <1>4, <1>5, LifeOf DEF Exists
<1> QED
  BY <1>6, <1>7 DEF Lived, Moves

LEMMA AdminDeletesLives ==
  ASSUME TypeOK, ListInv, NEW uid \in Uids, AdminDeletes(uid)
  PROVE  Lived
<1>1. /\ TypeOK' /\ uid \in docs /\ docs' = docs \ {uid}
      /\ UNCHANGED <<accounts, mutations>>
  BY AdminDeletesType DEF AdminDeletes
<1>2. Exists(uid) /\ ~Pending(mutations, uid)
  BY <1>1, SetPending DEF ListInv, DocsHaveAccounts
<1>3. \A x \in Uids : x # uid => Life(x)' = Life(x)
  BY <1>1, LifeKept
<1>4. Life(uid) = "listed" /\ Life(uid)' = "unlisted"
  BY <1>1, <1>2, LifeOf DEF Exists
<1> QED
  BY <1>3, <1>4 DEF Lived, Moves

\* Every other step leaves every account where it is.
LEMMA OthersLive ==
  ASSUME TypeOK, TypeOK', docs' = docs, DOMAIN accounts' = DOMAIN accounts,
         \A x \in DOMAIN accounts :
           accounts'[x].state = "deleted" <=> accounts[x].state = "deleted",
         \A x \in Uids : Pending(mutations', x) <=> Pending(mutations, x)
  PROVE  Lived
BY LifeKept DEF Lived

LEMMA PressDeleteLives ==
  ASSUME TypeOK, NEW c \in Slots, PressDelete(c)
  PROVE  Lived
<1> DEFINE m == [op |-> "delete", uid |-> Last(stack).user, by |-> c]
<1>1. TypeOK' /\ m \in Mutation
  BY PressDeleteType
<1>2. Mutate(m) /\ UNCHANGED <<docs, accounts>> /\ m.op = "delete"
  BY DEF PressDelete, server
<1> HIDE DEF m
<1>3. /\ Len(mutations') = Len(mutations) + 1
      /\ \A i \in 1..Len(mutations') : \/ i = Len(mutations') /\ mutations'[i] = m
                                       \/ i \in 1..Len(mutations) /\ mutations'[i] = mutations[i]
  BY <1>1, <1>2, MutateType
<1>4. \A i \in 1..Len(mutations) :
        i \in 1..Len(mutations') /\ mutations'[i] = mutations[i]
  BY <1>3, Domains
<1>5. \A x \in Uids : Pending(mutations', x) <=> Pending(mutations, x)
  BY <1>2, <1>3, <1>4 DEF Pending
<1> QED
  BY <1>1, <1>2, <1>5, OthersLive

LEMMA KillLives ==
  ASSUME TypeOK, Kill
  PROVE  Lived
<1>1. /\ TypeOK' /\ Len(mutations') = Len(mutations)
      /\ \A i \in 1..Len(mutations) : /\ mutations'[i].op = mutations[i].op
                                      /\ mutations'[i].uid = mutations[i].uid
  BY KillType
<1>2. UNCHANGED <<docs, accounts>>
  BY DEF Kill
<1>3. \A x \in Uids : Pending(mutations', x) <=> Pending(mutations, x)
  BY <1>1 DEF Pending
<1> QED
  BY <1>1, <1>2, <1>3, OthersLive

LEMMA VerifyLives ==
  ASSUME TypeOK, NEW uid \in Uids, Verify(uid)
  PROVE  Lived
<1>1. /\ TypeOK' /\ Len(accounts') = Len(accounts)
      /\ \A i \in 1..Len(accounts) :
           accounts'[i].state = "deleted" <=> accounts[i].state = "deleted"
  BY VerifyType
<1>2. DOMAIN accounts = 1..Len(accounts) /\ DOMAIN accounts' = 1..Len(accounts')
  <2>1. accounts' \in Seq(Account)
    BY <1>1 DEF TypeOK
  <2> QED
    BY <2>1, Domains, LenProperties
<1>3. UNCHANGED <<docs, mutations>>
  BY DEF Verify
<1> QED
  BY <1>1, <1>2, <1>3, OthersLive

LEMMA StepLives ==
  ASSUME IInv, IInv', [Next]_vars
  PROVE  Lived
<1>1. TypeOK /\ TypeOK' /\ ListInv
  BY DEF IInv
<1>2. CASE UNCHANGED <<accounts, docs, mutations>>
  BY <1>1, <1>2, OthersLive
<1>3. ASSUME NEW c \in Slots, NEW e \in Emails, Created(c, e)
      PROVE  Lived
  BY <1>1, <1>3, CreatedLives
<1>4. ASSUME NEW c \in Slots, PressDelete(c)
      PROVE  Lived
  BY <1>1, <1>4, PressDeleteLives
<1>5. ASSUME NEW c \in Slots, AccountDeleted(c)
      PROVE  Lived
  BY <1>1, <1>5, AccountDeletedLives
<1>6. CASE MutationStored \/ MutationRefused
  BY <1>1, <1>6, MutationsLive
<1>7. CASE Kill
  BY <1>1, <1>7, KillLives
<1>8. ASSUME NEW uid \in Uids, Verify(uid) \/ AdminDeletes(uid)
      PROVE  Lived
  BY <1>1, <1>8, VerifyLives, AdminDeletesLives
<1>9. CASE OpenSettings \/ OpenLogin \/ OpenRegister \/ Back \/ LoginInstead \/ WithoutLogin
           \/ WriteStored \/ WriteRefused \/ Connect \/ ConnectionLost \/ ServerNotices \/ StartApp
  <2>1. UNCHANGED <<accounts, docs, mutations>>
    BY <1>9 DEF OpenSettings, OpenLogin, OpenRegister, Back, LoginInstead, WithoutLogin,
       WriteStored, WriteRefused, Connect, ConnectionLost, ServerNotices, StartApp, server
  <2> QED
    BY <1>2, <2>1
<1>10. ASSUME NEW c \in Slots,
              \/ PressRegister(c) \/ MailSent(c) \/ PressLogin(c) \/ RoleRead(c)
              \/ SignOutUnverified(c) \/ PressDarkMode(c) \/ AppRebuilt(c) \/ PressSignOut(c)
              \/ SignedOut(c) \/ CallFails(c)
              \/ \E uid \in Uids : SignedIn(c, uid)
              \/ \E rememberMe \in BOOLEAN : RememberStored(c, rememberMe)
       PROVE  Lived
  <2>1. UNCHANGED <<accounts, docs, mutations>>
    BY <1>10 DEF PressRegister, MailSent, PressLogin, SignedIn, RoleRead, SignOutUnverified,
       RememberStored, PressDarkMode, AppRebuilt, PressSignOut, SignedOut, CallFails, server
  <2> QED
    BY <1>2, <2>1
<1>11. CASE UNCHANGED vars
  BY <1>2, <1>11 DEF vars
<1> QED
  BY <1>3, <1>4, <1>5, <1>6, <1>7, <1>8, <1>9, <1>10, <1>11 DEF Next

\* Whatever fails and whenever the process ends, an account goes through its life
\* once and in order: no document is written twice or after its deletion, and
\* none outlives its account (registerPage.dart, _register; settingsPage.dart,
\* _deleteAccount; adminDashboard.dart, the deletion of a user).
THEOREM RefinesRegistry == Spec => ImplementsRegistry
<1>1. Init => Registry!Init
  <2> SUFFICES ASSUME Init
               PROVE  \A uid \in Uids : Life(uid) = "none"
    BY DEF Registry!Init
  <2>1. DOMAIN accounts = {}
    BY DEF Init
  <2> QED
    BY <2>1 DEF Life
<1>2. IInv /\ IInv' /\ [Next]_vars => [Registry!Next]_Lives
  BY StepLives, RegistryStep
<1>3. IInv /\ IInv' /\ [Next]_vars => [Registry!Next]_([uid \in Uids |-> Life(uid)])
  BY <1>2 DEF Lives
<1> QED
  BY <1>1, <1>3, Inductive, PTL DEF Spec, ImplementsRegistry, Registry!Spec
=============================================================================
