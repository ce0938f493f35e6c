------------------------- MODULE SupportChat_proof -------------------------
(***************************************************************************)
(* Proofs about SupportChat for any users, messages, screens and sends:    *)
(* what the seen mark and a dark badge mean.                               *)
(***************************************************************************)
EXTENDS SupportChat, SequenceTheorems, TLAPS

(***************************************************************************)
(* The inductive invariant                                                 *)
(***************************************************************************)

\* Every time that is kept somewhere is a time of the past.
Timely ==
  \A u \in Users :
    /\ \A m \in chat[u] : m.at <= clock[u]
    /\ \A t \in marks[u] : t <= clock[u]

\* So are the times that say what the administrator has seen.
KnownTimes ==
  \A u \in Users :
    lastSeen[u] <= clock[u] /\ tile[u] <= clock[u] /\ taps[u].at <= clock[u]

\* What the list on the screen holds has been on the screen.
ReadOnTop == \A u \in Users : Shows(u) => TimesOf(u) \subseteq read[u]

OnScreen(u, t) == \E i \in 1..Len(screens) : screens[i].of = u /\ t <= screens[i].at

\* Why the message of time t is not forgotten while it is unread.  The tile may
\* know the time that is being stored, before it is.
Minded(u, t) ==
  \/ t > lastSeen[u] /\ t > tile[u]
  \/ taps[u].step = "set" /\ t > lastSeen[u] /\ tile[u] = taps[u].at
  \/ taps[u].step = "push" /\ t <= taps[u].at
  \/ OnScreen(u, t)
  \/ t \in missed[u]

UnreadIsMinded ==
  \A u \in Users : \A m \in chat[u] :
    m.from = "user" /\ m.at \notin read[u] => Minded(u, m.at)

IInv ==
  /\ TypeOK
  /\ Timely
  /\ KnownTimes
  /\ ReadOnTop
  /\ SeenMeansShown
  /\ UnreadIsMinded

-----------------------------------------------------------------------------
(* Lemmas *)

\* What the history of the screen keeps and gains in a step.
LEMMA ObserveStep ==
  ASSUME TypeOK, Observe, chat' \in [Users -> SUBSET Message]
  PROVE  /\ read' \in [Users -> SUBSET Times]
         /\ \A u \in Users : read[u] \subseteq read'[u]
         /\ ReadOnTop'
<1>1. \A u \in Users : TimesOf(u)' \subseteq Times
  BY DEF Message, TimesOf
<1>2. read \in [Users -> SUBSET Times]
  BY DEF TypeOK
<1>3. read' = [u \in Users |-> read[u] \union IF Shows(u)' THEN TimesOf(u)' ELSE {}]
  BY DEF Observe
<1>4. read' \in [Users -> SUBSET Times]
  BY <1>1, <1>2, <1>3
<1>5. \A u \in Users : Shows(u)' => TimesOf(u)' \subseteq read'[u]
  BY <1>3
<1> QED
  BY <1>3, <1>4, <1>5 DEF ReadOnTop

\* A step keeps unread messages minded, if it adds none and drops no reason.
LEMMA MindedStep ==
  ASSUME IInv, Observe, chat' \in [Users -> SUBSET Message],
         \A u \in Users : \A m \in chat'[u] :
           \E k \in chat[u] : k.at = m.at /\ k.from = m.from,
         \A u \in Users : \A t \in TimesOf(u) \ read[u] :
           Minded(u, t) => Minded(u, t)'
  PROVE  UnreadIsMinded'
<1> SUFFICES ASSUME NEW u \in Users, NEW m \in chat'[u],
                    m.from = "user", m.at \notin read'[u]
             PROVE  Minded(u, m.at)'
  BY DEF UnreadIsMinded
<1>1. PICK k \in chat[u] : k.at = m.at /\ k.from = m.from
  OBVIOUS
<1>2. m.at \notin read[u]
  BY ObserveStep DEF IInv
<1>3. m.at \in TimesOf(u)
  BY <1>1 DEF TimesOf
<1>4. Minded(u, k.at)
  BY <1>1, <1>2 DEF IInv, UnreadIsMinded
<1>5. Minded(u, m.at)
  BY <1>1, <1>4
<1> QED
  BY <1>2, <1>3, <1>5

\* A step of the administrator touches no message, mark or clock.
LEMMA AdminStep ==
  ASSUME IInv, Observe,
         UNCHANGED <<chat, clock, sends, marks, pages, shown>>,
         lastSeen' \in [Users -> Known], listed' \subseteq Users,
         tile' \in [Users -> Known], taps' \in [Users -> Tap],
         screens' \in Seq(Screen), missed' \in [Users -> SUBSET Times],
         KnownTimes',
         \A u \in Users : \A t \in TimesOf(u) \ read[u] :
           Minded(u, t) => Minded(u, t)'
  PROVE  IInv'
<1>1. chat' \in [Users -> SUBSET Message]
  BY DEF IInv, TypeOK
<1>2. read' \in [Users -> SUBSET Times] /\ ReadOnTop'
  BY <1>1, ObserveStep DEF IInv
<1>3. TypeOK'
  BY <1>1, <1>2 DEF IInv, TypeOK
<1>4. Timely' /\ SeenMeansShown'
  BY DEF IInv, Timely, SeenMeansShown
<1>5. UnreadIsMinded'
  BY <1>1, MindedStep
<1> QED
  BY <1>2, <1>3, <1>4, <1>5 DEF IInv

\* A step of a user adds no message and leaves what the dashboard knows.
LEMMA UserStep ==
  ASSUME IInv, Observe,
         UNCHANGED <<clock, lastSeen, listed, tile, taps, screens, missed>>,
         chat' \in [Users -> SUBSET Message],
         sends' \in [Users -> [Senders -> 0..MaxSends]],
         marks' \in [Users -> SUBSET Times], pages' \subseteq Users,
         shown' \in [Users -> SUBSET Times],
         \A u \in Users : \A m \in chat'[u] :
           \E k \in chat[u] : k.at = m.at /\ k.from = m.from,
         \A u \in Users : \A t \in marks'[u] : t <= clock[u],
         SeenMeansShown'
  PROVE  IInv'
<1>1. read' \in [Users -> SUBSET Times] /\ ReadOnTop'
  BY ObserveStep DEF IInv
<1>2. TypeOK'
  BY <1>1 DEF IInv, TypeOK
<1>3. Timely' /\ KnownTimes'
  BY DEF IInv, Timely, KnownTimes
<1>4. UnreadIsMinded'
  <2>1. \A u \in Users : \A t \in TimesOf(u) \ read[u] : Minded(u, t) => Minded(u, t)'
    BY DEF Minded, OnScreen
  <2> QED
    BY <2>1, MindedStep
<1> QED
  BY <1>1, <1>2, <1>3, <1>4 DEF IInv

\* What the types and the clocks say of the times the dashboard keeps.
LEMMA TimesKnown ==
  ASSUME IInv, NEW u \in Users
  PROVE  /\ clock[u] \in Nat /\ lastSeen[u] \in Nat /\ tile[u] \in Nat
         /\ taps[u].at \in Known /\ taps[u].at \in Nat
         /\ lastSeen[u] <= clock[u] /\ tile[u] <= clock[u] /\ taps[u].at <= clock[u]
         /\ \A t \in TimesOf(u) : t \in Times /\ t \in Nat /\ t > 0 /\ t <= clock[u]
<1>1. MaxMessages \in Nat
  BY BoundsAssumption
<1>2. clock[u] \in Known /\ lastSeen[u] \in Known /\ tile[u] \in Known /\ taps[u] \in Tap
  BY DEF IInv, TypeOK
<1>3. taps[u].at \in Known
  BY <1>2 DEF Tap
<1>4. \A m \in chat[u] : m.at \in Times /\ m.at <= clock[u]
  BY DEF IInv, TypeOK, Timely, Message
<1>5. \A t \in TimesOf(u) : t \in Times /\ t <= clock[u]
  BY <1>4 DEF TimesOf
<1>6. \A t \in Times : t \in Nat /\ t > 0
  BY <1>1 DEF Times
<1>7. \A t \in Known : t \in Nat
  BY <1>1 DEF Known
<1> QED
  BY <1>2, <1>3, <1>5, <1>6, <1>7 DEF IInv, KnownTimes

\* What goes unread is a set of times.
LEMMA UnreadTimes ==
  ASSUME IInv, NEW u \in Users, NEW at \in Known
  PROVE  Unread(u, at) \subseteq Times
BY TimesKnown DEF Unread

-----------------------------------------------------------------------------
(* The invariant is inductive *)

LEMMA InitHolds == Init => IInv
<1> SUFFICES ASSUME Init PROVE IInv
  OBVIOUS
<1> USE DEF Init
<1>1. MaxMessages \in Nat /\ MaxSends \in Nat
  BY BoundsAssumption
<1>2. NoTap \in Tap /\ NoTap.at = 0
  BY <1>1 DEF NoTap, Tap, Known
<1>3. TypeOK
  BY <1>1, <1>2, EmptySeq DEF TypeOK, Known
<1>4. KnownTimes
  BY <1>2 DEF KnownTimes
<1>5. ReadOnTop
  BY DEF ReadOnTop, TimesOf
<1> QED
  BY <1>3, <1>4, <1>5 DEF IInv, Timely, SeenMeansShown, UnreadIsMinded

\* The page is opened or left, or a message is sent.
LEMMA PageStep ==
  ASSUME IInv, NEW u \in Users, OpenPage(u) \/ ClosePage(u)
  PROVE  IInv'
<1>1. /\ Observe
      /\ UNCHANGED <<clock, lastSeen, listed, tile, taps, screens, missed>>
      /\ UNCHANGED <<chat, sends, marks, shown>>
      /\ pages' \subseteq Users
  BY DEF OpenPage, ClosePage, IInv, TypeOK
<1>2. SeenMeansShown'
  BY <1>1 DEF IInv, SeenMeansShown
<1>3. \A v \in Users : \A m \in chat'[v] :
        \E k \in chat[v] : k.at = m.at /\ k.from = m.from
  BY <1>1
<1>4. \A v \in Users : \A t \in marks'[v] : t <= clock[v]
  BY <1>1 DEF IInv, Timely
<1> QED
  BY <1>1, <1>2, <1>3, <1>4, UserStep DEF IInv, TypeOK

LEMMA SendStep ==
  ASSUME IInv, NEW u \in Users, NEW s \in Senders, Send(u, s)
  PROVE  IInv'
<1>1. /\ Observe
      /\ UNCHANGED <<clock, lastSeen, listed, tile, taps, screens, missed>>
      /\ UNCHANGED <<chat, marks, pages, shown>>
  BY DEF Send
<1>2. /\ sends \in [Users -> [Senders -> 0..MaxSends]]
      /\ sends[u][s] \in 0..MaxSends /\ sends[u][s] < MaxSends
      /\ sends' = [sends EXCEPT ![u][s] = sends[u][s] + 1]
  BY DEF IInv, TypeOK, Send
<1>3. sends[u][s] + 1 \in 0..MaxSends
  BY <1>2, BoundsAssumption
<1>4. sends' \in [Users -> [Senders -> 0..MaxSends]]
  BY <1>2, <1>3
<1>5. SeenMeansShown'
  BY <1>1 DEF IInv, SeenMeansShown
<1>6. \A v \in Users : \A m \in chat'[v] :
        \E k \in chat[v] : k.at = m.at /\ k.from = m.from
  BY <1>1
<1>7. \A v \in Users : \A t \in marks'[v] : t <= clock[v]
  BY <1>1 DEF IInv, Timely
<1> QED
  BY <1>1, <1>4, <1>5, <1>6, <1>7, UserStep DEF IInv, TypeOK

\* A bubble that is built marks its own message, and that message is shown.
LEMMA BuildBubbleStep ==
  ASSUME IInv, NEW u \in Users, NEW m \in chat[u], BuildBubble(u, m)
  PROVE  IInv'
<1>1. /\ Observe
      /\ UNCHANGED <<clock, lastSeen, listed, tile, taps, screens, missed>>
      /\ UNCHANGED <<chat, sends, pages>>
      /\ shown' = [shown EXCEPT ![u] = @ \union {m.at}]
      /\ Mark(u, {m})
  BY DEF BuildBubble
<1>2. /\ marks \in [Users -> SUBSET Times] /\ shown \in [Users -> SUBSET Times]
      /\ m.at \in Times /\ m.at <= clock[u]
  BY DEF IInv, TypeOK, Message, Timely
<1>3. /\ \A v \in Users \ {u} : marks'[v] = marks[v]
      /\ marks'[u] \subseteq marks[u] \union {m.at}
      /\ marks' \in [Users -> SUBSET Times]
  BY <1>1, <1>2 DEF Mark
<1>4. /\ \A v \in Users : shown[v] \subseteq shown'[v]
      /\ m.at \in shown'[u]
      /\ shown' \in [Users -> SUBSET Times]
  BY <1>1, <1>2
<1>5. SeenMeansShown'
  <2>1. ASSUME NEW v \in Users, NEW k \in chat[v], k.seen \/ k.at \in marks'[v]
        PROVE  k.at \in shown'[v]
    <3>1. CASE k.at \in marks'[v] /\ k.at \notin marks[v]
      <4>1. v = u
        BY <1>3, <3>1
      <4> QED
        BY <1>3, <1>4, <3>1, <4>1
    <3>2. CASE k.seen \/ k.at \in marks[v]
      BY <1>4, <3>2 DEF IInv, SeenMeansShown
    <3> QED
      BY <2>1, <3>1, <3>2
  <2> QED
    BY <1>1, <2>1 DEF SeenMeansShown
<1>6. \A v \in Users : \A k \in chat'[v] :
        \E n \in chat[v] : n.at = k.at /\ n.from = k.from
  BY <1>1
<1>7. \A v \in Users : \A t \in marks'[v] : t <= clock[v]
  BY <1>2, <1>3 DEF IInv, Timely
<1> QED
  BY <1>1, <1>3, <1>4, <1>5, <1>6, <1>7, UserStep DEF IInv, TypeOK

\* A deletion takes messages away and changes nothing else.
LEMMA DeleteMessageStep ==
  ASSUME IInv, NEW u \in Users, NEW m \in chat[u], DeleteMessage(u, m)
  PROVE  IInv'
<1>1. /\ Observe
      /\ UNCHANGED <<clock, lastSeen, listed, tile, taps, screens, missed>>
      /\ UNCHANGED <<sends, marks, pages, shown>>
      /\ chat' = [chat EXCEPT ![u] = @ \ {m}]
  BY DEF DeleteMessage
<1>2. /\ chat' \in [Users -> SUBSET Message]
      /\ \A v \in Users : chat'[v] \subseteq chat[v]
  BY <1>1 DEF IInv, TypeOK
<1>3. SeenMeansShown'
  BY <1>1, <1>2 DEF IInv, SeenMeansShown
<1>4. \A v \in Users : \A k \in chat'[v] :
        \E n \in chat[v] : n.at = k.at /\ n.from = k.from
  BY <1>2
<1>5. \A v \in Users : \A t \in marks'[v] : t <= clock[v]
  BY <1>1 DEF IInv, Timely
<1> QED
  BY <1>1, <1>2, <1>3, <1>4, <1>5, UserStep DEF IInv, TypeOK

\* A stored mark changes the mark of the messages of its time, and of those only.
LEMMA MarkStoredStep ==
  ASSUME IInv, NEW u \in Users, NEW t \in Times, MarkStored(u, t)
  PROVE  IInv'
<1> DEFINE marked(m) == IF m.at = t THEN [m EXCEPT !.seen = TRUE] ELSE m
<1>1. /\ Observe
      /\ UNCHANGED <<clock, lastSeen, listed, tile, taps, screens, missed>>
      /\ UNCHANGED <<sends, pages, shown>>
      /\ t \in marks[u]
      /\ marks' = [marks EXCEPT ![u] = @ \ {t}]
      /\ chat' = [chat EXCEPT ![u] = {marked(m) : m \in @}]
  BY DEF MarkStored
<1>2. /\ chat \in [Users -> SUBSET Message]
      /\ marks \in [Users -> SUBSET Times]
  BY DEF IInv, TypeOK
<1>3. ASSUME NEW m \in Message
      PROVE  /\ marked(m) \in Message
             /\ marked(m).at = m.at /\ marked(m).from = m.from
             /\ m.at # t => marked(m) = m
  BY DEF Message
<1> HIDE DEF marked
<1>4. /\ chat'[u] = {marked(m) : m \in chat[u]}
      /\ \A v \in Users \ {u} : chat'[v] = chat[v]
  BY <1>1, <1>2
<1>5. /\ chat' \in [Users -> SUBSET Message]
      /\ \A v \in Users : marks'[v] \subseteq marks[v]
      /\ marks' \in [Users -> SUBSET Times]
  BY <1>1, <1>2, <1>3
<1>6. ASSUME NEW v \in Users, NEW m \in chat'[v]
      PROVE  \E k \in chat[v] : /\ k.at = m.at /\ k.from = m.from
                                /\ v # u \/ m.at # t => m = k
  <2>1. CASE v # u
    <3>1. m \in chat[v]
      BY <1>4, <1>6, <2>1
    <3> QED
      BY <2>1, <3>1
  <2>2. CASE v = u
    <3>1. PICK k \in chat[u] : m = marked(k)
      BY <1>4, <1>6, <2>2
    <3>2. k \in Message
      BY <1>2
    <3>3. m.at = k.at /\ m.from = k.from /\ (k.at # t => m = k)
      BY <1>3, <3>1, <3>2
    <3> QED
      BY <2>2, <3>1, <3>3
  <2> QED
    BY <2>1, <2>2
<1>7. SeenMeansShown'
  <2>1. ASSUME NEW v \in Users, NEW m \in chat'[v],
               m.seen \/ m.at \in marks'[v]
        PROVE  m.at \in shown[v]
    <3>1. PICK k \in chat[v] : /\ k.at = m.at
                               /\ v # u \/ m.at # t => m = k
      BY <1>6
    <3>2. k.seen \/ k.at \in marks[v]
      BY <1>1, <1>5, <2>1, <3>1
    <3> QED
      BY <3>1, <3>2 DEF IInv, SeenMeansShown
  <2> QED
    BY <1>1, <2>1 DEF SeenMeansShown
<1>8. \A v \in Users : \A m \in chat'[v] :
        \E k \in chat[v] : k.at = m.at /\ k.from = m.from
  BY <1>6
<1>9. \A v \in Users : \A s \in marks'[v] : s <= clock[v]
  BY <1>5 DEF IInv, Timely
<1> QED
  BY <1>1, <1>5, <1>7, <1>8, <1>9, UserStep DEF IInv, TypeOK

\* A message that arrives is newer than every time that is kept.
LEMMA ArriveStep ==
  ASSUME IInv, NEW u \in Users, NEW s \in Senders, Arrive(u, s)
  PROVE  IInv'
<1> DEFINE new == [at |-> clock[u] + 1, from |-> s, seen |-> FALSE]
<1>1. /\ clock[u] \in Known /\ clock[u] < MaxMessages
      /\ clock' = [clock EXCEPT ![u] = @ + 1]
      /\ chat' = [chat EXCEPT ![u] = @ \union {new}]
      /\ chat \in [Users -> SUBSET Message]
      /\ clock \in [Users -> Known]
      /\ MaxMessages \in Nat
      /\ Observe
      /\ UNCHANGED <<marks, pages, lastSeen, listed, tile, taps, screens, shown, missed>>
  BY BoundsAssumption DEF Arrive, IInv, TypeOK
<1>2. new \in Message /\ new.at = clock[u] + 1 /\ ~new.seen
  BY <1>1 DEF Message, Times, Known
<1>3. /\ chat' \in [Users -> SUBSET Message]
      /\ chat'[u] = chat[u] \union {new}
      /\ \A v \in Users \ {u} : chat'[v] = chat[v]
  BY <1>1, <1>2
<1>4. /\ clock' \in [Users -> Known]
      /\ clock'[u] = clock[u] + 1
      /\ \A v \in Users \ {u} : clock'[v] = clock[v]
  BY <1>1 DEF Known
<1>5. \A v \in Users : clock[v] \in Nat /\ clock'[v] \in Nat /\ clock[v] <= clock'[v]
  BY <1>1, <1>4 DEF Known
<1> HIDE DEF new
<1>6. Timely'
  <2>1. ASSUME NEW v \in Users, NEW m \in chat'[v]
        PROVE  m.at <= clock'[v]
    <3>1. CASE m \in chat[v]
      <4>1. m.at \in Nat /\ m.at <= clock[v]
        BY <3>1, <1>1, BoundsAssumption DEF IInv, TypeOK, Timely, Message, Times
      <4> QED
        BY <4>1, <1>5
    <3>2. CASE m \notin chat[v]
      <4>1. v = u /\ m = new
        BY <1>3, <2>1, <3>2
      <4> QED
        BY <1>2, <1>4, <1>5, <4>1
    <3> QED
      BY <3>1, <3>2
  <2>2. ASSUME NEW v \in Users, NEW t \in marks[v]
        PROVE  t <= clock'[v]
    <3>1. t \in Nat /\ t <= clock[v]
      BY <1>1, <2>2 DEF IInv, TypeOK, Timely, Times
    <3> QED
      BY <3>1, <1>5
  <2> QED
    BY <1>1, <2>1, <2>2 DEF Timely
<1>7. SeenMeansShown'
  <2>1. ASSUME NEW v \in Users, NEW m \in chat'[v], m.seen \/ m.at \in marks[v]
        PROVE  m.at \in shown[v]
    <3>1. \A t \in marks[u] : t \in Nat /\ t <= clock[u]
      BY <1>1 DEF IInv, TypeOK, Timely, Times
    <3>2. clock[u] + 1 \notin marks[u]
      BY <1>5, <3>1
    <3>3. ~(v = u /\ m = new)
      BY <1>2, <2>1, <3>2
    <3>4. m \in chat[v]
      BY <1>3, <2>1, <3>3
    <3> QED
      BY <2>1, <3>4 DEF IInv, SeenMeansShown
  <2> QED
    BY <1>1, <2>1 DEF SeenMeansShown
<1>8. KnownTimes'
  <2>1. ASSUME NEW v \in Users
        PROVE  lastSeen[v] <= clock'[v] /\ tile[v] <= clock'[v] /\ taps[v].at <= clock'[v]
    BY <1>5, TimesKnown
  <2> QED
    BY <1>1, <2>1 DEF KnownTimes
<1>9. sends' \in [Users -> [Senders -> 0..MaxSends]]
  <2>1. /\ sends \in [Users -> [Senders -> 0..MaxSends]]
        /\ sends[u][s] \in 0..MaxSends /\ sends[u][s] > 0
        /\ sends' = [sends EXCEPT ![u][s] = sends[u][s] - 1]
    BY DEF IInv, TypeOK, Arrive
  <2>2. sends[u][s] - 1 \in 0..MaxSends
    BY <2>1, BoundsAssumption
  <2> QED
    BY <2>1, <2>2
<1>10. /\ read' \in [Users -> SUBSET Times] /\ ReadOnTop'
       /\ \A v \in Users : read[v] \subseteq read'[v]
  BY <1>1, <1>3, ObserveStep DEF IInv
<1>11. TypeOK'
  BY <1>1, <1>3, <1>4, <1>9, <1>10 DEF IInv, TypeOK
<1>12. UnreadIsMinded'
  <2>1. ASSUME NEW v \in Users, NEW m \in chat'[v],
               m.from = "user", m.at \notin read'[v]
        PROVE  Minded(v, m.at)
    <3>1. CASE m \in chat[v]
      BY <1>10, <2>1, <3>1 DEF IInv, UnreadIsMinded
    <3>2. CASE m \notin chat[v]
      <4>1. v = u /\ m.at = clock[u] + 1
        BY <1>2, <1>3, <2>1, <3>2
      <4>2. m.at > lastSeen[u] /\ m.at > tile[u]
        BY <4>1, TimesKnown
      <4> QED
        BY <4>1, <4>2 DEF Minded
    <3> QED
      BY <3>1, <3>2
  <2> QED
    BY <1>1, <2>1 DEF UnreadIsMinded, Minded, OnScreen
<1> QED
  BY <1>6, <1>7, <1>8, <1>10, <1>11, <1>12 DEF IInv

\* The tile reads what is stored, or what is about to be.
LEMMA BuildTileStep ==
  ASSUME IInv, NEW u \in Users, BuildTile(u)
  PROVE  IInv'
<1>1. /\ Observe
      /\ UNCHANGED <<chat, clock, sends, marks, pages, lastSeen, listed, taps,
                     screens, shown, missed>>
  BY DEF BuildTile
<1>2. PICK t : /\ t = lastSeen[u] \/ (taps[u].step = "set" /\ t = taps[u].at)
               /\ tile' = [tile EXCEPT ![u] = t]
  <2> DEFINE about == IF taps[u].step = "set" THEN {taps[u].at} ELSE {}
  <2>1. PICK t \in {lastSeen[u]} \union about : tile' = [tile EXCEPT ![u] = t]
    BY DEF BuildTile
  <2>2. t \in about => taps[u].step = "set" /\ t = taps[u].at
    OBVIOUS
  <2> HIDE DEF about
  <2> QED
    BY <2>1, <2>2
<1>3. /\ lastSeen \in [Users -> Known] /\ tile \in [Users -> Known]
      /\ t \in Known /\ t <= clock[u]
  BY <1>2, TimesKnown DEF IInv, TypeOK
<1>4. /\ tile' \in [Users -> Known] /\ tile'[u] = t
      /\ \A v \in Users \ {u} : tile'[v] = tile[v]
  BY <1>2, <1>3
<1>5. KnownTimes'
  BY <1>1, <1>3, <1>4 DEF IInv, KnownTimes
<1>6. ASSUME NEW v \in Users, NEW s \in TimesOf(v) \ read[v], Minded(v, s)
      PROVE  Minded(v, s)'
  <2>1. CASE v # u
    BY <1>1, <1>4, <1>6, <2>1 DEF Minded, OnScreen
  <2>2. CASE v = u
    BY <1>1, <1>2, <1>4, <1>6, <2>2 DEF Minded, OnScreen
  <2> QED
    BY <2>1, <2>2
<1> QED
  BY <1>1, <1>4, <1>5, <1>6, AdminStep DEF IInv, TypeOK

\* A handler begins or learns of the newest message: its await says nothing yet.
LEMMA QueryStep ==
  ASSUME IInv, NEW u \in Users, TapBadge(u) \/ NewestRead(u)
  PROVE  IInv'
<1>1. /\ Observe
      /\ UNCHANGED <<chat, clock, sends, marks, pages, lastSeen, listed, tile,
                     screens, shown, missed>>
  BY DEF TapBadge, NewestRead
<1>2. /\ taps \in [Users -> Tap] /\ taps[u] \in Tap
      /\ taps[u].at \in Known /\ taps[u].at <= clock[u]
  BY TimesKnown DEF IInv, TypeOK
<1>3. taps[u].step \notin {"set", "push"}
  BY DEF TapBadge, NewestRead, NoTap
<1>4. \E tap \in Tap : taps' = [taps EXCEPT ![u] = tap] /\ tap.at <= clock[u]
  <2>1. ASSUME NEW step \in {"query", "set", "push"},
               taps' = [taps EXCEPT ![u].step = step]
        PROVE  <1>4
    <3>1. /\ taps' = [taps EXCEPT ![u] = [taps[u] EXCEPT !.step = step]]
          /\ [taps[u] EXCEPT !.step = step] \in Tap
          /\ [taps[u] EXCEPT !.step = step].at = taps[u].at
      BY <1>2, <2>1 DEF Tap
    <3> QED
      BY <1>2, <3>1
  <2>2. ASSUME NEW t \in Newest(u),
               taps' = [taps EXCEPT ![u] = [step |-> "set", at |-> t]]
        PROVE  <1>4
    <3>1. t \in TimesOf(u)
      BY DEF Newest
    <3>2. t \in Known /\ t <= clock[u]
      BY <3>1, TimesKnown, BoundsAssumption DEF Known, Times
    <3>3. [step |-> "set", at |-> t] \in Tap
      BY <3>2 DEF Tap
    <3> QED
      BY <2>2, <3>2, <3>3
  <2> QED
    BY <2>1, <2>2 DEF TapBadge, NewestRead
<1>5. PICK tap \in Tap : taps' = [taps EXCEPT ![u] = tap] /\ tap.at <= clock[u]
  BY <1>4
<1>6. /\ taps' \in [Users -> Tap] /\ taps'[u] = tap
      /\ \A v \in Users \ {u} : taps'[v] = taps[v]
  BY <1>2, <1>5
<1>7. KnownTimes'
  BY <1>1, <1>5, <1>6 DEF IInv, KnownTimes
<1>8. ASSUME NEW v \in Users, NEW s \in TimesOf(v) \ read[v], Minded(v, s)
      PROVE  Minded(v, s)'
  <2>1. CASE v # u
    BY <1>1, <1>6, <1>8, <2>1 DEF Minded, OnScreen
  <2>2. CASE v = u
    BY <1>1, <1>3, <1>8, <2>2 DEF Minded, OnScreen
  <2> QED
    BY <2>1, <2>2
<1> QED
  BY <1>1, <1>6, <1>7, <1>8, AdminStep DEF IInv, TypeOK

\* When the time is stored the push is due, so nothing of u has to be ahead of it.
LEMMA LastSeenStoredStep ==
  ASSUME IInv, NEW u \in Users, LastSeenStored(u)
  PROVE  IInv'
<1>1. /\ Observe
      /\ UNCHANGED <<chat, clock, sends, marks, pages, tile, screens, shown, missed>>
      /\ taps[u].step = "set"
      /\ lastSeen' = [lastSeen EXCEPT ![u] = taps[u].at]
      /\ listed' = listed \union {u}
      /\ taps' = [taps EXCEPT ![u].step = "push"]
  BY DEF LastSeenStored, Store
<1>2. /\ taps \in [Users -> Tap] /\ lastSeen \in [Users -> Known]
      /\ taps[u].at \in Known /\ taps[u].at \in Nat /\ taps[u].at <= clock[u]
  BY TimesKnown DEF IInv, TypeOK
<1>3. /\ lastSeen' \in [Users -> Known] /\ lastSeen'[u] = taps[u].at
      /\ \A v \in Users \ {u} : lastSeen'[v] = lastSeen[v]
  BY <1>1, <1>2
<1>4. /\ taps' \in [Users -> Tap]
      /\ taps'[u].step = "push" /\ taps'[u].at = taps[u].at
      /\ \A v \in Users \ {u} : taps'[v] = taps[v]
  <2>1. /\ taps' = [taps EXCEPT ![u] = [taps[u] EXCEPT !.step = "push"]]
        /\ [taps[u] EXCEPT !.step = "push"] \in Tap
        /\ [taps[u] EXCEPT !.step = "push"].step = "push"
        /\ [taps[u] EXCEPT !.step = "push"].at = taps[u].at
    BY <1>1, <1>2 DEF Tap
  <2> QED
    BY <1>2, <2>1
<1>5. listed' \subseteq Users
  BY <1>1 DEF IInv, TypeOK
<1>6. KnownTimes'
  BY <1>1, <1>2, <1>3, <1>4 DEF IInv, KnownTimes
<1>7. ASSUME NEW v \in Users, NEW s \in TimesOf(v) \ read[v], Minded(v, s)
      PROVE  Minded(v, s)'
  <2>1. CASE v # u
    BY <1>1, <1>3, <1>4, <1>7, <2>1 DEF Minded, OnScreen
  <2>2. CASE v = u
    <3>1. s \in Nat
      BY TimesKnown
    <3>2. CASE s <= taps[u].at
      BY <1>4, <2>2, <3>2 DEF Minded
    <3>3. CASE s > taps[u].at
      BY <1>1, <1>3, <1>7, <2>2, <3>3 DEF Minded, OnScreen
    <3> QED
      BY <1>2, <3>1, <3>2, <3>3
  <2> QED
    BY <2>1, <2>2
<1> QED
  BY <1>1, <1>3, <1>4, <1>5, <1>6, <1>7, AdminStep DEF IInv, TypeOK

\* The pushed chat takes over what its handler minded.
LEMMA PushChatStep ==
  ASSUME IInv, NEW u \in Users, PushChat(u)
  PROVE  IInv'
<1> DEFINE new == [of |-> u, at |-> taps[u].at, loaded |-> FALSE]
<1>1. /\ Observe
      /\ UNCHANGED <<chat, clock, sends, marks, pages, lastSeen, listed, tile,
                     shown, missed>>
      /\ taps[u].step = "push"
      /\ screens' = Append(screens, new)
      /\ taps' = [taps EXCEPT ![u] = NoTap]
  BY DEF PushChat
<1>2. /\ taps \in [Users -> Tap] /\ screens \in Seq(Screen)
      /\ new \in Screen /\ new.of = u /\ new.at = taps[u].at
  BY TimesKnown DEF IInv, TypeOK, Screen
<1> HIDE DEF new
<1>3. /\ screens' \in Seq(Screen)
      /\ Len(screens') = Len(screens) + 1
      /\ \A i \in 1..Len(screens) : screens'[i] = screens[i]
      /\ screens'[Len(screens) + 1] = new
      /\ Len(screens) \in Nat
  BY <1>1, <1>2, AppendProperties, LenProperties
<1>4. NoTap \in Tap /\ NoTap.at = 0
  BY BoundsAssumption DEF NoTap, Tap, Known
<1>5. /\ taps' \in [Users -> Tap] /\ taps'[u] = NoTap
      /\ \A v \in Users \ {u} : taps'[v] = taps[v]
  BY <1>1, <1>2, <1>4
<1>6. KnownTimes'
  <2>1. 0 <= clock[u]
    BY TimesKnown
  <2> QED
    BY <1>1, <1>4, <1>5, <2>1 DEF IInv, KnownTimes
<1>7. ASSUME NEW v \in Users, NEW s \in TimesOf(v) \ read[v], Minded(v, s)
      PROVE  Minded(v, s)'
  <2>1. OnScreen(v, s) => OnScreen(v, s)'
    BY <1>3 DEF OnScreen
  <2>2. CASE v = u /\ taps[v].step = "push" /\ s <= taps[v].at
    <3>1. Len(screens) + 1 \in 1..Len(screens')
      BY <1>3
    <3>2. OnScreen(v, s)'
      BY <1>2, <1>3, <2>2, <3>1 DEF OnScreen
    <3> QED
      BY <3>2 DEF Minded
  <2>3. CASE v # u
    BY <1>1, <1>5, <1>7, <2>1, <2>3 DEF Minded
  <2>4. CASE v = u /\ ~(taps[v].step = "push" /\ s <= taps[v].at)
    BY <1>1, <1>7, <2>1, <2>4 DEF Minded
  <2> QED
    BY <2>2, <2>3, <2>4
<1> QED
  BY <1>1, <1>3, <1>5, <1>6, <1>7, AdminStep DEF IInv, TypeOK

\* A chat from the list, and a chat that is loaded.
LEMMA ScreenStep ==
  ASSUME IInv,
         \/ \E u \in Users : OpenFromList(u)
         \/ \E i \in 1..Len(screens) : ChatLoaded(i)
  PROVE  IInv'
<1>1. /\ Observe
      /\ UNCHANGED <<chat, clock, sends, marks, pages, lastSeen, listed, tile, taps,
                     shown, missed>>
  BY DEF OpenFromList, ChatLoaded
<1>2. screens \in Seq(Screen)
  BY DEF IInv, TypeOK
<1>3. /\ screens' \in Seq(Screen)
      /\ \A v \in Users : \A s \in Times : OnScreen(v, s) => OnScreen(v, s)'
  <2>1. ASSUME NEW u \in Users, OpenFromList(u)
        PROVE  <1>3
    <3>1. screens = <<>> /\ screens' = <<[of |-> u, at |-> 0, loaded |-> FALSE]>>
      BY <2>1 DEF OpenFromList
    <3>2. [of |-> u, at |-> 0, loaded |-> FALSE] \in Screen
      BY BoundsAssumption DEF Screen, Known
    <3>3. screens' \in Seq(Screen)
      BY <3>1, <3>2
    <3>4. \A v \in Users : \A s \in Times : ~OnScreen(v, s)
      BY <3>1 DEF OnScreen
    <3> QED
      BY <3>3, <3>4
  <2>2. ASSUME NEW i \in 1..Len(screens), ChatLoaded(i)
        PROVE  <1>3
    <3>1. screens' = [screens EXCEPT ![i] = [screens[i] EXCEPT !.loaded = TRUE]]
      BY <2>2 DEF ChatLoaded
    <3>2. screens[i] \in Screen
      BY <1>2, <2>2, ElementOfSeq
    <3>3. [screens[i] EXCEPT !.loaded = TRUE] \in Screen
      BY <3>2 DEF Screen
    <3>4. /\ screens' \in Seq(Screen) /\ Len(screens') = Len(screens)
          /\ \A j \in 1..Len(screens) :
               screens'[j].of = screens[j].of /\ screens'[j].at = screens[j].at
      <4>1. screens' \in Seq(Screen) /\ Len(screens') = Len(screens)
        BY <1>2, <3>1, <3>3
      <4>2. ASSUME NEW j \in 1..Len(screens)
            PROVE  screens'[j].of = screens[j].of /\ screens'[j].at = screens[j].at
        <5>1. screens[j] \in Screen
          BY <1>2, <4>2, ElementOfSeq
        <5>2. screens'[j] = IF j = i THEN [screens[i] EXCEPT !.loaded = TRUE]
                            ELSE screens[j]
          BY <1>2, <3>1
        <5> QED
          BY <5>1, <5>2 DEF Screen
      <4> QED
        BY <4>1, <4>2
    <3> QED
      BY <3>4 DEF OnScreen
  <2> QED
    BY <2>1, <2>2
<1>4. ASSUME NEW v \in Users, NEW s \in TimesOf(v) \ read[v], Minded(v, s)
      PROVE  Minded(v, s)'
  <2>1. s \in Times
    BY TimesKnown
  <2> QED
    BY <1>1, <1>3, <1>4, <2>1 DEF Minded
<1>5. KnownTimes'
  BY <1>1 DEF IInv, KnownTimes
<1> QED
  BY <1>1, <1>3, <1>4, <1>5, AdminStep DEF IInv, TypeOK

\* A chat that was loaded on top has nothing unread; the unread messages of one
\* that was not are missed from now on.
LEMMA CloseChatStep ==
  ASSUME IInv, CloseChat
  PROVE  IInv'
<1> DEFINE top == Last(screens)
           lost == IF top.loaded THEN {} ELSE Unread(top.of, top.at)
<1>1. /\ Observe
      /\ UNCHANGED <<chat, clock, sends, marks, pages, lastSeen, listed, tile, taps,
                     shown>>
      /\ screens # <<>>
      /\ screens' = SubSeq(screens, 1, Len(screens) - 1)
      /\ missed' = [missed EXCEPT ![top.of] = @ \union lost]
  BY DEF CloseChat, Front
<1>2. screens \in Seq(Screen) /\ missed \in [Users -> SUBSET Times]
  BY DEF IInv, TypeOK
<1>3. /\ Len(screens) \in Nat /\ Len(screens) >= 1
      /\ top = screens[Len(screens)]
      /\ \A i \in 1..Len(screens) : screens[i] \in Screen
  BY <1>1, <1>2, LenProperties, EmptySeq, ElementOfSeq DEF Last
<1>4. top \in Screen
  BY <1>3
<1>5. top.of \in Users /\ top.at \in Known
  BY <1>4 DEF Screen
<1>6. lost \subseteq Times
  BY <1>5, UnreadTimes
<1>7. top.loaded => TimesOf(top.of) \subseteq read[top.of]
  BY <1>1, <1>5 DEF IInv, ReadOnTop, Shows, OnTop
<1> HIDE DEF top
<1>8. /\ screens' \in Seq(Screen)
      /\ Len(screens') = Len(screens) - 1
      /\ \A i \in 1..Len(screens) - 1 : screens'[i] = screens[i]
  <2>1. \A i \in 1..Len(screens) - 1 : screens[i] \in Screen
    BY <1>3
  <2>2. /\ screens' \in Seq(Screen)
        /\ Len(screens') = IF 1 <= Len(screens) - 1 THEN Len(screens) - 1 - 1 + 1 ELSE 0
        /\ \A i \in 1..Len(screens) - 1 - 1 + 1 : screens'[i] = screens[1 + i - 1]
    BY <1>1, <1>3, <2>1, SubSeqProperties
  <2>3. Len(screens) - 1 - 1 + 1 = Len(screens) - 1
    BY <1>3
  <2>4. ASSUME NEW i \in 1..Len(screens) - 1
        PROVE  screens'[i] = screens[i]
    <3>1. 1 + i - 1 = i
      BY <1>3
    <3> QED
      BY <2>2, <2>3, <2>4, <3>1
  <2>5. Len(screens') = Len(screens) - 1
    <3>1. CASE 1 <= Len(screens) - 1
      BY <2>2, <2>3, <3>1
    <3>2. CASE ~(1 <= Len(screens) - 1)
      <4>1. Len(screens') = 0
        BY <2>2, <3>2
      <4> QED
        BY <1>3, <3>2, <4>1
    <3> QED
      BY <3>1, <3>2
  <2> QED
    BY <2>2, <2>4, <2>5
<1> HIDE DEF lost
<1>9. /\ missed' \in [Users -> SUBSET Times]
      /\ missed'[top.of] = missed[top.of] \union lost
      /\ \A v \in Users : missed[v] \subseteq missed'[v]
  BY <1>1, <1>2, <1>5, <1>6
<1>10. ASSUME NEW v \in Users, NEW s \in TimesOf(v) \ read[v], Minded(v, s)
       PROVE  Minded(v, s)'
  <2>1. CASE OnScreen(v, s)
    <3>1. PICK i \in 1..Len(screens) : screens[i].of = v /\ s <= screens[i].at
      BY <2>1 DEF OnScreen
    <3>2. CASE i = Len(screens)
      <4>1. top.of = v /\ s <= top.at
        BY <1>3, <3>1, <3>2
      <4>2. ~top.loaded
        BY <1>7, <1>10, <4>1
      <4>3. s \in lost
        BY <1>10, <4>1, <4>2 DEF lost, Unread
      <4> QED
        BY <1>9, <4>1, <4>3 DEF Minded
    <3>3. CASE i # Len(screens)
      <4>1. i \in 1..Len(screens) - 1 /\ i \in 1..Len(screens')
        BY <1>3, <1>8, <3>3
      <4>2. OnScreen(v, s)'
        BY <1>8, <3>1, <4>1 DEF OnScreen
      <4> QED
        BY <4>2 DEF Minded
    <3> QED
      BY <3>2, <3>3
  <2>2. CASE ~OnScreen(v, s)
    BY <1>1, <1>9, <1>10, <2>2 DEF Minded
  <2> QED
    BY <2>1, <2>2
<1>11. KnownTimes'
  BY <1>1 DEF IInv, KnownTimes
<1> QED
  BY <1>1, <1>8, <1>9, <1>10, <1>11, AdminStep DEF IInv, TypeOK

\* A handler that fails drops its reason: what it put out is missed, and what it
\* did not store is lit again.
LEMMA BadgeFailsStep ==
  ASSUME IInv, NEW u \in Users, BadgeFails(u)
  PROVE  IInv'
<1> DEFINE putOut == \/ taps[u].step = "push"
                     \/ taps[u].step = "set" /\ taps[u].at \in {lastSeen'[u], tile[u]}
           lost == IF putOut THEN Unread(u, taps[u].at) ELSE {}
<1>1. /\ Observe
      /\ UNCHANGED <<chat, clock, sends, marks, pages, tile, screens, shown>>
      /\ taps' = [taps EXCEPT ![u] = NoTap]
      /\ missed' = [missed EXCEPT ![u] = @ \union lost]
      /\ \/ /\ taps[u].step = "set"
            /\ lastSeen' = [lastSeen EXCEPT ![u] = taps[u].at]
            /\ listed' = listed \union {u}
         \/ UNCHANGED <<lastSeen, listed>>
  BY DEF BadgeFails, Store
<1>2. /\ taps \in [Users -> Tap] /\ lastSeen \in [Users -> Known]
      /\ missed \in [Users -> SUBSET Times] /\ listed \subseteq Users
      /\ taps[u].at \in Known /\ taps[u].at \in Nat /\ taps[u].at <= clock[u]
      /\ tile[u] \in Nat /\ lastSeen[u] \in Nat
  BY TimesKnown DEF IInv, TypeOK
<1>3. lost \subseteq Times
  BY <1>2, UnreadTimes
<1>4. NoTap \in Tap /\ NoTap.at = 0
  BY BoundsAssumption DEF NoTap, Tap, Known
<1>5. /\ taps' \in [Users -> Tap] /\ taps'[u] = NoTap
      /\ \A v \in Users \ {u} : taps'[v] = taps[v]
  BY <1>1, <1>2, <1>4
<1> HIDE DEF lost
<1>6. /\ missed' \in [Users -> SUBSET Times]
      /\ missed'[u] = missed[u] \union lost
      /\ \A v \in Users : missed[v] \subseteq missed'[v]
  BY <1>1, <1>2, <1>3
<1>7. /\ lastSeen' \in [Users -> Known] /\ listed' \subseteq Users
      /\ \A v \in Users \ {u} : lastSeen'[v] = lastSeen[v]
      /\ \/ taps[u].step = "set" /\ lastSeen'[u] = taps[u].at
         \/ lastSeen'[u] = lastSeen[u]
  BY <1>1, <1>2
<1>8. KnownTimes'
  <2>1. 0 <= clock[u]
    BY TimesKnown
  <2> QED
    BY <1>1, <1>2, <1>4, <1>5, <1>7, <2>1 DEF IInv, KnownTimes
<1>9. ASSUME NEW v \in Users, NEW s \in TimesOf(v) \ read[v], Minded(v, s)
      PROVE  Minded(v, s)'
  <2>1. CASE v # u
    BY <1>1, <1>5, <1>6, <1>7, <1>9, <2>1 DEF Minded, OnScreen
  <2>2. CASE v = u
    <3>1. s \in Nat
      BY TimesKnown
    <3>2. CASE putOut /\ s <= taps[u].at
      <4>1. s \in lost
        BY <1>9, <2>2, <3>2 DEF lost, Unread
      <4> QED
        BY <1>6, <2>2, <4>1 DEF Minded
    <3>3. CASE ~(putOut /\ s <= taps[u].at)
      <4>1. CASE s \in missed[v] \/ OnScreen(v, s)
        BY <1>1, <1>6, <4>1 DEF Minded, OnScreen
      <4>2. CASE ~(s \in missed[v] \/ OnScreen(v, s))
        <5>1. \/ s > lastSeen[u] /\ s > tile[u]
              \/ taps[u].step = "set" /\ s > lastSeen[u] /\ tile[u] = taps[u].at
          BY <1>9, <2>2, <3>3, <4>2 DEF Minded
        <5>2. s > lastSeen'[u] /\ s > tile[u]
          BY <1>2, <1>7, <3>1, <3>3, <5>1
        <5> QED
          BY <1>1, <2>2, <5>2 DEF Minded
      <4> QED
        BY <4>1, <4>2
    <3> QED
      BY <3>2, <3>3
  <2> QED
    BY <2>1, <2>2
<1> QED
  BY <1>1, <1>5, <1>6, <1>7, <1>8, <1>9, AdminStep DEF IInv, TypeOK

\* The end of the app drops every reason but the stored times: the tiles are lit
\* until they have read them.
LEMMA AppEndsStep ==
  ASSUME IInv, NEW stored \in SUBSET Users, AppEnds(stored)
  PROVE  IInv'
<1> DEFINE told(u) == IF u \in stored \/ taps[u].step = "push"
                      THEN Unread(u, taps[u].at) ELSE {}
           covered(u) == UNION {Unread(u, screens[i].at) :
                                  i \in {j \in 1..Len(screens) : screens[j].of = u}}
<1>1. /\ Observe
      /\ UNCHANGED <<chat, clock, sends, marks, pages, shown>>
      /\ \A u \in stored : u \in Users /\ taps[u].step = "set"
      /\ lastSeen' = [u \in Users |-> IF u \in stored THEN taps[u].at ELSE lastSeen[u]]
      /\ listed' = listed \union stored
      /\ missed' = [u \in Users |-> missed[u] \union told(u) \union covered(u)]
      /\ taps' = [u \in Users |-> NoTap]
      /\ screens' = <<>>
      /\ tile' = [u \in Users |-> 0]
  BY DEF AppEnds
<1>2. /\ lastSeen \in [Users -> Known] /\ missed \in [Users -> SUBSET Times]
      /\ listed \subseteq Users /\ screens \in Seq(Screen)
  BY DEF IInv, TypeOK
<1>3. \A u \in Users : told(u) \subseteq Times
  BY TimesKnown, UnreadTimes
<1>4. \A u \in Users : covered(u) \subseteq Times
  <2>1. \A i \in 1..Len(screens) : screens[i] \in Screen
    BY <1>2, ElementOfSeq
  <2>2. \A i \in 1..Len(screens) : screens[i].at \in Known
    BY <2>1 DEF Screen
  <2>3. \A u \in Users : \A i \in 1..Len(screens) : Unread(u, screens[i].at) \subseteq Times
    BY <2>2, UnreadTimes
  <2> QED
    BY <2>3
<1>5. ASSUME NEW u \in Users, NEW i \in 1..Len(screens), screens[i].of = u
      PROVE  Unread(u, screens[i].at) \subseteq covered(u)
  BY <1>5
<1> HIDE DEF told, covered
<1>6. /\ missed' \in [Users -> SUBSET Times]
      /\ \A u \in Users : missed'[u] = missed[u] \union told(u) \union covered(u)
  BY <1>1, <1>2, <1>3, <1>4
<1>7. 0 \in Known /\ NoTap \in Tap /\ NoTap.at = 0
  BY BoundsAssumption DEF NoTap, Tap, Known
<1>8. /\ lastSeen' \in [Users -> Known] /\ listed' \subseteq Users
      /\ tile' \in [Users -> Known] /\ taps' \in [Users -> Tap]
      /\ screens' \in Seq(Screen)
  BY <1>1, <1>2, <1>7, TimesKnown, EmptySeq
<1>9. KnownTimes'
  <2>1. ASSUME NEW u \in Users
        PROVE  lastSeen'[u] <= clock[u] /\ 0 <= clock[u]
    BY <1>1, TimesKnown
  <2> QED
    BY <1>1, <1>7, <2>1 DEF KnownTimes
<1>10. ASSUME NEW v \in Users, NEW s \in TimesOf(v) \ read[v], Minded(v, s)
       PROVE  Minded(v, s)'
  <2>1. s \in Nat /\ s > 0 /\ taps[v].at \in Nat /\ lastSeen[v] \in Nat /\ tile[v] \in Nat
    BY TimesKnown
  <2>2. CASE OnScreen(v, s)
    <3>1. PICK i \in 1..Len(screens) : screens[i].of = v /\ s <= screens[i].at
      BY <2>2 DEF OnScreen
    <3>2. s \in Unread(v, screens[i].at)
      BY <1>10, <3>1 DEF Unread
    <3>3. s \in covered(v)
      BY <1>5, <3>1, <3>2
    <3> QED
      BY <1>6, <3>3 DEF Minded
  <2>3. CASE (v \in stored \/ taps[v].step = "push") /\ s <= taps[v].at
    <3>1. s \in told(v)
      BY <1>10, <2>3 DEF told, Unread
    <3> QED
      BY <1>6, <3>1 DEF Minded
  <2>4. CASE s \in missed[v]
    BY <1>6, <2>4 DEF Minded
  <2>5. CASE /\ ~OnScreen(v, s) /\ s \notin missed[v]
             /\ ~((v \in stored \/ taps[v].step = "push") /\ s <= taps[v].at)
    <3>1. s > lastSeen[v]
      BY <1>10, <2>5 DEF Minded
    <3>2. lastSeen'[v] = IF v \in stored THEN taps[v].at ELSE lastSeen[v]
      BY <1>1
    <3>3. s > lastSeen'[v]
      BY <2>1, <2>5, <3>1, <3>2
    <3>4. s > tile'[v]
      BY <1>1, <2>1
    <3> QED
      BY <3>3, <3>4 DEF Minded
  <2> QED
    BY <2>2, <2>3, <2>4, <2>5
<1> QED
  BY <1>1, <1>6, <1>8, <1>9, <1>10, AdminStep

\* Nothing happens.
LEMMA StutterStep ==
  ASSUME IInv, UNCHANGED vars
  PROVE  IInv'
BY DEF vars, IInv, TypeOK, Timely, KnownTimes, ReadOnTop, Shows, OnTop, TimesOf,
       SeenMeansShown, UnreadIsMinded, Minded, OnScreen

-----------------------------------------------------------------------------
(* The theorems *)

\* Every reachable state of the support chat satisfies the inductive invariant.
THEOREM Inductive == Spec => []IInv
<1>1. ASSUME IInv, [Next]_vars PROVE IInv'
  <2>1. CASE UNCHANGED vars
    BY <1>1, <2>1, StutterStep
  <2>2. CASE CloseChat \/ \E stored \in SUBSET Users : AppEnds(stored)
    BY <1>1, <2>2, CloseChatStep, AppEndsStep
  <2>3. CASE \E i \in 1..Len(screens) : ChatLoaded(i)
    BY <1>1, <2>3, ScreenStep
  <2>4. ASSUME NEW u \in Users,
               \/ OpenPage(u) \/ ClosePage(u)
               \/ \E m \in chat[u] : BuildBubble(u, m) \/ DeleteMessage(u, m)
               \/ \E s \in Senders : Send(u, s) \/ Arrive(u, s)
               \/ \E t \in Times : MarkStored(u, t)
        PROVE  IInv'
    BY <1>1, <2>4, PageStep, BuildBubbleStep, DeleteMessageStep, SendStep, ArriveStep,
       MarkStoredStep
  <2>5. ASSUME NEW u \in Users,
               BuildTile(u) \/ TapBadge(u) \/ NewestRead(u) \/ LastSeenStored(u)
        PROVE  IInv'
    BY <1>1, <2>5, BuildTileStep, QueryStep, LastSeenStoredStep
  <2>6. ASSUME NEW u \in Users, PushChat(u) \/ OpenFromList(u) \/ BadgeFails(u)
        PROVE  IInv'
    BY <1>1, <2>6, PushChatStep, ScreenStep, BadgeFailsStep
  <2> QED
    BY <1>1, <2>1, <2>2, <2>3, <2>4, <2>5, <2>6 DEF Next
<1> QED
  BY InitHolds, <1>1, PTL DEF Spec

\* Every variable of the chat keeps its type, for any users and bounds.
THEOREM TypeCorrect == Spec => []TypeOK
<1>1. IInv => TypeOK
  BY DEF IInv
<1> QED
  BY Inductive, <1>1, PTL

\* Only messages that were built on the page of their user are marked as seen.
THEOREM SeenWasShown == Spec => []SeenMeansShown
<1>1. IInv => SeenMeansShown
  BY DEF IInv
<1> QED
  BY Inductive, <1>1, PTL

\* A message of a user that was in no list on the screen of the administrator keeps
\* the badge of the user lit, until its chat is about to be shown; the messages
\* that a handler put out without getting there are listed as missed.
THEOREM BadgeStaysLit == Spec => []UnreadIsLit
<1>1. IInv => UnreadIsLit
  <2> SUFFICES ASSUME IInv, NEW u \in Users, NEW m \in chat[u],
                      m.from = "user", m.at \notin read[u]
               PROVE  HasNewMessage(u) \/ WillShow(u, m.at) \/ m.at \in missed[u]
    BY DEF UnreadIsLit
  <2>1. Minded(u, m.at)
    BY DEF IInv, UnreadIsMinded
  <2>2. m.at \in TimesOf(u) /\ m.at \in Nat /\ taps[u].at \in Nat
    BY TimesKnown DEF TimesOf
  <2>3. m.at > tile[u] => HasNewMessage(u)
    BY <2>2 DEF HasNewMessage
  <2>4. m.at > taps[u].at \/ m.at <= taps[u].at
    BY <2>2
  <2> QED
    BY <2>1, <2>3, <2>4 DEF Minded, WillShow, OnScreen
<1> QED
  BY Inductive, <1>1, PTL
=============================================================================
