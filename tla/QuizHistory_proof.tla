------------------------- MODULE QuizHistory_proof -------------------------
(***************************************************************************)
(* Proofs about QuizSession and, built on them and on those about          *)
(* ResultStore, about QuizHistory, for any number of tests, questions,     *)
(* options, ticks, results and preference writes in flight.                *)
(*                                                                         *)
(* The tests alone come first, with their refinement of QuizPromise.       *)
(* Together with the store they go on as before, but for the end of the    *)
(* process, so that the invariants of both are also ones of QuizHistory.   *)
(***************************************************************************)
EXTENDS QuizHistory, ResultStore_proof, Integers, FiniteSetTheorems

-----------------------------------------------------------------------------
(***************************************************************************)
(* The inductive invariant.  ShownIsRecorded and PartialOnlyByTimeOut look *)
(* at the route on top and at what was saved; what goes on below comes up  *)
(* again when routes are popped, so that ResultsSaved speaks of every      *)
(* ResultScreen of the stack.                                              *)
(***************************************************************************)

\* The home page stays at the bottom.
HomeBelow == Len(stack) >= 1 /\ stack[1] = Home

\* What each ResultScreen shows, covered or not, was saved, and the answers of
\* every mounted one are complete unless the time ran out.
ResultsSaved ==
  \A s \in Sessions :
    /\ OnStack(Result(s)) => records[s] # <<>> /\ Last(records[s]) = answers[s]
    /\ OnStack(Result(s)) \/ exiting[s] > 0 => Complete(answers[s]) \/ timedOut[s]

Waiting == {"unused", "loading", "stranded"}

\* Nothing has happened to a test that was not pushed yet.
NothingBefore ==
  \A s \in Sessions : phase[s] \in Waiting =>
    ~timedOut[s] /\ records[s] = <<>> /\ exiting[s] = 0

IInv ==
  /\ TypeOK
  /\ HomeBelow
  /\ ResultAboveItsTest
  /\ AtMostTwoResults
  /\ ResultsSaved
  /\ PartialOnlyByTimeOut
  /\ NothingBefore

-----------------------------------------------------------------------------
(* Lemmas about routes *)

\* The three kinds of routes differ, and each names its test.
LEMMA RoutesDiffer ==
  ASSUME NEW s, NEW x
  PROVE  /\ Test(s) # Home /\ Result(s) # Home /\ Test(s) # Result(x)
         /\ Test(s) = Test(x) => s = x
         /\ Result(s) = Result(x) => s = x
<1>1. Home[1] = "home" /\ Test(s)[1] = "test" /\ Result(x)[1] = "result"
      /\ Result(s)[1] = "result"
  BY DEF Home, Test, Result
<1>2. Test(s)[2] = s /\ Test(x)[2] = x /\ Result(s)[2] = s /\ Result(x)[2] = x
  BY DEF Test, Result
<1> QED
  BY <1>1, <1>2

LEMMA RouteTypes ==
  /\ Home \in Routes
  /\ \A s \in Sessions : Test(s) \in Routes /\ Result(s) \in Routes
BY DEF Routes

\* The ResultScreens of a test are finitely many.
LEMMA ResultsFinite ==
  ASSUME TypeOK, NEW s \in Sessions
  PROVE  /\ IsFiniteSet(ResultsOf(s)) /\ Cardinality(ResultsOf(s)) \in Nat
         /\ Cardinality(ResultsOf(s)) = 0 <=> ResultsOf(s) = {}
<1>1. Len(stack) \in Int
  BY DEF TypeOK
<1>2. IsFiniteSet(1..Len(stack)) /\ ResultsOf(s) \in SUBSET (1..Len(stack))
  BY <1>1, FS_Interval DEF ResultsOf
<1> QED
  BY <1>2, FS_Subset, FS_CardinalityType, FS_EmptySet

LEMMA ResultsOnStack ==
  ASSUME NEW s
  PROVE  ResultsOf(s) = {} <=> ~OnStack(Result(s))
BY DEF ResultsOf, OnStack

\* A test has mounted ResultScreens if some are on the stack or on their way out.
LEMMA MountedCount ==
  ASSUME TypeOK, NEW s \in Sessions
  PROVE  /\ Mounted(s) \in Nat /\ Cardinality(ResultsOf(s)) \in Nat
         /\ exiting[s] \in Nat
         /\ Mounted(s) = 0 <=> ~OnStack(Result(s)) /\ exiting[s] = 0
<1>1. /\ Cardinality(ResultsOf(s)) \in Nat /\ exiting[s] \in Nat
      /\ Cardinality(ResultsOf(s)) = 0 <=> ResultsOf(s) = {}
  BY ResultsFinite DEF TypeOK
<1>2. ResultsOf(s) = {} <=> ~OnStack(Result(s))
  BY ResultsOnStack
<1> QED
  BY <1>1, <1>2 DEF Mounted

\* They belong to a test that was pushed; those of a test that was left are the
\* timer's.
LEMMA MountedPhase ==
  ASSUME IInv, NEW s \in Sessions
  PROVE  /\ OnStack(Result(s)) \/ exiting[s] > 0 =>
              phase[s] \notin Waiting /\ (Complete(answers[s]) \/ timedOut[s])
         /\ OnStack(Result(s)) /\ phase[s] # "open" => timedOut[s]
<1>1. TypeOK /\ ResultAboveItsTest /\ ResultsSaved /\ NothingBefore
  BY DEF IInv
<1>2. OnStack(Result(s)) =>
        \/ phase[s] = "open"
        \/ timedOut[s] /\ phase[s] \in {"leaving", "closed"}
  BY <1>1 DEF ResultAboveItsTest, OnStack
<1>3. exiting[s] > 0 => phase[s] \notin Waiting
  BY <1>1 DEF NothingBefore
<1> QED
  BY <1>1, <1>2, <1>3 DEF ResultsSaved, Waiting

\* The test on top has no ResultScreen below it.
LEMMA TopHasNoResults ==
  ASSUME IInv, NEW s \in Sessions, Top = Test(s)
  PROVE  /\ ~OnStack(Result(s)) /\ ResultsOf(s) = {} /\ phase[s] = "open"
         /\ Len(stack) >= 2
<1>1. Len(stack) \in Nat /\ Len(stack) >= 1 /\ stack[1] = Home
  BY DEF IInv, TypeOK, HomeBelow
<1>2. stack[Len(stack)] = Test(s)
  BY DEF Top
<1>3. ~OnStack(Result(s))
  <2>1. \A j \in 1..Len(stack) : stack[j] = Result(s) => Len(stack) < j
    <3>1. Len(stack) \in 1..Len(stack)
      BY <1>1
    <3> QED
      BY <1>2, <3>1 DEF IInv, ResultAboveItsTest
  <2>2. \A j \in 1..Len(stack) : ~(Len(stack) < j)
    BY <1>1
  <2> QED
    BY <2>1, <2>2 DEF OnStack
<1>4. phase[s] = "open"
  BY <1>1, <1>2 DEF IInv, ResultAboveItsTest, OnStack
<1>5. Len(stack) # 1
  BY <1>1, <1>2, RoutesDiffer
<1>6. ResultsOf(s) = {}
  BY <1>3, ResultsOnStack
<1>7. Len(stack) >= 2
  <2>1. \A n \in Nat : n >= 1 /\ n # 1 => n >= 2
    OBVIOUS
  <2> QED
    BY <1>1, <1>5, <2>1
<1> QED
  BY <1>3, <1>4, <1>6, <1>7

-----------------------------------------------------------------------------
(* Routes that are pushed and popped *)

LEMMA PushedRoute ==
  ASSUME TypeOK, NEW r \in Routes, stack' = Append(stack, r)
  PROVE  /\ stack' \in Seq(Routes) /\ Len(stack) \in Nat /\ Len(stack') = Len(stack) + 1
         /\ \A i \in 1..Len(stack) : stack'[i] = stack[i]
         /\ stack'[Len(stack) + 1] = r
         /\ \A x : OnStack(x)' <=> OnStack(x) \/ x = r
<1>1. stack \in Seq(Routes) /\ Len(stack) \in Nat
  BY DEF TypeOK
<1>2. /\ stack' \in Seq(Routes) /\ Len(stack') = Len(stack) + 1
      /\ \A i \in 1..Len(stack) : stack'[i] = stack[i]
      /\ stack'[Len(stack) + 1] = r
  BY <1>1, AppendProperties
<1>3. \A i \in 1..Len(stack') : i \in 1..Len(stack) \/ i = Len(stack) + 1
  BY <1>1, <1>2
<1>4. \A i \in 1..Len(stack) : i \in 1..Len(stack')
  BY <1>1, <1>2
<1>5. Len(stack) + 1 \in 1..Len(stack')
  BY <1>1, <1>2
<1>6. \A x : OnStack(x)' <=> OnStack(x) \/ x = r
  BY <1>2, <1>3, <1>4, <1>5 DEF OnStack
<1> QED
  BY <1>1, <1>2, <1>6

LEMMA PoppedRoute ==
  ASSUME TypeOK, Len(stack) >= 2, stack' = Front(stack)
  PROVE  /\ stack' \in Seq(Routes) /\ Len(stack) \in Nat /\ Len(stack') = Len(stack) - 1
         /\ \A i \in 1..Len(stack') : i \in 1..Len(stack) /\ stack'[i] = stack[i]
         /\ \A x : OnStack(x)' => OnStack(x)
         /\ \A x : x # Top /\ OnStack(x) => OnStack(x)'
<1>1. stack \in Seq(Routes) /\ Len(stack) \in Nat
  BY DEF TypeOK
<1> DEFINE n == Len(stack) - 1
           r == SubSeq(stack, 1, n)
<1>2. stack' = r
  BY DEF Front
<1>3. n \in Nat /\ n >= 1 /\ n - 1 + 1 = n
  BY <1>1
<1>4. \A i \in 1..n : stack[i] \in Routes
  BY <1>1, <1>3
<1>5. r \in Seq(Routes) /\ Len(r) = n /\ \A i \in 1..n : r[i] = stack[i]
  BY <1>1, <1>3, <1>4, SubSeqProperties
<1>6. \A i \in 1..Len(stack') : i \in 1..Len(stack) /\ stack'[i] = stack[i]
  BY <1>1, <1>2, <1>3, <1>5
<1>7. \A x : OnStack(x)' => OnStack(x)
  BY <1>6 DEF OnStack
<1>8. \A i \in 1..Len(stack) : i \in 1..Len(stack') \/ i = Len(stack)
  <2>1. Len(stack') = Len(stack) - 1
    BY <1>2, <1>5
  <2> QED
    BY <1>1, <2>1
<1>9. \A x : x # Top /\ OnStack(x) => OnStack(x)'
  BY <1>6, <1>8 DEF OnStack, Top
<1> QED
  BY <1>1, <1>2, <1>5, <1>6, <1>7, <1>9

\* What the routes look like when one is pushed or popped.
LEMMA PushedTest ==
  ASSUME IInv, NEW s \in Sessions, phase[s] \in {"loading", "stranded"},
         UNCHANGED timedOut,
         stack' = Append(stack, Test(s)), phase' = [phase EXCEPT ![s] = "open"]
  PROVE  /\ ResultAboveItsTest'
         /\ \A x \in Sessions : ResultsOf(x)' = ResultsOf(x)
         /\ \A x \in Sessions : OnStack(Result(x))' <=> OnStack(Result(x))
<1>1. TypeOK /\ ResultAboveItsTest /\ ~OnStack(Test(s))
  BY DEF IInv, ResultAboveItsTest
<1>2. /\ Len(stack) \in Nat /\ Len(stack') = Len(stack) + 1
      /\ \A i \in 1..Len(stack) : stack'[i] = stack[i]
      /\ stack'[Len(stack) + 1] = Test(s)
      /\ \A x : OnStack(x)' <=> OnStack(x) \/ x = Test(s)
  BY <1>1, PushedRoute, RouteTypes
<1>3. \A i \in 1..Len(stack') : i \in 1..Len(stack) \/ i = Len(stack) + 1
  BY <1>2
<1>4. \A i \in 1..Len(stack) : stack[i] # Test(s) /\ i \in 1..Len(stack') /\ i < Len(stack) + 1
  BY <1>1, <1>2 DEF OnStack
<1>5. ~OnStack(Result(s))
  BY MountedPhase DEF Waiting
<1>6. \A x \in Sessions : OnStack(Result(x))' <=> OnStack(Result(x))
  BY <1>2, RoutesDiffer
<1>7. \A x \in Sessions : ResultsOf(x)' = ResultsOf(x)
  <2>1. \A x \in Sessions, i \in 1..Len(stack') :
          stack'[i] = Result(x) => i \in 1..Len(stack) /\ stack[i] = Result(x)
    BY <1>2, <1>3, RoutesDiffer
  <2> QED
    BY <1>2, <1>4, <2>1 DEF ResultsOf
<1>8. \A x \in Sessions : phase'[x] = "open" <=> OnStack(Test(x))'
  <2>1. \A x \in Sessions : phase'[x] = "open" <=> phase[x] = "open" \/ x = s
    BY <1>1 DEF TypeOK
  <2>2. \A x \in Sessions : OnStack(Test(x))' <=> OnStack(Test(x)) \/ x = s
    BY <1>2, RoutesDiffer
  <2> QED
    BY <1>1, <2>1, <2>2 DEF ResultAboveItsTest
<1>9. ASSUME NEW i \in 1..Len(stack'), NEW j \in 1..Len(stack'), NEW x \in Sessions
      PROVE  /\ stack'[i] = Test(x) /\ stack'[j] = Test(x) => i = j
             /\ stack'[i] = Test(x) /\ stack'[j] = Result(x) => i < j
             /\ stack'[j] = Result(x) =>
                  \/ OnStack(Test(x))'
                  \/ timedOut'[x] /\ phase'[x] \in {"leaving", "closed"}
  <2>1. CASE x = s
    <3>1. stack'[j] # Result(s)
      BY <1>2, <1>3, <1>5, RoutesDiffer DEF OnStack
    <3>2. stack'[i] = Test(s) => i = Len(stack) + 1
      BY <1>2, <1>3, <1>4
    <3>3. stack'[j] = Test(s) => j = Len(stack) + 1
      BY <1>2, <1>3, <1>4
    <3> QED
      BY <2>1, <3>1, <3>2, <3>3
  <2>2. CASE x # s
    <3>1. /\ stack'[i] \in {Test(x), Result(x)} => i \in 1..Len(stack) /\ stack[i] = stack'[i]
          /\ stack'[j] \in {Test(x), Result(x)} => j \in 1..Len(stack) /\ stack[j] = stack'[j]
      BY <2>2, <1>2, <1>3, RoutesDiffer
    <3>2. phase'[x] = phase[x]
      BY <2>2, <1>1 DEF TypeOK
    <3> QED
      BY <3>1, <3>2, <1>1, <1>2 DEF ResultAboveItsTest
  <2> QED
    BY <2>1, <2>2
<1> QED
  BY <1>6, <1>7, <1>8, <1>9 DEF ResultAboveItsTest

LEMMA PushedResult ==
  ASSUME IInv, NEW s \in Sessions, UNCHANGED phase,
         phase[s] = "open" \/ (phase[s] = "leaving" /\ timedOut'[s]),
         \A x \in Sessions : timedOut[x] => timedOut'[x],
         stack' = Append(stack, Result(s))
  PROVE  /\ ResultAboveItsTest'
         /\ Cardinality(ResultsOf(s)') = Cardinality(ResultsOf(s)) + 1
         /\ \A x \in Sessions : x # s => ResultsOf(x)' = ResultsOf(x)
         /\ \A x \in Sessions : OnStack(Result(x))' <=> OnStack(Result(x)) \/ x = s
<1>1. /\ TypeOK /\ ResultAboveItsTest
      /\ OnStack(Test(s)) \/ (phase[s] = "leaving" /\ timedOut'[s])
  BY DEF IInv, ResultAboveItsTest
<1> DEFINE n == Len(stack) + 1
<1>2. /\ Len(stack) \in Nat /\ Len(stack') = n
      /\ \A i \in 1..Len(stack) : stack'[i] = stack[i]
      /\ stack'[n] = Result(s)
      /\ \A x : OnStack(x)' <=> OnStack(x) \/ x = Result(s)
  BY <1>1, PushedRoute, RouteTypes
<1>3. /\ \A i \in 1..Len(stack') : i \in 1..Len(stack) \/ i = n
      /\ n \in 1..Len(stack') /\ n \notin 1..Len(stack)
      /\ \A i \in 1..Len(stack) : i \in 1..Len(stack') /\ i < n
  BY <1>2
<1> HIDE DEF n
<1>4. \A x \in Sessions : OnStack(Result(x))' <=> OnStack(Result(x)) \/ x = s
  BY <1>2, RoutesDiffer
<1>5. \A x \in Sessions : OnStack(Test(x))' <=> OnStack(Test(x))
  BY <1>2, RoutesDiffer
<1>6. \A x \in Sessions : x # s => ResultsOf(x)' = ResultsOf(x)
  <2>1. \A x \in Sessions, i \in 1..Len(stack') : x # s /\ stack'[i] = Result(x) =>
          i \in 1..Len(stack) /\ stack[i] = Result(x)
    BY <1>2, <1>3, RoutesDiffer
  <2> QED
    BY <1>2, <1>3, <2>1 DEF ResultsOf
<1>7. ResultsOf(s)' = ResultsOf(s) \union {n} /\ n \notin ResultsOf(s)
  <2>1. \A i \in 1..Len(stack') :
          stack'[i] = Result(s) <=> i = n \/ (i \in 1..Len(stack) /\ stack[i] = Result(s))
    BY <1>2, <1>3
  <2> QED
    BY <2>1, <1>3 DEF ResultsOf
<1>8. Cardinality(ResultsOf(s)') = Cardinality(ResultsOf(s)) + 1
  BY <1>1, <1>7, ResultsFinite, FS_AddElement
<1>9. ASSUME NEW i \in 1..Len(stack'), NEW j \in 1..Len(stack'), NEW x \in Sessions
      PROVE  /\ stack'[i] = Test(x) /\ stack'[j] = Test(x) => i = j
             /\ stack'[i] = Test(x) /\ stack'[j] = Result(x) => i < j
             /\ stack'[j] = Result(x) =>
                  \/ OnStack(Test(x))'
                  \/ timedOut'[x] /\ phase'[x] \in {"leaving", "closed"}
  <2>1. /\ stack'[i] = Test(x) => i \in 1..Len(stack) /\ stack[i] = Test(x)
        /\ stack'[j] = Test(x) => j \in 1..Len(stack) /\ stack[j] = Test(x)
    BY <1>2, <1>3, RoutesDiffer
  <2>2. stack'[j] = Result(x) =>
          \/ j \in 1..Len(stack) /\ stack[j] = Result(x)
          \/ j = n /\ x = s
    BY <1>2, <1>3, RoutesDiffer
  <2> QED
    BY <2>1, <2>2, <1>1, <1>3, <1>5 DEF ResultAboveItsTest
<1> QED
  BY <1>1, <1>4, <1>5, <1>6, <1>8, <1>9 DEF ResultAboveItsTest

\* A route is popped, and with a TestScreen its test is left.
LEMMA Popped ==
  ASSUME IInv, NEW s \in Sessions, stack' = Front(stack), UNCHANGED timedOut,
         \/ Top = Result(s) /\ UNCHANGED phase
         \/ Top = Test(s) /\ phase' = [phase EXCEPT ![s] = "leaving"]
  PROVE  /\ ResultAboveItsTest' /\ HomeBelow' /\ stack' \in Seq(Routes)
         /\ \A x \in Sessions : OnStack(Result(x))' => OnStack(Result(x))
         /\ \A x \in Sessions :
              OnStack(Result(x)) /\ Top # Result(x) => OnStack(Result(x))'
         /\ \A x \in Sessions :
              /\ Cardinality(ResultsOf(x)') \in Nat
              /\ Cardinality(ResultsOf(x)') <= Cardinality(ResultsOf(x))
<1>1. TypeOK /\ ResultAboveItsTest /\ HomeBelow
  BY DEF IInv
<1>2. Len(stack) \in Nat /\ Len(stack) >= 2
  <2>1. Len(stack) \in Nat /\ Len(stack) >= 1 /\ stack[1] = Home
    BY <1>1 DEF TypeOK, HomeBelow
  <2>2. Top # Home
    BY RoutesDiffer
  <2> QED
    BY <2>1, <2>2 DEF Top
<1>3. /\ stack' \in Seq(Routes) /\ Len(stack') = Len(stack) - 1
      /\ \A i \in 1..Len(stack') : i \in 1..Len(stack) /\ stack'[i] = stack[i]
      /\ \A x : OnStack(x)' => OnStack(x)
      /\ \A x : x # Top /\ OnStack(x) => OnStack(x)'
  BY <1>1, <1>2, PoppedRoute
<1>4. HomeBelow'
  BY <1>1, <1>2, <1>3 DEF HomeBelow
<1>5. \A x \in Sessions : ResultsOf(x)' \subseteq ResultsOf(x)
  BY <1>3 DEF ResultsOf
<1>6. \A x \in Sessions :
        /\ Cardinality(ResultsOf(x)') \in Nat
        /\ Cardinality(ResultsOf(x)') <= Cardinality(ResultsOf(x))
  BY <1>1, <1>5, ResultsFinite, FS_Subset, FS_CardinalityType
<1>7. \A x \in Sessions : phase'[x] = "open" <=> OnStack(Test(x))'
  <2>1. CASE Top = Result(s) /\ UNCHANGED phase
    <3>1. \A x \in Sessions : Test(x) # Top
      BY <2>1, RoutesDiffer
    <3> QED
      BY <2>1, <3>1, <1>1, <1>3 DEF ResultAboveItsTest
  <2>2. CASE Top = Test(s) /\ phase' = [phase EXCEPT ![s] = "leaving"]
    <3>1. \A x \in Sessions : phase'[x] = "open" <=> phase[x] = "open" /\ x # s
      BY <2>2, <1>1 DEF TypeOK
    <3>2. \A x \in Sessions : x # s => Test(x) # Top
      BY <2>2, RoutesDiffer
    <3>3. ~OnStack(Test(s))'
      <4> SUFFICES ASSUME NEW i \in 1..Len(stack'), stack'[i] = Test(s)
                   PROVE  FALSE
        BY DEF OnStack
      <4>1. i \in 1..Len(stack) /\ stack[i] = Test(s) /\ i # Len(stack)
        BY <1>2, <1>3
      <4>2. Len(stack) \in 1..Len(stack) /\ stack[Len(stack)] = Test(s)
        BY <1>2, <2>2 DEF Top
      <4> QED
        BY <4>1, <4>2, <1>1 DEF ResultAboveItsTest
    <3> QED
      BY <3>1, <3>2, <3>3, <1>1, <1>3 DEF ResultAboveItsTest
  <2> QED
    BY <2>1, <2>2
<1>8. ASSUME NEW x \in Sessions, OnStack(Result(x))'
      PROVE  \/ OnStack(Test(x))'
             \/ timedOut'[x] /\ phase'[x] \in {"leaving", "closed"}
  <2>1. /\ OnStack(Result(x))
        /\ OnStack(Test(x)) \/ (timedOut[x] /\ phase[x] \in {"leaving", "closed"})
    <3>1. OnStack(Result(x))
      BY <1>3, <1>8
    <3>2. PICK j \in 1..Len(stack) : stack[j] = Result(x)
      BY <3>1 DEF OnStack
    <3> QED
      BY <3>1, <3>2, <1>1 DEF ResultAboveItsTest
  <2>2. Top # Test(x)
    BY <2>1, TopHasNoResults
  <2>3. phase[x] \in {"leaving", "closed"} => phase'[x] \in {"leaving", "closed"}
    BY <1>1 DEF TypeOK
  <2> QED
    BY <2>1, <2>2, <2>3, <1>3
<1>9. ASSUME NEW i \in 1..Len(stack'), NEW j \in 1..Len(stack'), NEW x \in Sessions
      PROVE  /\ stack'[i] = Test(x) /\ stack'[j] = Test(x) => i = j
             /\ stack'[i] = Test(x) /\ stack'[j] = Result(x) => i < j
             /\ stack'[j] = Result(x) =>
                  \/ OnStack(Test(x))'
                  \/ timedOut'[x] /\ phase'[x] \in {"leaving", "closed"}
  <2>1. stack'[j] = Result(x) => OnStack(Result(x))'
    BY DEF OnStack
  <2>2. /\ i \in 1..Len(stack) /\ stack'[i] = stack[i]
        /\ j \in 1..Len(stack) /\ stack'[j] = stack[j]
    BY <1>3
  <2> QED
    BY <2>1, <2>2, <1>1, <1>8 DEF ResultAboveItsTest
<1> QED
  BY <1>3, <1>4, <1>6, <1>7, <1>9 DEF ResultAboveItsTest

-----------------------------------------------------------------------------
(* The steps *)

LEMMA InitInv == Init => IInv
<1> SUFFICES ASSUME Init
             PROVE  IInv
  OBVIOUS
<1>1. Blank \in Sheets
  BY DEF Blank, Sheets
<1>2. TypeOK
  BY <1>1, RouteTypes DEF Init, TypeOK, Phases
<1>3. HomeBelow
  BY DEF Init, HomeBelow
<1>4. \A s \in Sessions : ~OnStack(Test(s)) /\ ~OnStack(Result(s))
  BY RoutesDiffer DEF Init, OnStack
<1>5. ResultAboveItsTest
  <2>1. \A i \in 1..Len(stack), s \in Sessions :
          stack[i] # Test(s) /\ stack[i] # Result(s)
    BY <1>4 DEF OnStack
  <2> QED
    BY <1>4, <2>1 DEF Init, ResultAboveItsTest
<1>6. AtMostTwoResults
  <2>1. \A s \in Sessions : Cardinality(ResultsOf(s)) = 0
    BY <1>4, ResultsOnStack, FS_EmptySet
  <2> QED
    BY <2>1 DEF Init, AtMostTwoResults
<1>7. ResultsSaved /\ PartialOnlyByTimeOut /\ NothingBefore
  BY <1>4 DEF Init, ResultsSaved, PartialOnlyByTimeOut, NothingBefore
<1> QED
  BY <1>2, <1>3, <1>5, <1>6, <1>7 DEF IInv

\* More records are a longer sequence of records.
LEMMA MoreRecords ==
  ASSUME NEW old \in Seq(Sheets), NEW more \in Seq(Sheets), Len(more) > 0
  PROVE  IsStrictPrefix(old, old \o more)
<1> DEFINE new == old \o more
<1>1. /\ new \in Seq(Sheets) /\ Len(new) = Len(old) + Len(more)
      /\ Len(old) \in Nat /\ Len(more) \in Nat
      /\ \A i \in 1..Len(old) : new[i] = old[i]
  BY ConcatProperties
<1> HIDE DEF new
<1>2. Len(old) <= Len(new) /\ old # new
  BY <1>1
<1>3. SubSeq(old, 1, Len(old)) = SubSeq(new, 1, Len(old))
  <2> DEFINE n == Len(old)
  <2>1. n \in Nat /\ n <= Len(new) /\ n - 1 + 1 = n
    BY <1>1
  <2>2. (\A i \in 1..n : old[i] \in Sheets) /\ (\A i \in 1..n : new[i] \in Sheets)
    BY <1>1, <2>1
  <2>3. /\ SubSeq(old, 1, n) \in Seq(Sheets) /\ Len(SubSeq(old, 1, n)) = n
        /\ SubSeq(new, 1, n) \in Seq(Sheets) /\ Len(SubSeq(new, 1, n)) = n
        /\ \A i \in 1..n : SubSeq(old, 1, n)[i] = old[i] /\ SubSeq(new, 1, n)[i] = new[i]
    BY <2>1, <2>2, <1>1, SubSeqProperties
  <2> HIDE DEF n
  <2> QED
    BY <2>1, <2>3, <1>1, SeqEqual DEF n
<1> QED
  BY <1>2, <1>3 DEF IsStrictPrefix, IsPrefix, new

\* What copies of a sheet that are added leave: the older records, and the sheet
\* as the last one.
Copied(old, sheet, n, new) ==
  /\ new \in Seq(Sheets) /\ Len(new) = Len(old) + n
  /\ n = 0 => new = old
  /\ n # 0 => new # <<>> /\ Last(new) = sheet /\ IsStrictPrefix(old, new)
  /\ \A i \in 1..Len(new) :
       \/ n # 0 /\ new[i] = sheet
       \/ i \in 1..Len(old) /\ new[i] = old[i]
  /\ \A i \in (Len(old) + 1)..Len(new) : new[i] = sheet

LEMMA CopiesAdded ==
  ASSUME NEW old \in Seq(Sheets), NEW sheet \in Sheets, NEW n \in Nat
  PROVE  Copied(old, sheet, n, old \o [i \in 1..n |-> sheet])
<1> DEFINE copies == [i \in 1..n |-> sheet]
           new == old \o copies
<1>1. copies \in Seq(Sheets) /\ Len(copies) = n /\ \A i \in 1..n : copies[i] = sheet
  BY IsASeq
<1> HIDE DEF copies
<1>2. /\ new \in Seq(Sheets) /\ Len(new) = Len(old) + n /\ Len(old) \in Nat
      /\ \A i \in 1..Len(new) : new[i] = IF i <= Len(old) THEN old[i]
                                         ELSE copies[i - Len(old)]
  <2>1. PICK more \in Seq(Sheets) : more = copies
    BY <1>1
  <2>2. new = old \o more /\ Len(more) = n
    BY <1>1, <2>1
  <2> HIDE DEF new
  <2>3. /\ old \o more \in Seq(Sheets) /\ Len(old \o more) = Len(old) + Len(more)
        /\ \A i \in 1..(Len(old) + Len(more)) :
             (old \o more)[i] = IF i <= Len(old) THEN old[i] ELSE more[i - Len(old)]
    BY ConcatProperties, Zenon
  <2>4. new \in Seq(Sheets) /\ Len(new) = Len(old) + n
    BY <2>2, <2>3, Zenon
  <2>5. \A i \in 1..Len(new) : new[i] = IF i <= Len(old) THEN old[i]
                                         ELSE copies[i - Len(old)]
    BY <2>1, <2>2, <2>3, Zenon
  <2>6. Len(old) \in Nat
    OBVIOUS
  <2> QED
    BY <2>4, <2>5, <2>6, Zenon
<1> HIDE DEF new
<1>3. ASSUME NEW i \in 1..Len(new)
      PROVE  /\ i \in 1..Len(old) => new[i] = old[i]
             /\ i \notin 1..Len(old) => n # 0 /\ new[i] = sheet
  <2>1. CASE i <= Len(old)
    BY <2>1, <1>2
  <2>2. CASE ~(i <= Len(old))
    <3>1. i - Len(old) \in 1..n /\ n # 0
      BY <2>2, <1>2
    <3> QED
      BY <2>2, <3>1, <1>1, <1>2
  <2> QED
    BY <2>1, <2>2
<1>4. \A i \in (Len(old) + 1)..Len(new) : new[i] = sheet
  <2>1. \A i \in (Len(old) + 1)..Len(new) : i \in 1..Len(new) /\ i \notin 1..Len(old)
    BY <1>2
  <2> QED
    BY <2>1, <1>3
<1>5. n = 0 => new = old
  <2> SUFFICES ASSUME n = 0
               PROVE  new = old
    OBVIOUS
  <2>1. Len(new) = Len(old) /\ \A i \in 1..Len(old) : new[i] = old[i]
    BY <1>2, <1>3
  <2> QED
    BY <2>1, <1>2, SeqEqual
<1>6. ASSUME n # 0
      PROVE  new # <<>> /\ Last(new) = sheet /\ IsStrictPrefix(old, new)
  <2>1. Len(new) >= 1 /\ Len(new) \in 1..Len(new) /\ Len(new) \notin 1..Len(old)
    BY <1>2, <1>6
  <2>2. new # <<>> /\ Last(new) = sheet
    BY <2>1, <1>3 DEF Last
  <2>3. Len(copies) > 0
    BY <1>1, <1>6
  <2>4. IsStrictPrefix(old, new)
    BY <1>1, <2>3, MoreRecords DEF new
  <2> QED
    BY <2>2, <2>4
<1>7. Copied(old, sheet, n, new)
  BY <1>2, <1>3, <1>4, <1>5, <1>6 DEF Copied
<1> QED
  BY <1>7 DEF new, copies

LEMMA RecordAdded ==
  ASSUME NEW old \in Seq(Sheets), NEW sheet \in Sheets
  PROVE  Copied(old, sheet, 1, Append(old, sheet))
<1>1. Append(old, sheet) = old \o [i \in 1..1 |-> sheet]
  BY AppendIsConcat
<1> QED
  BY <1>1, CopiesAdded

\* Steps that leave the routes, the records and the answers alone.
LEMMA QuietStep ==
  ASSUME IInv, UNCHANGED <<stack, answers, records, timedOut>>,
         phase' \in [Sessions -> Phases], exiting' \in [Sessions -> Nat],
         running' \in [Sessions -> BOOLEAN], remaining' \in [Sessions -> Nat],
         \A s \in Sessions :
           /\ phase'[s] = "open" <=> phase[s] = "open"
           /\ phase[s] \in {"leaving", "closed"} => phase'[s] \in {"leaving", "closed"}
           /\ phase'[s] \in Waiting => phase[s] \in Waiting
           /\ exiting'[s] > 0 => exiting[s] > 0
           /\ running'[s] => running[s] /\ phase'[s] = phase[s]
  PROVE  IInv'
<1>1. TypeOK'
  BY DEF IInv, TypeOK
<1>2. \A s, r : /\ ResultsOf(s)' = ResultsOf(s) /\ (OnStack(r)' <=> OnStack(r))
  BY DEF ResultsOf, OnStack
<1>3. HomeBelow' /\ ResultAboveItsTest'
  BY <1>2 DEF IInv, HomeBelow, ResultAboveItsTest
<1>4. AtMostTwoResults'
  BY <1>2 DEF IInv, AtMostTwoResults
<1>5. ResultsSaved' /\ PartialOnlyByTimeOut'
  BY <1>2 DEF IInv, ResultsSaved, PartialOnlyByTimeOut
<1>6. NothingBefore'
  <2>1. \A s \in Sessions : exiting[s] = 0 => exiting'[s] = 0
    <3> TAKE s \in Sessions
    <3>1. exiting[s] \in Nat /\ exiting'[s] \in Nat /\ (exiting'[s] > 0 => exiting[s] > 0)
      BY DEF IInv, TypeOK
    <3> QED
      BY <3>1
  <2> QED
    BY <2>1 DEF IInv, NothingBefore
<1> QED
  BY <1>1, <1>3, <1>4, <1>5, <1>6 DEF IInv

LEMMA StartTestInv ==
  ASSUME IInv, NEW s \in Sessions, StartTest(s) \/ NoQuestions(s)
  PROVE  IInv'
<1>1. phase \in [Sessions -> Phases] /\ ~running[s]
  BY DEF IInv, TypeOK, AtMostTwoResults, StartTest, NoQuestions
<1>2. \/ phase[s] = "unused" /\ phase' = [phase EXCEPT ![s] = "loading"]
      \/ /\ phase[s] \in {"loading", "stranded"}
         /\ phase' = [phase EXCEPT ![s] = "closed"]
  BY DEF StartTest, NoQuestions
<1>3. UNCHANGED <<stack, exiting, answers, running, remaining, records, timedOut>>
  BY DEF StartTest, NoQuestions
<1>4. /\ phase' \in [Sessions -> Phases]
      /\ \A x \in Sessions :
           /\ phase'[x] = "open" <=> phase[x] = "open"
           /\ phase[x] \in {"leaving", "closed"} => phase'[x] \in {"leaving", "closed"}
           /\ phase'[x] \in Waiting => phase[x] \in Waiting
           /\ running'[x] => running[x] /\ phase'[x] = phase[x]
  BY <1>1, <1>2, <1>3 DEF Waiting, Phases
<1>5. running' \in [Sessions -> BOOLEAN] /\ remaining' \in [Sessions -> Nat]
      /\ exiting' \in [Sessions -> Nat]
  BY <1>3 DEF IInv, TypeOK
<1> QED
  BY <1>3, <1>4, <1>5, QuietStep

LEMMA TickInv ==
  ASSUME IInv, NEW s \in Sessions, Tick(s)
  PROVE  IInv'
<1>1. remaining' \in [Sessions -> Nat]
  BY DEF IInv, TypeOK, Tick
<1>2. UNCHANGED <<stack, phase, exiting, answers, running, records, timedOut>>
  BY DEF Tick
<1>3. phase' \in [Sessions -> Phases] /\ exiting' \in [Sessions -> Nat]
      /\ running' \in [Sessions -> BOOLEAN]
  BY <1>2 DEF IInv, TypeOK
<1> QED
  BY <1>1, <1>2, <1>3, QuietStep

\* What is disposed was off the stack already.
LEMMA DisposeInv ==
  ASSUME IInv, NEW s \in Sessions, DisposeTest(s) \/ DisposeResult(s)
  PROVE  IInv'
<1>1. /\ phase \in [Sessions -> Phases] /\ exiting \in [Sessions -> Nat]
      /\ running \in [Sessions -> BOOLEAN] /\ remaining \in [Sessions -> Nat]
  BY DEF IInv, TypeOK
<1>2. UNCHANGED <<stack, answers, remaining, records, timedOut>>
  BY DEF DisposeTest, DisposeResult
<1>3. \/ /\ phase[s] \in {"leaving", "stranded"} /\ UNCHANGED exiting
         /\ phase' = [phase EXCEPT ![s] = "closed"]
         /\ running' = [running EXCEPT ![s] = FALSE]
      \/ /\ exiting[s] > 0 /\ exiting' = [exiting EXCEPT ![s] = @ - 1]
         /\ UNCHANGED <<phase, running>>
  BY DEF DisposeTest, DisposeResult
<1>4. exiting' \in [Sessions -> Nat]
      /\ \A x \in Sessions : exiting'[x] > 0 => exiting[x] > 0
  BY <1>1, <1>3
<1>5. /\ phase' \in [Sessions -> Phases] /\ running' \in [Sessions -> BOOLEAN]
      /\ \A x \in Sessions :
           /\ phase'[x] = "open" <=> phase[x] = "open"
           /\ phase[x] \in {"leaving", "closed"} => phase'[x] \in {"leaving", "closed"}
           /\ phase'[x] \in Waiting => phase[x] \in Waiting
           /\ running'[x] => running[x] /\ phase'[x] = phase[x]
  BY <1>1, <1>3 DEF Waiting, Phases
<1> QED
  BY <1>1, <1>2, <1>4, <1>5, QuietStep

LEMMA QuestionsArriveInv ==
  ASSUME IInv, NEW s \in Sessions, NEW timed \in BOOLEAN, QuestionsArrive(s, timed)
  PROVE  IInv'
<1>1. /\ phase[s] \in {"loading", "stranded"} /\ phase' = [phase EXCEPT ![s] = "open"]
      /\ stack' = Append(stack, Test(s)) /\ running' = [running EXCEPT ![s] = timed]
      /\ UNCHANGED <<exiting, answers, records, timedOut>>
  BY DEF QuestionsArrive
<1>2. /\ ResultAboveItsTest'
      /\ \A x \in Sessions : ResultsOf(x)' = ResultsOf(x)
      /\ \A x \in Sessions : OnStack(Result(x))' <=> OnStack(Result(x))
  BY <1>1, PushedTest
<1>3. TypeOK /\ HomeBelow
  BY DEF IInv
<1>4. stack' \in Seq(Routes) /\ Len(stack) \in Nat /\ Len(stack') = Len(stack) + 1
      /\ \A i \in 1..Len(stack) : stack'[i] = stack[i]
  BY <1>1, <1>3, PushedRoute, RouteTypes
<1>5. HomeBelow'
  BY <1>3, <1>4 DEF HomeBelow
<1>6. remaining' \in [Sessions -> Nat]
  BY <1>3, DurationAssumption DEF TypeOK, QuestionsArrive
<1>7. TypeOK'
  BY <1>1, <1>3, <1>4, <1>6 DEF TypeOK, Phases
<1>8. \A x \in Sessions : /\ phase'[x] = IF x = s THEN "open" ELSE phase[x]
                          /\ running'[x] = IF x = s THEN timed ELSE running[x]
  BY <1>1, <1>3 DEF TypeOK
<1>9. ~timedOut[s] /\ ~OnStack(Result(s)) /\ Cardinality(ResultsOf(s)) = 0
  <2>1. ~timedOut[s] /\ phase[s] \in Waiting
    BY <1>1 DEF IInv, NothingBefore, Waiting
  <2> QED
    BY <2>1, <1>3, MountedPhase, MountedCount, ResultsOnStack, ResultsFinite
<1>10. AtMostTwoResults'
  <2>1. ASSUME NEW x \in Sessions, x # s
        PROVE  /\ running'[x] => phase'[x] \in {"open", "leaving"} /\ ~timedOut'[x]
               /\ Cardinality(ResultsOf(x)') <=
                    IF timedOut'[x] /\ phase'[x] = "open" THEN 2 ELSE 1
    BY <2>1, <1>1, <1>2, <1>8 DEF IInv, AtMostTwoResults
  <2>2. Cardinality(ResultsOf(s)') = 0
    BY <1>2, <1>9
  <2> QED
    BY <2>1, <2>2, <1>1, <1>8, <1>9 DEF AtMostTwoResults
<1>11. ResultsSaved' /\ PartialOnlyByTimeOut' /\ NothingBefore'
  BY <1>1, <1>2, <1>8 DEF IInv, ResultsSaved, PartialOnlyByTimeOut, NothingBefore,
     Waiting
<1> QED
  BY <1>2, <1>5, <1>7, <1>10, <1>11 DEF IInv

\* What was complete stays so when an option is chosen.
LEMMA ChooseOptionInv ==
  ASSUME IInv, NEW s \in Sessions, NEW q \in Questions, NEW o \in Options,
         ChooseOption(s, q, o)
  PROVE  IInv'
<1>1. /\ Top = Test(s) /\ answers' = [answers EXCEPT ![s][q] = o]
      /\ UNCHANGED <<stack, phase, exiting, running, remaining, records, timedOut>>
  BY DEF ChooseOption
<1>2. TypeOK /\ ~OnStack(Result(s))
  BY <1>1, TopHasNoResults DEF IInv
<1>3. answers' \in [Sessions -> Sheets]
      /\ \A x \in Sessions : x # s => answers'[x] = answers[x]
  BY <1>1, <1>2 DEF TypeOK, Sheets
<1>4. TypeOK'
  BY <1>1, <1>2, <1>3 DEF TypeOK
<1>5. \A x, r : ResultsOf(x)' = ResultsOf(x) /\ (OnStack(r)' <=> OnStack(r))
  BY <1>1 DEF ResultsOf, OnStack
<1>6. HomeBelow' /\ ResultAboveItsTest' /\ AtMostTwoResults'
  BY <1>1, <1>5 DEF IInv, HomeBelow, ResultAboveItsTest, AtMostTwoResults
<1>7. Complete(answers[s]) => Complete(answers'[s])
  <2>1. answers'[s] = [answers[s] EXCEPT ![q] = o]
    BY <1>1, <1>2 DEF TypeOK
  <2>2. o # Unanswered
    BY UnansweredAssumption
  <2> QED
    BY <2>1, <2>2, <1>2 DEF TypeOK, Sheets, Complete
<1>8. ResultsSaved'
  <2>1. ASSUME NEW x \in Sessions, x # s
        PROVE  /\ OnStack(Result(x))' =>
                    records'[x] # <<>> /\ Last(records'[x]) = answers'[x]
               /\ OnStack(Result(x))' \/ exiting'[x] > 0 =>
                    Complete(answers'[x]) \/ timedOut'[x]
    BY <2>1, <1>1, <1>3, <1>5 DEF IInv, ResultsSaved
  <2>2. ~OnStack(Result(s))'
    BY <1>2, <1>5
  <2>3. exiting'[s] > 0 => Complete(answers'[s]) \/ timedOut'[s]
    BY <1>1, <1>7 DEF IInv, ResultsSaved
  <2> QED
    BY <2>1, <2>2, <2>3 DEF ResultsSaved
<1>9. PartialOnlyByTimeOut' /\ NothingBefore'
  BY <1>1 DEF IInv, PartialOnlyByTimeOut, NothingBefore
<1> QED
  BY <1>4, <1>6, <1>8, <1>9 DEF IInv

\* A ResultScreen is pushed, by the button on an open test or by the timer on
\* one that is open or was left.
LEMMA NavigateInv ==
  ASSUME IInv, NEW s \in Sessions, NavigateToResultScreen(s),
         UNCHANGED <<phase, exiting, answers, remaining>>,
         \/ /\ phase[s] = "open" /\ ResultsOf(s) = {} /\ Complete(answers[s])
            /\ UNCHANGED <<running, timedOut>>
         \/ /\ phase[s] \in {"open", "leaving"}
            /\ ~timedOut[s] /\ running' = [running EXCEPT ![s] = FALSE]
            /\ timedOut' = [timedOut EXCEPT ![s] = TRUE]
  PROVE  IInv'
<1>1. /\ stack' = Append(stack, Result(s))
      /\ records' = [records EXCEPT ![s] = Append(@, answers[s])]
  BY DEF NavigateToResultScreen
<1>2. TypeOK /\ HomeBelow
  BY DEF IInv
<1>3. running' \in [Sessions -> BOOLEAN] /\ timedOut' \in [Sessions -> BOOLEAN]
      /\ \A x \in Sessions :
           /\ x # s => running'[x] = running[x] /\ timedOut'[x] = timedOut[x]
           /\ timedOut[x] => timedOut'[x]
  BY <1>2 DEF TypeOK
<1>4. phase[s] = "open" \/ (phase[s] = "leaving" /\ timedOut'[s])
  BY <1>2 DEF TypeOK
<1>5. /\ ResultAboveItsTest'
      /\ Cardinality(ResultsOf(s)') = Cardinality(ResultsOf(s)) + 1
      /\ \A x \in Sessions : x # s => ResultsOf(x)' = ResultsOf(x)
      /\ \A x \in Sessions : OnStack(Result(x))' <=> OnStack(Result(x)) \/ x = s
  BY <1>1, <1>3, <1>4, PushedResult
<1>6. stack' \in Seq(Routes) /\ Len(stack) \in Nat /\ Len(stack') = Len(stack) + 1
      /\ \A i \in 1..Len(stack) : stack'[i] = stack[i]
  BY <1>1, <1>2, PushedRoute, RouteTypes
<1>7. HomeBelow'
  BY <1>2, <1>6 DEF HomeBelow
<1>8. /\ records'[s] = Append(records[s], answers[s])
      /\ \A x \in Sessions : x # s => records'[x] = records[x]
      /\ records[s] \in Seq(Sheets) /\ answers[s] \in Sheets
  BY <1>1, <1>2 DEF TypeOK
<1>9. /\ records'[s] \in Seq(Sheets) /\ records'[s] # <<>>
      /\ Last(records'[s]) = answers[s]
      /\ \A i \in 1..Len(records'[s]) :
           \/ records'[s][i] = answers[s]
           \/ i \in 1..Len(records[s]) /\ records'[s][i] = records[s][i]
  BY <1>8, RecordAdded DEF Copied
<1>10. TypeOK'
  <2>1. records' \in [Sessions -> Seq(Sheets)]
    BY <1>1, <1>2, <1>8, <1>9 DEF TypeOK
  <2> QED
    BY <2>1, <1>2, <1>3, <1>6 DEF TypeOK
<1>11. \/ Cardinality(ResultsOf(s)) = 0 /\ Complete(answers[s]) /\ phase[s] = "open"
          /\ timedOut'[s] = timedOut[s] /\ running'[s] = running[s]
       \/ phase[s] = "open" /\ ~timedOut[s] /\ timedOut'[s] /\ ~running'[s]
       \/ Cardinality(ResultsOf(s)) = 0 /\ timedOut'[s] /\ ~running'[s]
  <2>1. phase[s] = "leaving" /\ ~timedOut[s] => Cardinality(ResultsOf(s)) = 0
    BY <1>2, MountedPhase, ResultsOnStack, ResultsFinite
  <2> QED
    BY <2>1, <1>2, ResultsFinite DEF TypeOK
<1>12. AtMostTwoResults'
  <2>1. ASSUME NEW x \in Sessions, x # s
        PROVE  /\ running'[x] => phase'[x] \in {"open", "leaving"} /\ ~timedOut'[x]
               /\ Cardinality(ResultsOf(x)') <=
                    IF timedOut'[x] /\ phase'[x] = "open" THEN 2 ELSE 1
    BY <2>1, <1>3, <1>5 DEF IInv, AtMostTwoResults
  <2>2. running'[s] => phase'[s] \in {"open", "leaving"} /\ ~timedOut'[s]
    BY <1>11 DEF IInv, AtMostTwoResults
  <2>3. Cardinality(ResultsOf(s)') <= IF timedOut'[s] /\ phase'[s] = "open" THEN 2 ELSE 1
    <3>1. Cardinality(ResultsOf(s)) \in Nat
          /\ Cardinality(ResultsOf(s)) <= IF timedOut[s] /\ phase[s] = "open" THEN 2 ELSE 1
      BY <1>2, ResultsFinite DEF IInv, AtMostTwoResults
    <3> QED
      BY <3>1, <1>5, <1>11
  <2> QED
    BY <2>1, <2>2, <2>3 DEF AtMostTwoResults
<1>13. ResultsSaved'
  <2>1. ASSUME NEW x \in Sessions, x # s
        PROVE  /\ OnStack(Result(x))' =>
                    records'[x] # <<>> /\ Last(records'[x]) = answers'[x]
               /\ OnStack(Result(x))' \/ exiting'[x] > 0 =>
                    Complete(answers'[x]) \/ timedOut'[x]
    BY <2>1, <1>3, <1>5, <1>8 DEF IInv, ResultsSaved
  <2>2. Complete(answers[s]) \/ timedOut'[s]
    BY <1>11
  <2> QED
    BY <2>1, <2>2, <1>9 DEF ResultsSaved
<1>14. PartialOnlyByTimeOut'
  <2>1. ASSUME NEW x \in Sessions, x # s, NEW i \in 1..Len(records'[x]),
               ~Complete(records'[x][i])
        PROVE  timedOut'[x]
    BY <2>1, <1>3, <1>8 DEF IInv, PartialOnlyByTimeOut
  <2>2. ASSUME NEW i \in 1..Len(records'[s]), ~Complete(records'[s][i])
        PROVE  timedOut'[s]
    BY <2>2, <1>3, <1>9, <1>11 DEF IInv, PartialOnlyByTimeOut
  <2> QED
    BY <2>1, <2>2 DEF PartialOnlyByTimeOut
<1>15. NothingBefore'
  <2>1. phase[s] \notin Waiting
    BY <1>4 DEF Waiting
  <2> QED
    BY <2>1, <1>3, <1>8 DEF IInv, NothingBefore
<1> QED
  BY <1>5, <1>7, <1>10, <1>12, <1>13, <1>14, <1>15 DEF IInv

LEMMA FinishTestInv ==
  ASSUME IInv, NEW s \in Sessions, FinishTest(s)
  PROVE  IInv'
<1>1. ResultsOf(s) = {} /\ phase[s] = "open"
  BY TopHasNoResults DEF FinishTest
<1> QED
  BY <1>1, NavigateInv DEF FinishTest

LEMMA TimeOutInv ==
  ASSUME IInv, NEW s \in Sessions, TimeOut(s)
  PROVE  IInv'
<1>1. phase[s] \in {"open", "leaving"} /\ ~timedOut[s]
  BY DEF TimeOut, IInv, AtMostTwoResults
<1> QED
  BY <1>1, NavigateInv DEF TimeOut

LEMMA RebuildResultsInv ==
  ASSUME IInv, RebuildResults
  PROVE  IInv'
<1>1. TypeOK /\ UNCHANGED <<stack, phase, exiting, answers, running, remaining, timedOut>>
  BY DEF IInv, RebuildResults
<1>2. \A s \in Sessions : Copied(records[s], answers[s], Mounted(s), records'[s])
  <2> SUFFICES ASSUME NEW s \in Sessions
               PROVE  Copied(records[s], answers[s], Mounted(s), records'[s])
    OBVIOUS
  <2>1. records'[s] = records[s] \o [i \in 1..Mounted(s) |-> answers[s]]
    BY DEF RebuildResults
  <2>2. records[s] \in Seq(Sheets) /\ answers[s] \in Sheets /\ Mounted(s) \in Nat
    BY <1>1, MountedCount DEF TypeOK
  <2> QED
    BY <2>1, <2>2, CopiesAdded
<1>3. TypeOK'
  <2>1. records' \in [Sessions -> Seq(Sheets)]
    BY <1>2 DEF RebuildResults, Copied
  <2> QED
    BY <1>1, <2>1 DEF TypeOK
<1>4. \A x, r : ResultsOf(x)' = ResultsOf(x) /\ (OnStack(r)' <=> OnStack(r))
  BY <1>1 DEF ResultsOf, OnStack
<1>5. HomeBelow' /\ ResultAboveItsTest' /\ AtMostTwoResults'
  BY <1>1, <1>4 DEF IInv, HomeBelow, ResultAboveItsTest, AtMostTwoResults
<1>6. ResultsSaved'
  <2>1. \A s \in Sessions : OnStack(Result(s)) => Mounted(s) # 0
    BY <1>1, MountedCount
  <2> QED
    BY <1>1, <1>2, <1>4, <2>1 DEF IInv, ResultsSaved, Copied
<1>7. PartialOnlyByTimeOut'
  <2> SUFFICES ASSUME NEW s \in Sessions, NEW i \in 1..Len(records'[s]),
                      ~Complete(records'[s][i])
               PROVE  timedOut[s]
    BY <1>1 DEF PartialOnlyByTimeOut
  <2>1. CASE Mounted(s) # 0 /\ records'[s][i] = answers[s]
    <3>1. OnStack(Result(s)) \/ exiting[s] > 0
      BY <2>1, <1>1, MountedCount
    <3> QED
      BY <2>1, <3>1, MountedPhase
  <2>2. CASE i \in 1..Len(records[s]) /\ records'[s][i] = records[s][i]
    BY <2>2 DEF IInv, PartialOnlyByTimeOut
  <2> QED
    BY <2>1, <2>2, <1>2 DEF Copied
<1>8. NothingBefore'
  <2> SUFFICES ASSUME NEW s \in Sessions, phase[s] \in Waiting
               PROVE  ~timedOut[s] /\ records'[s] = <<>> /\ exiting[s] = 0
    BY <1>1 DEF NothingBefore
  <2>1. ~timedOut[s] /\ records[s] = <<>> /\ exiting[s] = 0
    BY DEF IInv, NothingBefore
  <2>2. Mounted(s) = 0
    BY <2>1, <1>1, MountedPhase, MountedCount
  <2> QED
    BY <2>1, <2>2, <1>2 DEF Copied
<1> QED
  BY <1>3, <1>5, <1>6, <1>7, <1>8 DEF IInv

\* Back from a ResultScreen, or from a TestScreen, whose timer goes on.
LEMMA BackInv ==
  ASSUME IInv, NEW s \in Sessions, BackFromResult(s) \/ BackFromTest(s)
  PROVE  IInv'
<1>1. /\ stack' = Front(stack)
      /\ UNCHANGED <<answers, running, remaining, records, timedOut>>
      /\ \/ /\ Top = Result(s) /\ UNCHANGED phase
            /\ exiting' = [exiting EXCEPT ![s] = @ + 1]
         \/ /\ Top = Test(s) /\ phase' = [phase EXCEPT ![s] = "leaving"]
            /\ UNCHANGED exiting
  BY DEF BackFromResult, BackFromTest
<1>2. /\ ResultAboveItsTest' /\ HomeBelow' /\ stack' \in Seq(Routes)
      /\ \A x \in Sessions : OnStack(Result(x))' => OnStack(Result(x))
      /\ \A x \in Sessions :
           /\ Cardinality(ResultsOf(x)') \in Nat
           /\ Cardinality(ResultsOf(x)') <= Cardinality(ResultsOf(x))
  BY <1>1, Popped
<1>3. TypeOK
  BY DEF IInv
<1>4. /\ phase' \in [Sessions -> Phases] /\ exiting' \in [Sessions -> Nat]
      /\ \A x \in Sessions :
           /\ phase'[x] # phase[x] => Top = Test(x) /\ phase'[x] = "leaving"
           /\ exiting'[x] # exiting[x] => Top = Result(x)
  <2>1. "leaving" \in Phases /\ phase \in [Sessions -> Phases]
        /\ exiting \in [Sessions -> Nat]
    BY <1>3 DEF TypeOK, Phases
  <2>2. CASE /\ Top = Result(s) /\ UNCHANGED phase
             /\ exiting' = [exiting EXCEPT ![s] = @ + 1]
    BY <2>1, <2>2
  <2>3. CASE /\ Top = Test(s) /\ phase' = [phase EXCEPT ![s] = "leaving"]
             /\ UNCHANGED exiting
    BY <2>1, <2>3
  <2> QED
    BY <1>1, <2>2, <2>3
<1>5. TypeOK'
  BY <1>1, <1>2, <1>3, <1>4 DEF TypeOK
<1>6. Top \in Routes /\ OnStack(Top)
  <2>1. stack \in Seq(Routes) /\ Len(stack) \in 1..Len(stack)
    BY <1>3 DEF TypeOK, IInv, HomeBelow
  <2> QED
    BY <2>1 DEF Top, OnStack
<1>7. AtMostTwoResults'
  <2> SUFFICES ASSUME NEW x \in Sessions
               PROVE  /\ running[x] => phase'[x] \in {"open", "leaving"} /\ ~timedOut[x]
                      /\ Cardinality(ResultsOf(x)') <=
                           IF timedOut[x] /\ phase'[x] = "open" THEN 2 ELSE 1
    BY <1>1 DEF AtMostTwoResults
  <2>1. running[x] => phase'[x] \in {"open", "leaving"} /\ ~timedOut[x]
    BY <1>4 DEF IInv, AtMostTwoResults
  <2>2. /\ Cardinality(ResultsOf(x)') \in Nat /\ Cardinality(ResultsOf(x)) \in Nat
        /\ Cardinality(ResultsOf(x)') <= Cardinality(ResultsOf(x))
        /\ Cardinality(ResultsOf(x)) <=
             IF timedOut[x] /\ phase[x] = "open" THEN 2 ELSE 1
    BY <1>2, <1>3, ResultsFinite DEF IInv, AtMostTwoResults
  <2>3. CASE phase'[x] = phase[x]
    BY <2>1, <2>2, <2>3
  <2>4. CASE phase'[x] # phase[x]
    <3>1. Cardinality(ResultsOf(x)) = 0
      BY <2>4, <1>3, <1>4, TopHasNoResults, ResultsFinite
    <3> QED
      BY <2>1, <2>2, <3>1
  <2> QED
    BY <2>3, <2>4
<1>8. ResultsSaved'
  <2> SUFFICES ASSUME NEW x \in Sessions
               PROVE  /\ OnStack(Result(x))' =>
                           records[x] # <<>> /\ Last(records[x]) = answers[x]
                      /\ OnStack(Result(x))' \/ exiting'[x] > 0 =>
                           Complete(answers[x]) \/ timedOut[x]
    BY <1>1 DEF ResultsSaved
  <2>1. exiting'[x] = exiting[x] \/ OnStack(Result(x))
    BY <1>4, <1>6
  <2> QED
    BY <2>1, <1>2 DEF IInv, ResultsSaved
<1>9. PartialOnlyByTimeOut'
  BY <1>1 DEF IInv, PartialOnlyByTimeOut
<1>10. NothingBefore'
  <2> SUFFICES ASSUME NEW x \in Sessions, phase'[x] \in Waiting
               PROVE  ~timedOut[x] /\ records[x] = <<>> /\ exiting'[x] = 0
    BY <1>1 DEF NothingBefore
  <2>1. phase'[x] = phase[x]
    BY <1>4 DEF Waiting
  <2>2. ~OnStack(Result(x))
    BY <2>1, MountedPhase
  <2>3. exiting'[x] = exiting[x]
    BY <2>2, <1>4, <1>6
  <2> QED
    BY <2>1, <2>3, <1>1 DEF IInv, NothingBefore
<1> QED
  BY <1>2, <1>5, <1>7, <1>8, <1>9, <1>10 DEF IInv

\* The home page alone is left: what is still mounted was so before.
LEMMA HomeAlone ==
  ASSUME IInv, stack' = <<Home>>, UNCHANGED <<answers, records, timedOut>>,
         phase' \in [Sessions -> Phases], exiting' \in [Sessions -> Nat],
         running' \in [Sessions -> BOOLEAN], remaining' \in [Sessions -> Nat],
         \A s \in Sessions :
           /\ phase'[s] # "open"
           /\ phase'[s] \in Waiting => phase[s] \in Waiting
           /\ exiting'[s] > 0 => Mounted(s) > 0
           /\ running'[s] => running[s] /\ phase'[s] = "leaving"
  PROVE  IInv'
<1>1. TypeOK
  BY DEF IInv
<1>2. TypeOK'
  BY <1>1, RouteTypes DEF TypeOK
<1>3. HomeBelow'
  BY DEF HomeBelow
<1>4. \A s \in Sessions : ~OnStack(Test(s))' /\ ~OnStack(Result(s))'
  BY RoutesDiffer DEF OnStack
<1>5. ResultAboveItsTest'
  <2>1. \A i \in 1..Len(stack'), s \in Sessions :
          stack'[i] # Test(s) /\ stack'[i] # Result(s)
    BY <1>4 DEF OnStack
  <2> QED
    BY <1>4, <2>1 DEF ResultAboveItsTest
<1>6. AtMostTwoResults'
  <2>1. \A s \in Sessions : Cardinality(ResultsOf(s)') = 0
    BY <1>4, FS_EmptySet DEF ResultsOf, OnStack
  <2> QED
    BY <2>1 DEF IInv, AtMostTwoResults
<1>7. \A s \in Sessions : exiting'[s] > 0 => OnStack(Result(s)) \/ exiting[s] > 0
  BY <1>1, MountedCount
<1>8. ResultsSaved'
  BY <1>4, <1>7 DEF IInv, ResultsSaved
<1>9. PartialOnlyByTimeOut'
  BY DEF IInv, PartialOnlyByTimeOut
<1>10. NothingBefore'
  <2> SUFFICES ASSUME NEW s \in Sessions, phase'[s] \in Waiting
               PROVE  ~timedOut[s] /\ records[s] = <<>> /\ exiting'[s] = 0
    BY DEF NothingBefore
  <2>1. phase[s] \in Waiting
    OBVIOUS
  <2>2. ~(exiting'[s] > 0) /\ exiting'[s] \in Nat
    BY <2>1, <1>7, MountedPhase
  <2> QED
    BY <2>1, <2>2 DEF IInv, NothingBefore
<1> QED
  BY <1>2, <1>3, <1>5, <1>6, <1>8, <1>9, <1>10 DEF IInv

LEMMA MainMenuInv ==
  ASSUME IInv, MainMenu
  PROVE  IInv'
<1>1. TypeOK
  BY DEF IInv
<1>2. /\ stack' = <<Home>> /\ UNCHANGED <<answers, running, remaining, records, timedOut>>
      /\ exiting' = [s \in Sessions |-> Mounted(s)]
      /\ phase' = [s \in Sessions |->
                     CASE phase[s] = "open"    -> "leaving"
                       [] phase[s] = "loading" -> "stranded"
                       [] OTHER                -> phase[s]]
  BY DEF MainMenu
<1>3. exiting' \in [Sessions -> Nat]
      /\ \A s \in Sessions : exiting'[s] > 0 => Mounted(s) > 0
  BY <1>1, <1>2, MountedCount
<1>4. ASSUME NEW s \in Sessions
      PROVE  /\ phase'[s] \in Phases /\ phase'[s] # "open"
             /\ phase'[s] \in Waiting => phase[s] \in Waiting
             /\ running'[s] => running[s] /\ phase'[s] = "leaving"
  <2>1. phase[s] \in Phases /\ (running[s] => phase[s] \in {"open", "leaving"})
    BY <1>1 DEF TypeOK, IInv, AtMostTwoResults
  <2>2. phase'[s] = CASE phase[s] = "open"    -> "leaving"
                      [] phase[s] = "loading" -> "stranded"
                      [] OTHER                -> phase[s]
    BY <1>2
  <2>3. phase[s] = "open" => phase'[s] = "leaving"
    BY <2>2
  <2>4. phase[s] = "loading" => phase'[s] = "stranded"
    BY <2>2
  <2>5. phase[s] \notin {"open", "loading"} => phase'[s] = phase[s]
    BY <2>2
  <2> QED
    BY <2>1, <2>3, <2>4, <2>5, <1>2 DEF Phases, Waiting
<1>5. phase' \in [Sessions -> Phases]
  BY <1>2, <1>4
<1>6. running' \in [Sessions -> BOOLEAN] /\ remaining' \in [Sessions -> Nat]
  BY <1>1, <1>2 DEF TypeOK
<1> QED
  BY <1>2, <1>3, <1>4, <1>5, <1>6, HomeAlone

\* The end of the process: every page is gone.
TestsEnd ==
  /\ stack' = <<Home>> /\ UNCHANGED <<answers, remaining, records, timedOut>>
  /\ phase' = [s \in Sessions |-> IF phase[s] = "unused" THEN "unused" ELSE "closed"]
  /\ exiting' = [s \in Sessions |-> 0]
  /\ running' = [s \in Sessions |-> FALSE]

LEMMA TestsEndInv ==
  ASSUME IInv, TestsEnd
  PROVE  IInv'
<1>1. /\ stack' = <<Home>> /\ UNCHANGED <<answers, remaining, records, timedOut>>
      /\ phase' = [s \in Sessions |-> IF phase[s] = "unused" THEN "unused" ELSE "closed"]
      /\ exiting' = [s \in Sessions |-> 0]
      /\ running' = [s \in Sessions |-> FALSE]
  BY DEF TestsEnd
<1>2. remaining' \in [Sessions -> Nat]
  BY <1>1 DEF IInv, TypeOK
<1>3. /\ phase' \in [Sessions -> Phases] /\ exiting' \in [Sessions -> Nat]
      /\ running' \in [Sessions -> BOOLEAN]
      /\ \A s \in Sessions :
           /\ phase'[s] # "open"
           /\ phase'[s] \in Waiting => phase[s] \in Waiting
           /\ ~(exiting'[s] > 0) /\ ~running'[s]
  BY <1>1 DEF Phases, Waiting
<1> QED
  BY <1>1, <1>2, <1>3, HomeAlone

LEMMA NextInv == IInv /\ [Next]_vars => IInv'
<1> SUFFICES ASSUME IInv, [Next]_vars
             PROVE  IInv'
  OBVIOUS
<1>1. CASE UNCHANGED vars
  <2>1. UNCHANGED <<stack, answers, records, timedOut, phase, exiting, running, remaining>>
    BY <1>1 DEF vars
  <2>2. /\ phase' \in [Sessions -> Phases] /\ exiting' \in [Sessions -> Nat]
        /\ running' \in [Sessions -> BOOLEAN] /\ remaining' \in [Sessions -> Nat]
    BY <2>1 DEF IInv, TypeOK
  <2> QED
    BY <2>1, <2>2, QuietStep
<1>2. CASE \E s \in Sessions :
             \/ StartTest(s) \/ NoQuestions(s) \/ Tick(s)
             \/ \E timed \in BOOLEAN : QuestionsArrive(s, timed)
             \/ \E q \in Questions, o \in Options : ChooseOption(s, q, o)
  BY <1>2, StartTestInv, TickInv, QuestionsArriveInv, ChooseOptionInv
<1>3. CASE \E s \in Sessions :
             \/ FinishTest(s) \/ TimeOut(s) \/ BackFromResult(s) \/ BackFromTest(s)
             \/ DisposeTest(s) \/ DisposeResult(s)
  BY <1>3, FinishTestInv, TimeOutInv, BackInv, DisposeInv
<1>4. CASE RebuildResults \/ MainMenu
  BY <1>4, RebuildResultsInv, MainMenuInv
<1> QED
  BY <1>1, <1>2, <1>3, <1>4 DEF Next

-----------------------------------------------------------------------------
(***************************************************************************)
(* Theorems                                                                *)
(***************************************************************************)

\* The invariant holds in every behaviour, whatever the constants.
THEOREM Inductive == Spec => []IInv
BY InitInv, NextInv, PTL DEF Spec

\* Type correctness.
THEOREM TypeCorrect == Spec => []TypeOK
<1>1. IInv => TypeOK
  BY DEF IInv
<1> QED
  BY <1>1, Inductive, PTL

\* A ResultScreen lies above the one TestScreen whose answers it shares, unless
\* the timer pushed it when its test had been left.
THEOREM ResultsLieAbove == Spec => []ResultAboveItsTest
<1>1. IInv => ResultAboveItsTest
  BY DEF IInv
<1> QED
  BY <1>1, Inductive, PTL

\* Timers belong to screens that are mounted, left ones included, and push one
\* ResultScreen at most.
THEOREM TimersPushOnce == Spec => []AtMostTwoResults
<1>1. IInv => AtMostTwoResults
  BY DEF IInv
<1> QED
  BY <1>1, Inductive, PTL

\* What a ResultScreen shows is what saveTestResult was last called with.
THEOREM TopIsRecorded == Spec => []ShownIsRecorded
<1>1. IInv => ShownIsRecorded
  <2> SUFFICES ASSUME IInv, NEW s \in Sessions, Top = Result(s)
               PROVE  records[s] # <<>> /\ Last(records[s]) = answers[s]
    BY DEF ShownIsRecorded
  <2>1. Len(stack) \in Nat /\ Len(stack) >= 1
    BY DEF IInv, TypeOK, HomeBelow
  <2>2. OnStack(Result(s))
    BY <2>1 DEF OnStack, Top
  <2> QED
    BY <2>2 DEF IInv, ResultsSaved
<1> QED
  BY <1>1, Inductive, PTL

\* An unfinished sheet is saved only when the time is up.
THEOREM PartialNeedsTimeOut == Spec => []PartialOnlyByTimeOut
<1>1. IInv => PartialOnlyByTimeOut
  BY DEF IInv
<1> QED
  BY <1>1, Inductive, PTL

-----------------------------------------------------------------------------
(***************************************************************************)
(* The refinement of QuizPromise                                           *)
(***************************************************************************)

\* What a step does to one test.
Waits(s) ==
  /\ Status(s)' = Status(s) /\ answers'[s] = answers[s] /\ records'[s] = records[s]
Moves(s) ==
  /\ \/ Status(s)' = "over"
     \/ Status(s) = "new" /\ Status(s)' = "open" /\ records[s] = <<>>
     \/ Status(s) = "open" /\ Status(s)' = "left"
  /\ answers'[s] = answers[s] /\ records'[s] = records[s]
Chooses(s) ==
  /\ Status(s) = "open" /\ Status(s)' = "open" /\ records'[s] = records[s]
Saves(s) ==
  /\ Status(s) \in {"open", "left"} /\ Status(s)' = Status(s)
  /\ answers'[s] = answers[s]
  /\ IsStrictPrefix(records[s], records'[s])
  /\ \A i \in (Len(records[s]) + 1)..Len(records'[s]) : records'[s][i] = answers[s]

\* MountedCount of the next state.
LEMMA MountedLater ==
  ASSUME TypeOK', NEW s \in Sessions
  PROVE  Mounted(s)' = 0 <=> ~OnStack(Result(s))' /\ exiting'[s] = 0
<1>1. Len(stack') \in Int /\ exiting'[s] \in Nat
  BY DEF TypeOK
<1>2. IsFiniteSet(1..Len(stack')) /\ ResultsOf(s)' \in SUBSET (1..Len(stack'))
  BY <1>1, FS_Interval DEF ResultsOf
<1>3. /\ Cardinality(ResultsOf(s)') \in Nat
      /\ Cardinality(ResultsOf(s)') = 0 <=> ResultsOf(s)' = {}
  BY <1>2, FS_Subset, FS_CardinalityType, FS_EmptySet
<1>4. ResultsOf(s)' = {} <=> ~OnStack(Result(s))'
  BY DEF ResultsOf, OnStack
<1> QED
  BY <1>1, <1>3, <1>4 DEF Mounted

\* Only the phase counts, and for a test that is closed whether any of its
\* ResultScreens is mounted.
LEMMA StatusKept ==
  ASSUME TypeOK, TypeOK', NEW s \in Sessions, phase'[s] = phase[s],
         OnStack(Result(s))' \/ exiting'[s] # 0 <=> OnStack(Result(s)) \/ exiting[s] # 0
  PROVE  Status(s)' = Status(s)
<1>1. Mounted(s)' = 0 <=> Mounted(s) = 0
  BY MountedCount, MountedLater
<1> QED
  BY <1>1 DEF Status

\* A test that waits for its questions is new, one on the stack is open, and one
\* that is closed without ResultScreens is over.
LEMMA StatusOf ==
  ASSUME TypeOK, NEW s \in Sessions
  PROVE  /\ phase[s] \in Waiting => Status(s) = "new"
         /\ phase[s] = "open" => Status(s) = "open"
         /\ phase[s] = "leaving" => Status(s) = "left"
         /\ phase[s] = "closed" =>
              Status(s) = IF OnStack(Result(s)) \/ exiting[s] # 0 THEN "left" ELSE "over"
<1>1. Mounted(s) = 0 <=> ~(OnStack(Result(s)) \/ exiting[s] # 0)
  BY MountedCount
<1> QED
  BY <1>1 DEF Status, Waiting

LEMMA StatusLater ==
  ASSUME TypeOK', NEW s \in Sessions
  PROVE  /\ phase'[s] \in Waiting => Status(s)' = "new"
         /\ phase'[s] = "open" => Status(s)' = "open"
         /\ phase'[s] = "leaving" => Status(s)' = "left"
         /\ phase'[s] = "closed" =>
              Status(s)' = IF OnStack(Result(s))' \/ exiting'[s] # 0 THEN "left" ELSE "over"
<1>1. Mounted(s)' = 0 <=> ~(OnStack(Result(s))' \/ exiting'[s] # 0)
  BY MountedLater
<1> QED
  BY <1>1 DEF Status, Waiting

\* Nothing of a test that waits for its questions is mounted.
LEMMA WaitingUnmounted ==
  ASSUME IInv, NEW s \in Sessions, phase[s] \in Waiting
  PROVE  ~OnStack(Result(s)) /\ exiting[s] = 0 /\ records[s] = <<>>
BY MountedPhase DEF IInv, NothingBefore

\* Steps that leave the routes, the answers and the records alone move a test
\* forward or not at all.
LEMMA QuietMoves ==
  ASSUME IInv, IInv', NEW s \in Sessions, UNCHANGED <<stack, answers, records>>,
         \/ phase'[s] = phase[s]
         \/ phase[s] = "unused" /\ phase'[s] = "loading"
         \/ phase[s] \in {"loading", "stranded", "leaving"} /\ phase'[s] = "closed",
         exiting'[s] # 0 => exiting[s] # 0
  PROVE  Waits(s) \/ Moves(s)
<1>1. TypeOK /\ TypeOK' /\ phase[s] \in Phases
  BY DEF IInv, TypeOK
<1>2. OnStack(Result(s))' <=> OnStack(Result(s))
  BY DEF OnStack
<1>3. CASE phase'[s] \in Waiting
  <2>1. phase[s] \in Waiting
    BY <1>3 DEF Waiting
  <2> QED
    BY <2>1, <1>1, <1>3, StatusOf, StatusLater DEF Waits
<1>4. CASE phase'[s] \in {"open", "leaving"}
  <2>1. phase'[s] = phase[s]
    BY <1>4
  <2> QED
    BY <2>1, <1>1, <1>4, StatusOf, StatusLater DEF Waits
<1>5. CASE phase'[s] = "closed"
  <2>1. CASE OnStack(Result(s))' \/ exiting'[s] # 0
    <3>1. phase[s] \notin Waiting
      BY <2>1, <1>2, WaitingUnmounted
    <3>2. Status(s)' = "left" /\ Status(s) = "left"
      BY <2>1, <3>1, <1>1, <1>2, <1>5, StatusOf, StatusLater DEF Waiting
    <3> QED
      BY <3>2 DEF Waits
  <2>2. CASE ~(OnStack(Result(s))' \/ exiting'[s] # 0)
    BY <2>2, <1>1, <1>5, StatusLater DEF Moves
  <2> QED
    BY <2>1, <2>2
<1>6. phase'[s] \in Phases
  BY <1>1 DEF TypeOK
<1> QED
  BY <1>3, <1>4, <1>5, <1>6 DEF Phases, Waiting

LEMMA ArriveMoves ==
  ASSUME IInv, IInv', NEW s \in Sessions, NEW timed \in BOOLEAN, QuestionsArrive(s, timed)
  PROVE  \A x \in Sessions : Waits(x) \/ Moves(x)
<1>1. /\ phase[s] \in {"loading", "stranded"} /\ phase' = [phase EXCEPT ![s] = "open"]
      /\ stack' = Append(stack, Test(s)) /\ UNCHANGED <<exiting, answers, records, timedOut>>
  BY DEF QuestionsArrive
<1>2. TypeOK /\ TypeOK'
  BY DEF IInv
<1>3. \A x \in Sessions : OnStack(Result(x))' <=> OnStack(Result(x))
  BY <1>1, PushedTest
<1>4. Moves(s)
  <2>1. phase[s] \in Waiting /\ phase'[s] = "open"
    BY <1>1, <1>2 DEF Waiting, TypeOK
  <2> QED
    BY <2>1, <1>1, <1>2, StatusOf, StatusLater, WaitingUnmounted DEF Moves
<1>5. ASSUME NEW x \in Sessions, x # s
      PROVE  Waits(x)
  BY <1>1, <1>2, <1>3, <1>5, StatusKept DEF Waits, TypeOK
<1> QED
  BY <1>4, <1>5

LEMMA ChooseChanges ==
  ASSUME IInv, IInv', NEW s \in Sessions, NEW q \in Questions, NEW o \in Options,
         ChooseOption(s, q, o)
  PROVE  \A x \in Sessions : Waits(x) \/ Chooses(x)
<1>1. /\ Top = Test(s) /\ answers' = [answers EXCEPT ![s][q] = o]
      /\ UNCHANGED <<stack, phase, exiting, records>>
  BY DEF ChooseOption
<1>2. TypeOK /\ TypeOK' /\ phase[s] = "open"
  BY <1>1, TopHasNoResults DEF IInv
<1>3. Chooses(s)
  BY <1>1, <1>2, StatusOf, StatusLater DEF Chooses
<1>4. ASSUME NEW x \in Sessions, x # s
      PROVE  Waits(x)
  <2>1. OnStack(Result(x))' <=> OnStack(Result(x))
    BY <1>1 DEF OnStack
  <2>2. answers'[x] = answers[x]
    BY <1>1, <1>2, <1>4 DEF TypeOK
  <2> QED
    BY <2>1, <2>2, <1>1, <1>2, StatusKept DEF Waits
<1> QED
  BY <1>3, <1>4

LEMMA NavigateSaves ==
  ASSUME IInv, IInv', NEW s \in Sessions, FinishTest(s) \/ TimeOut(s)
  PROVE  \A x \in Sessions : Waits(x) \/ Saves(x)
<1>1. TypeOK /\ TypeOK'
  BY DEF IInv
<1>2. UNCHANGED <<phase, exiting, answers>> /\ stack' = Append(stack, Result(s))
  BY DEF FinishTest, TimeOut, NavigateToResultScreen
<1>3. phase[s] \in {"open", "leaving"} /\ (phase[s] = "leaving" => timedOut'[s])
  <2>1. CASE FinishTest(s)
    BY <2>1, TopHasNoResults DEF FinishTest
  <2>2. CASE TimeOut(s)
    BY <2>2, <1>1 DEF TimeOut, IInv, AtMostTwoResults, TypeOK
  <2> QED
    BY <2>1, <2>2
<1>4. \A x \in Sessions : timedOut[x] => timedOut'[x]
  BY <1>1 DEF FinishTest, TimeOut, TypeOK
<1>5. \A x \in Sessions : OnStack(Result(x))' <=> OnStack(Result(x)) \/ x = s
  BY <1>2, <1>3, <1>4, PushedResult
<1>6. /\ records[s] \in Seq(Sheets) /\ answers[s] \in Sheets
      /\ records'[s] = Append(records[s], answers[s])
      /\ \A x \in Sessions : x # s => records'[x] = records[x]
  BY <1>1 DEF FinishTest, TimeOut, NavigateToResultScreen, TypeOK
<1>7. Copied(records[s], answers[s], 1, records'[s])
  BY <1>6, RecordAdded
<1>8. Status(s) \in {"open", "left"} /\ Status(s)' = Status(s)
  BY <1>1, <1>2, <1>3, StatusOf, StatusLater
<1>9. Saves(s)
  BY <1>2, <1>7, <1>8 DEF Saves, Copied
<1>10. ASSUME NEW x \in Sessions, x # s
       PROVE  Waits(x)
  BY <1>1, <1>2, <1>5, <1>6, <1>10, StatusKept DEF Waits
<1> QED
  BY <1>9, <1>10

LEMMA RebuildSaves ==
  ASSUME IInv, IInv', RebuildResults
  PROVE  \A x \in Sessions : Waits(x) \/ Saves(x)
<1> SUFFICES ASSUME NEW s \in Sessions
             PROVE  Waits(s) \/ Saves(s)
  OBVIOUS
<1>1. TypeOK /\ TypeOK' /\ UNCHANGED <<stack, phase, exiting, answers>>
  BY DEF IInv, RebuildResults
<1>2. records'[s] = records[s] \o [i \in 1..Mounted(s) |-> answers[s]]
  BY DEF RebuildResults
<1>3. records[s] \in Seq(Sheets) /\ answers[s] \in Sheets /\ Mounted(s) \in Nat
  BY <1>1, MountedCount DEF TypeOK
<1>4. Copied(records[s], answers[s], Mounted(s), records'[s])
  BY <1>2, <1>3, CopiesAdded
<1>5. Status(s)' = Status(s)
  <2>1. OnStack(Result(s))' <=> OnStack(Result(s))
    BY <1>1 DEF OnStack
  <2> QED
    BY <2>1, <1>1, StatusKept
<1>6. CASE Mounted(s) = 0
  BY <1>1, <1>4, <1>5, <1>6 DEF Waits, Copied
<1>7. CASE Mounted(s) # 0
  <2>1. OnStack(Result(s)) \/ exiting[s] > 0
    BY <1>1, <1>7, MountedCount
  <2>2. phase[s] \in {"open", "leaving", "closed"} /\ exiting[s] \in Nat
    BY <2>1, <1>1, MountedPhase DEF TypeOK, Phases, Waiting
  <2>3. Status(s) \in {"open", "left"}
    BY <2>1, <2>2, <1>1, StatusOf
  <2> QED
    BY <2>3, <1>1, <1>4, <1>5, <1>7 DEF Saves, Copied
<1> QED
  BY <1>6, <1>7

LEMMA BackMoves ==
  ASSUME IInv, IInv', NEW s \in Sessions, BackFromResult(s) \/ BackFromTest(s)
  PROVE  \A x \in Sessions : Waits(x) \/ Moves(x)
<1>1. /\ stack' = Front(stack) /\ UNCHANGED <<answers, records, timedOut>>
      /\ \/ /\ Top = Result(s) /\ UNCHANGED phase
            /\ exiting' = [exiting EXCEPT ![s] = @ + 1]
         \/ /\ Top = Test(s) /\ phase' = [phase EXCEPT ![s] = "leaving"]
            /\ UNCHANGED exiting
  BY DEF BackFromResult, BackFromTest
<1>2. TypeOK /\ TypeOK'
  BY DEF IInv
<1>3. /\ \A x \in Sessions : OnStack(Result(x))' => OnStack(Result(x))
      /\ \A x \in Sessions :
           OnStack(Result(x)) /\ Top # Result(x) => OnStack(Result(x))'
  BY <1>1, Popped
<1>4. CASE /\ Top = Result(s) /\ UNCHANGED phase
           /\ exiting' = [exiting EXCEPT ![s] = @ + 1]
  <2>1. OnStack(Result(s)) /\ exiting'[s] # 0
    <3>1. Len(stack) \in 1..Len(stack)
      BY DEF IInv, TypeOK, HomeBelow
    <3> QED
      BY <3>1, <1>2, <1>4 DEF OnStack, Top, TypeOK
  <2>2. ASSUME NEW x \in Sessions, x # s
        PROVE  /\ exiting'[x] = exiting[x]
               /\ OnStack(Result(x))' <=> OnStack(Result(x))
    <3>1. Top # Result(x)
      BY <2>2, <1>4, RoutesDiffer
    <3> QED
      BY <2>2, <3>1, <1>2, <1>3, <1>4 DEF TypeOK
  <2> QED
    BY <2>1, <2>2, <1>1, <1>2, <1>4, StatusKept DEF Waits
<1>5. CASE /\ Top = Test(s) /\ phase' = [phase EXCEPT ![s] = "leaving"]
           /\ UNCHANGED exiting
  <2>1. phase[s] = "open"
    BY <1>5, TopHasNoResults
  <2>2. phase'[s] = "leaving"
    BY <1>2, <1>5 DEF TypeOK
  <2>3. Moves(s)
    BY <2>1, <2>2, <1>1, <1>2, StatusOf, StatusLater DEF Moves
  <2>4. ASSUME NEW x \in Sessions, x # s
        PROVE  Waits(x)
    <3>1. Top # Result(x)
      BY <1>5, RoutesDiffer
    <3>2. phase'[x] = phase[x]
      BY <2>4, <1>2, <1>5 DEF TypeOK
    <3> QED
      BY <3>1, <3>2, <1>1, <1>2, <1>3, <1>5, StatusKept DEF Waits
  <2> QED
    BY <2>3, <2>4
<1> QED
  BY <1>1, <1>4, <1>5

LEMMA MainMenuMoves ==
  ASSUME IInv, IInv', MainMenu
  PROVE  \A x \in Sessions : Waits(x) \/ Moves(x)
<1> SUFFICES ASSUME NEW s \in Sessions
             PROVE  Waits(s) \/ Moves(s)
  OBVIOUS
<1>1. TypeOK /\ TypeOK' /\ phase[s] \in Phases
  BY DEF IInv, TypeOK
<1>2. /\ stack' = <<Home>> /\ UNCHANGED <<answers, records>>
      /\ exiting'[s] = Mounted(s)
      /\ phase'[s] = CASE phase[s] = "open"    -> "leaving"
                       [] phase[s] = "loading" -> "stranded"
                       [] OTHER                -> phase[s]
  BY DEF MainMenu
<1>3. CASE phase[s] = "open"
  <2>1. phase'[s] = "leaving"
    BY <1>2, <1>3
  <2> QED
    BY <2>1, <1>1, <1>2, <1>3, StatusOf, StatusLater DEF Moves
<1>4. CASE phase[s] = "loading"
  <2>1. phase'[s] = "stranded"
    BY <1>2, <1>4
  <2>2. phase[s] \in Waiting /\ phase'[s] \in Waiting
    BY <2>1, <1>4 DEF Waiting
  <2> QED
    BY <2>2, <1>1, <1>2, StatusOf, StatusLater DEF Waits
<1>5. CASE phase[s] \notin {"open", "loading"}
  <2>1. phase'[s] = phase[s]
    BY <1>2, <1>5
  <2>2. ~OnStack(Result(s))'
    BY <1>2, RoutesDiffer DEF OnStack
  <2>3. exiting'[s] # 0 <=> OnStack(Result(s)) \/ exiting[s] # 0
    BY <1>1, <1>2, MountedCount
  <2> QED
    BY <2>1, <2>2, <2>3, <1>1, <1>2, StatusKept DEF Waits
<1> QED
  BY <1>3, <1>4, <1>5

LEMMA EndMoves ==
  ASSUME IInv, IInv', TestsEnd
  PROVE  \A x \in Sessions : Waits(x) \/ Moves(x)
<1> SUFFICES ASSUME NEW s \in Sessions
             PROVE  Waits(s) \/ Moves(s)
  OBVIOUS
<1>1. TypeOK /\ TypeOK'
  BY DEF IInv
<1>2. /\ stack' = <<Home>> /\ UNCHANGED <<answers, records>> /\ exiting'[s] = 0
      /\ phase'[s] = IF phase[s] = "unused" THEN "unused" ELSE "closed"
  BY DEF TestsEnd
<1>3. CASE phase[s] = "unused"
  BY <1>1, <1>2, <1>3, StatusOf, StatusLater DEF Waits, Waiting
<1>4. CASE phase[s] # "unused"
  <2>1. ~OnStack(Result(s))'
    BY <1>2, RoutesDiffer DEF OnStack
  <2> QED
    BY <2>1, <1>1, <1>2, <1>4, StatusLater DEF Moves
<1> QED
  BY <1>3, <1>4

\* Each step does one of the four to each test.
LEMMA TestSteps ==
  ASSUME IInv, IInv', [Next]_vars \/ TestsEnd
  PROVE  \A x \in Sessions : Waits(x) \/ Moves(x) \/ Chooses(x) \/ Saves(x)
<1>1. phase \in [Sessions -> Phases] /\ exiting \in [Sessions -> Nat]
  BY DEF IInv, TypeOK
<1>2. ASSUME NEW s \in Sessions, StartTest(s) \/ NoQuestions(s) \/ Tick(s)
      PROVE  \A x \in Sessions : Waits(x) \/ Moves(x)
  <2>1. UNCHANGED <<stack, answers, records, exiting>>
    BY <1>2 DEF StartTest, NoQuestions, Tick
  <2>2. \A x \in Sessions :
          \/ phase'[x] = phase[x]
          \/ phase[x] = "unused" /\ phase'[x] = "loading"
          \/ phase[x] \in {"loading", "stranded", "leaving"} /\ phase'[x] = "closed"
    BY <1>1, <1>2 DEF StartTest, NoQuestions, Tick
  <2> QED
    BY <2>1, <2>2, QuietMoves
<1>3. ASSUME NEW s \in Sessions, DisposeTest(s) \/ DisposeResult(s)
      PROVE  \A x \in Sessions : Waits(x) \/ Moves(x)
  <2>1. UNCHANGED <<stack, answers, records>>
    BY <1>3 DEF DisposeTest, DisposeResult
  <2>2. \A x \in Sessions :
          /\ \/ phase'[x] = phase[x]
             \/ phase[x] \in {"loading", "stranded", "leaving"} /\ phase'[x] = "closed"
          /\ exiting'[x] # 0 => exiting[x] # 0
    BY <1>1, <1>3 DEF DisposeTest, DisposeResult
  <2> QED
    BY <2>1, <2>2, QuietMoves
<1>4. CASE UNCHANGED vars
  <2>1. UNCHANGED <<stack, answers, records, exiting, phase>>
    BY <1>4 DEF vars
  <2> QED
    BY <2>1, QuietMoves
<1> QED
  BY <1>2, <1>3, <1>4, ArriveMoves, ChooseChanges, NavigateSaves, RebuildSaves,
     BackMoves, MainMenuMoves, EndMoves DEF Next

\* What is done to a test is allowed by its promise.
LEMMA PromiseStep ==
  ASSUME IInv, IInv', [Next]_vars \/ TestsEnd
  PROVE  Promise!Next
<1> DEFINE status == [s \in Sessions |-> Status(s)]
<1>1. \A s \in Sessions : status[s] = Status(s) /\ status'[s] = Status(s)'
  OBVIOUS
<1>2. status' \in [Sessions -> {"new", "open", "left", "over"}]
  <2>1. \A s \in Sessions : Status(s)' \in {"new", "open", "left", "over"}
    BY DEF Status
  <2> QED
    BY <2>1
<1>3. records' \in [Sessions -> Seq(Sheets)] /\ answers' \in [Sessions -> Sheets]
  BY DEF IInv, TypeOK
<1>4. ASSUME NEW s \in Sessions
      PROVE  Promise!Idle(s) \/ Promise!Move(s) \/ Promise!Answer(s) \/ Promise!Record(s)
  <2> HIDE DEF status
  <2>1. CASE Waits(s)
    BY <2>1, <1>1 DEF Waits, Promise!Idle, Promise!Stays, Promise!SameSheet,
       Promise!SameRecords, status
  <2>2. CASE Moves(s)
    BY <2>2, <1>1 DEF Moves, Promise!Move, Promise!Advance, Promise!SameSheet,
       Promise!SameRecords, status
  <2>3. CASE Chooses(s)
    BY <2>3, <1>1 DEF Chooses, Promise!Answer, Promise!Stays, Promise!SameRecords, status
  <2>4. CASE Saves(s)
    BY <2>4, <1>1 DEF Saves, Promise!Record, Promise!Stays, Promise!SameSheet,
       Promise!IsStrictPrefix, Promise!IsPrefix, IsStrictPrefix, IsPrefix, status
  <2> QED
    BY <2>1, <2>2, <2>3, <2>4, TestSteps
<1> QED
  BY <1>2, <1>3, <1>4 DEF Promise!Next, Promise!Statuses, status

LEMMA PromiseInit == Init => Promise!Init
<1>1. Blank \in Sheets
  BY DEF Blank, Sheets
<1> QED
  BY <1>1 DEF Init, Promise!Init, Status

\* Screens, timers and routes keep the promise of a test: it is opened once and
\* left once, and what is recorded, from its opening to the moment when the last
\* of its screens is gone, are copies of its answers, which stand still once it
\* was left.
THEOREM RefinesPromise == Spec => ImplementsPromise
<1>1. Init => Promise!Init
  BY PromiseInit
<1>2. IInv /\ IInv' /\ [Next]_vars => [Promise!Next]_(Promise!pvars)
  BY PromiseStep
<1> QED
  BY <1>1, <1>2, Inductive, PTL DEF Spec, ImplementsPromise, Promise!Spec

-----------------------------------------------------------------------------
(***************************************************************************)
(* The tests and the store of their results: the invariants of both, and   *)
(* what relates them.                                                      *)
(***************************************************************************)

HistoryTypeOK ==
  /\ latest \in [Sessions -> Nat]
  /\ overlapped \in [Sessions -> BOOLEAN]
  /\ undone \in BOOLEAN

\* ShownIsKept of every ResultScreen, covered or not: no clear began since it
\* saved, as the history page is covered.
KeptWhileShown ==
  \A s \in Sessions : OnStack(Result(s)) /\ ~overlapped[s] =>
    /\ ~ClearPending
    /\ latest[s] \in ToSet(memory) /\ latest[s] \in ToSet(Contents(cache))

\* What was deleted is not in the preferences, nor, but for the time until a
\* clear resumes, in the list that the next save writes.
RemovedStayGone ==
  /\ removed \subseteq 1..saved
  /\ ~undone =>
       /\ removed \cap ToSet(Contents(cache)) = {}
       /\ ClearPending \/ removed \cap ToSet(memory) = {}

QuizInv ==
  /\ IInv
  /\ StoreInv
  /\ HistoryTypeOK
  /\ KeptWhileShown
  /\ RemovedStayGone

-----------------------------------------------------------------------------
(* What the steps of the composition are to its parts *)

LEMMA TestsGoOn ==
  ASSUME [QuizNext]_allVars
  PROVE  [Next]_vars \/ TestsEnd
<1>1. CASE UNCHANGED allVars
  BY <1>1 DEF allVars
<1>2. CASE TestStep
  BY <1>2 DEF TestStep, Next
<1>3. CASE \E s \in Sessions : FinishAndSave(s) \/ TimeOutAndSave(s)
  BY <1>3 DEF FinishAndSave, TimeOutAndSave, Next
<1>4. CASE RebuildAndSave \/ MainMenuAll
  BY <1>4 DEF RebuildAndSave, MainMenuAll, Next
<1>5. CASE HistoryStep \/ DeleteOne \/ FlushStep
  BY <1>5 DEF HistoryStep, DeleteOne, FlushStep
<1>6. CASE RestartAll
  BY <1>6 DEF RestartAll, TestsEnd
<1> QED
  BY <1>1, <1>2, <1>3, <1>4, <1>5, <1>6 DEF QuizNext

LEMMA ListsGoOn ==
  ASSUME [QuizNext]_allVars
  PROVE  [StoreNext]_storeVars \/ RebuildAndSave \/ MainMenuAll
<1>1. CASE UNCHANGED allVars
  BY <1>1 DEF allVars
<1>2. CASE TestStep
  BY <1>2 DEF TestStep
<1>3. CASE \E s \in Sessions : FinishAndSave(s) \/ TimeOutAndSave(s)
  BY <1>3 DEF FinishAndSave, TimeOutAndSave, Pushed, StoreNext
<1>4. CASE HistoryStep \/ DeleteOne \/ FlushStep \/ RestartAll
  BY <1>4 DEF HistoryStep, DeleteOne, FlushStep, Flush, RestartAll, StoreNext
<1> QED
  BY <1>1, <1>2, <1>3, <1>4 DEF QuizNext

-----------------------------------------------------------------------------
(* Lists that grow *)

LEMMA AppendedSet ==
  ASSUME NEW S, NEW s \in Seq(S), NEW e \in S
  PROVE  ToSet(Append(s, e)) = ToSet(s) \union {e}
<1> DEFINE t == Append(s, e)
<1>1. /\ Len(s) \in Nat /\ t \in Seq(S) /\ Len(t) = Len(s) + 1
      /\ \A i \in 1..Len(s) : t[i] = s[i]
      /\ t[Len(s) + 1] = e
  BY AppendProperties
<1> HIDE DEF t
<1>2. DOMAIN s = 1..Len(s) /\ DOMAIN t = 1..Len(t)
  BY <1>1
<1>3. \A i \in 1..Len(t) : i \in 1..Len(s) \/ i = Len(s) + 1
  BY <1>1
<1>4. (\A i \in 1..Len(s) : i \in 1..Len(t)) /\ Len(s) + 1 \in 1..Len(t)
  BY <1>1
<1>5. ToSet(t) = ToSet(s) \union {e}
  BY <1>1, <1>2, <1>3, <1>4 DEF ToSet
<1> QED
  BY <1>5 DEF t

\* The results that are saved together are listed behind the older ones.
Grown(s, n, k) == s \o [i \in 1..k |-> n + i]

GrowsTo(s, n, k, t) ==
  /\ t \in Seq(Results) /\ Len(t) = Len(s) + k
  /\ \A i \in 1..Len(s) : t[i] = s[i]
  /\ ToSet(t) = ToSet(s) \union (n + 1)..(n + k)
  /\ \A m \in Nat : m >= n + k => Chronological(t, m)

LEMMA NewResults ==
  ASSUME NEW n \in Nat, NEW s \in Seq(Results), Chronological(s, n), NEW k \in Nat
  PROVE  GrowsTo(s, n, k, Grown(s, n, k))
<1> DEFINE new == [i \in 1..k |-> n + i]
           t == Grown(s, n, k)
<1>1. new \in Seq(Results) /\ Len(new) = k /\ \A i \in 1..k : new[i] = n + i
  <2>1. \A i \in 1..k : n + i \in Results
    BY DEF Results
  <2> QED
    BY <2>1, IsASeq
<1>2. t = s \o new
  BY DEF Grown
<1> HIDE DEF new, t
<1>3. /\ t \in Seq(Results) /\ Len(t) = Len(s) + k /\ Len(s) \in Nat
      /\ \A i \in 1..Len(t) : t[i] = IF i <= Len(s) THEN s[i] ELSE new[i - Len(s)]
  <2>1. PICK more \in Seq(Results) : more = new
    BY <1>1
  <2>2. t = s \o more /\ Len(more) = k
    BY <2>1, <1>1, <1>2
  <2>3. /\ s \o more \in Seq(Results) /\ Len(s \o more) = Len(s) + Len(more)
        /\ \A i \in 1..(Len(s) + Len(more)) :
             (s \o more)[i] = IF i <= Len(s) THEN s[i] ELSE more[i - Len(s)]
    BY ConcatProperties, Zenon
  <2>4. t \in Seq(Results) /\ Len(t) = Len(s) + k
    BY <2>2, <2>3, Zenon
  <2>5. \A i \in 1..Len(t) : t[i] = IF i <= Len(s) THEN s[i] ELSE new[i - Len(s)]
    BY <2>1, <2>2, <2>3, Zenon
  <2>6. Len(s) \in Nat
    OBVIOUS
  <2> QED
    BY <2>4, <2>5, <2>6, Zenon
<1>4. \A i \in 1..Len(s) : i \in 1..Len(t) /\ t[i] = s[i]
  BY <1>3
<1>5. \A i \in 1..Len(t) : i \in 1..Len(s) \/ (i - Len(s) \in 1..k /\ t[i] = n + (i - Len(s)))
  BY <1>1, <1>3
<1>6. \A j \in 1..k : Len(s) + j \in 1..Len(t) /\ t[Len(s) + j] = n + j
  <2> SUFFICES ASSUME NEW j \in 1..k
               PROVE  Len(s) + j \in 1..Len(t) /\ t[Len(s) + j] = n + j
    OBVIOUS
  <2>1. /\ Len(s) + j \in 1..Len(t) /\ ~(Len(s) + j <= Len(s))
        /\ (Len(s) + j) - Len(s) = j
    BY <1>3
  <2> QED
    BY <2>1, <1>1, <1>3
<1>7. DOMAIN s = 1..Len(s) /\ DOMAIN t = 1..Len(t)
  BY <1>3
<1>8. ToSet(t) = ToSet(s) \union (n + 1)..(n + k)
  <2>1. \A x \in ToSet(t) : x \in ToSet(s) \/ x \in (n + 1)..(n + k)
    <3> SUFFICES ASSUME NEW i \in 1..Len(t), t[i] \notin ToSet(s)
                 PROVE  t[i] \in (n + 1)..(n + k)
      BY <1>7 DEF ToSet
    <3>1. i \notin 1..Len(s)
      BY <1>4, <1>7 DEF ToSet
    <3>2. i - Len(s) \in 1..k /\ t[i] = n + (i - Len(s))
      BY <3>1, <1>5
    <3> QED
      BY <3>2
  <2>2. ToSet(s) \subseteq ToSet(t)
    BY <1>4, <1>7 DEF ToSet
  <2>3. ASSUME NEW x \in (n + 1)..(n + k)
        PROVE  x \in ToSet(t)
    <3>1. PICK j \in 1..k : x = n + j
      <4>1. x - n \in 1..k /\ x = n + (x - n)
        OBVIOUS
      <4> QED
        BY <4>1
    <3> QED
      BY <3>1, <1>6, <1>7 DEF ToSet
  <2> QED
    BY <2>1, <2>2, <2>3
<1>9. ASSUME NEW m \in Nat, m >= n + k
      PROVE  Chronological(t, m)
  <2>1. \A i \in 1..Len(s) : s[i] \in Nat /\ s[i] <= n
    BY DEF Results, Chronological
  <2>2. \A i \in 1..Len(t) : t[i] <= m
    BY <2>1, <1>4, <1>5, <1>9
  <2>3. ASSUME NEW i \in 1..Len(t), NEW j \in 1..Len(t), i < j
        PROVE  t[i] < t[j]
    <3>1. CASE j \in 1..Len(s)
      <4>1. i \in 1..Len(s)
        BY <2>3, <3>1, <1>3
      <4> QED
        BY <2>3, <3>1, <4>1, <1>4 DEF Chronological
    <3>2. CASE j \notin 1..Len(s)
      <4>1. j - Len(s) \in 1..k /\ t[j] = n + (j - Len(s))
        BY <3>2, <1>5
      <4>2. CASE i \in 1..Len(s)
        BY <4>1, <4>2, <2>1, <1>4
      <4>3. CASE i \notin 1..Len(s)
        <5>1. t[i] = n + (i - Len(s))
          BY <4>3, <1>5
        <5> QED
          BY <4>1, <5>1, <2>3, <1>3
      <4> QED
        BY <4>2, <4>3
    <3> QED
      BY <3>1, <3>2
  <2> QED
    BY <2>2, <2>3 DEF Chronological
<1> QED
  BY <1>3, <1>4, <1>8, <1>9 DEF GrowsTo, t

-----------------------------------------------------------------------------
(* Every ResultScreen saves again *)

\* Of the ResultScreens of a test, of which there are two at most, one is highest.
LEMMA HighestExists ==
  ASSUME IInv, NEW s \in Sessions, ResultsOf(s) # {}
  PROVE  \E i \in ResultsOf(s) : \A j \in ResultsOf(s) : j <= i
<1> DEFINE R == ResultsOf(s)
<1>1. IsFiniteSet(R) /\ Cardinality(R) \in Nat /\ Cardinality(R) <= 2
  <2>1. IsFiniteSet(R) /\ Cardinality(R) \in Nat
    BY ResultsFinite DEF IInv
  <2>2. Cardinality(R) <= IF timedOut[s] /\ phase[s] = "open" THEN 2 ELSE 1
    BY DEF IInv, AtMostTwoResults
  <2> QED
    BY <2>1, <2>2
<1>2. \A i \in R : i \in Nat
  BY DEF ResultsOf
<1> HIDE DEF R
<1>3. PICK a \in R : TRUE
  BY DEF R
<1>4. IsFiniteSet(R \ {a}) /\ Cardinality(R \ {a}) = Cardinality(R) - 1
  BY <1>1, <1>3, FS_RemoveElement
<1>5. CASE R \ {a} = {}
  BY <1>2, <1>3, <1>5 DEF R
<1>6. CASE R \ {a} # {}
  <2>1. PICK b \in R \ {a} : TRUE
    BY <1>6
  <2>2. IsFiniteSet((R \ {a}) \ {b}) /\ Cardinality((R \ {a}) \ {b}) = Cardinality(R) - 2
    <3>1. /\ IsFiniteSet((R \ {a}) \ {b})
          /\ Cardinality((R \ {a}) \ {b}) = Cardinality(R \ {a}) - 1
      BY <1>4, <2>1, FS_RemoveElement
    <3> QED
      BY <3>1, <1>1, <1>4
  <2>3. Cardinality((R \ {a}) \ {b}) \in Nat
    BY <2>2, FS_CardinalityType
  <2>4. Cardinality((R \ {a}) \ {b}) = 0
    BY <2>2, <2>3, <1>1
  <2>5. (R \ {a}) \ {b} = {}
    BY <2>2, <2>4, FS_EmptySet
  <2>6. \A j \in R : j = a \/ j = b
    BY <2>5
  <2> QED
    BY <1>2, <1>3, <2>1, <2>6 DEF R
<1> QED
  BY <1>5, <1>6

\* The ResultScreens on their way out are finitely many.
LEMMA LeavingCounted ==
  ASSUME TypeOK
  PROVE  /\ IsFiniteSet(LeavingResults) /\ Cardinality(LeavingResults) \in Nat
         /\ \A s \in Sessions : exiting[s] > 0 => LeavingResults # {}
<1> DEFINE f == [s \in Sessions |-> {s} \X (1..exiting[s])]
           all == {{s} \X (1..exiting[s]) : s \in Sessions}
<1>1. IsFiniteSet(all)
  <2>1. \A s \in Sessions : f[s] \in all
    OBVIOUS
  <2>2. \A T \in all : \E s \in Sessions : f[s] = T
    OBVIOUS
  <2>3. f \in [Sessions -> all]
    BY <2>1
  <2> HIDE DEF f, all
  <2>4. f \in Surjection(Sessions, all)
    BY <2>2, <2>3 DEF Surjection
  <2> QED
    BY <2>4, SessionsAssumption, FS_Surjection
<1>2. ASSUME NEW s \in Sessions
      PROVE  IsFiniteSet({s} \X (1..exiting[s]))
  <2>1. exiting[s] \in Int
    BY DEF TypeOK
  <2>2. IsFiniteSet({s})
    BY FS_Singleton
  <2>3. IsFiniteSet(1..exiting[s])
    BY <2>1, FS_Interval
  <2> QED
    BY <2>2, <2>3, FS_Product
<1>3. \A T \in all : IsFiniteSet(T)
  BY <1>2
<1>4. LeavingResults = UNION all
  BY DEF LeavingResults
<1> HIDE DEF all
<1>5. IsFiniteSet(LeavingResults)
  BY <1>1, <1>3, <1>4, FS_UNION
<1>6. Cardinality(LeavingResults) \in Nat
  BY <1>5, FS_CardinalityType
<1>7. ASSUME NEW s \in Sessions, exiting[s] > 0
      PROVE  LeavingResults # {}
  <2>1. 1 \in 1..exiting[s]
    BY <1>7 DEF TypeOK
  <2>2. <<s, 1>> \in {s} \X (1..exiting[s])
    BY <2>1
  <2> QED
    BY <2>2 DEF LeavingResults
<1> QED
  BY <1>5, <1>6, <1>7

LEMMA RoutesCounted ==
  ASSUME IInv
  PROVE  /\ IsFiniteSet(ResultRoutes) /\ Cardinality(ResultRoutes) \in Nat
         /\ \A s \in Sessions : ResultsOf(s) \subseteq ResultRoutes
         /\ Cardinality(LeavingResults) \in Nat
         /\ RebuildResults => Cardinality(ResultRoutes) + Cardinality(LeavingResults) # 0
<1>1. Len(stack) \in Int /\ TypeOK
  BY DEF IInv, TypeOK
<1>2. IsFiniteSet(1..Len(stack)) /\ ResultRoutes \in SUBSET (1..Len(stack))
  BY <1>1, FS_Interval DEF ResultRoutes
<1>3. IsFiniteSet(ResultRoutes) /\ Cardinality(ResultRoutes) \in Nat
  BY <1>2, FS_Subset, FS_CardinalityType
<1>4. \A s \in Sessions : ResultsOf(s) \subseteq ResultRoutes
  BY DEF ResultsOf, ResultRoutes
<1>5. IsFiniteSet(LeavingResults) /\ Cardinality(LeavingResults) \in Nat
  BY <1>1, LeavingCounted
<1>6. ASSUME RebuildResults
      PROVE  Cardinality(ResultRoutes) + Cardinality(LeavingResults) # 0
  <2>1. PICK s \in Sessions : Mounted(s) > 0
    BY <1>6 DEF RebuildResults
  <2>2. ResultsOf(s) # {} \/ exiting[s] > 0
    BY <2>1, <1>1, MountedCount, ResultsOnStack
  <2>3. ResultRoutes # {} \/ LeavingResults # {}
    BY <2>2, <1>1, <1>4, LeavingCounted
  <2>4. Cardinality(ResultRoutes) # 0 \/ Cardinality(LeavingResults) # 0
    BY <2>3, <1>3, <1>5, FS_EmptySet
  <2> QED
    BY <2>4, <1>3, <1>5
<1> QED
  BY <1>3, <1>4, <1>5, <1>6

\* The routes up to the highest ResultScreen of a test are some of all.
LEMMA HighestCounted ==
  ASSUME IInv, NEW s \in Sessions, ResultsOf(s) # {}, NEW h,
         h = CHOOSE i \in ResultsOf(s) : \A j \in ResultsOf(s) : j <= i
  PROVE  Cardinality({j \in ResultRoutes : j <= h}) \in 1..Cardinality(ResultRoutes)
<1>1. h \in ResultsOf(s) /\ \A j \in ResultsOf(s) : j <= h
  BY HighestExists
<1> DEFINE low == {j \in ResultRoutes : j <= h}
<1>2. h \in low
  <2>1. h \in Nat
    BY <1>1 DEF ResultsOf
  <2> QED
    BY <2>1, <1>1, RoutesCounted
<1>3. low \in SUBSET ResultRoutes
  OBVIOUS
<1> HIDE DEF low
<1>4. /\ IsFiniteSet(low) /\ Cardinality(low) \in Nat
      /\ Cardinality(low) <= Cardinality(ResultRoutes)
  BY <1>3, RoutesCounted, FS_Subset, FS_CardinalityType
<1>5. Cardinality(low) # 0
  BY <1>2, <1>4, FS_EmptySet
<1>6. Cardinality(ResultRoutes) \in Nat
  BY RoutesCounted
<1>7. Cardinality(low) \in 1..Cardinality(ResultRoutes)
  BY <1>4, <1>5, <1>6
<1> QED
  BY <1>7 DEF low

\* What the rebuild does to the list, the preferences and the numbers.
LEMMA Rebuilt ==
  ASSUME IInv, StoreInv, RebuildAndSave
  PROVE  \E n \in Nat \ {0} :
           /\ saved' = saved + n
           /\ GrowsTo(memory, saved, n, memory') /\ Chronological(memory', saved')
           /\ cache' = memory'
           /\ writes' = writes \o [k \in 1..n |-> Grown(memory, saved, k)]
           /\ memory' = Grown(memory, saved, n)
           /\ \A s \in Sessions : ResultsOf(s) # {} =>
                latest'[s] \in (saved + 1)..(saved + n)
<1> DEFINE shown == Cardinality(ResultRoutes)
           out == Cardinality(LeavingResults)
           n == shown + out
           Highest(s) == CHOOSE i \in ResultsOf(s) : \A j \in ResultsOf(s) : j <= i
<1>1. n \in Nat \ {0} /\ shown \in Nat /\ out \in Nat
  BY RoutesCounted DEF RebuildAndSave
<1>2. /\ saved' = saved + n
      /\ memory' = Grown(memory, saved, n)
      /\ cache' = memory'
      /\ writes' = writes \o [k \in 1..n |-> Grown(memory, saved, k)]
  BY DEF RebuildAndSave, Grown
<1>3. PICK before \in 0..out :
        latest' = [s \in Sessions |->
                     IF ResultsOf(s) = {} THEN latest[s]
                     ELSE saved + before + Cardinality({j \in ResultRoutes : j <= Highest(s)})]
  BY DEF RebuildAndSave
<1>4. memory \in Seq(Results) /\ saved \in Nat /\ Chronological(memory, saved)
  BY DEF StoreInv, StoreTypeOK, InOrder
<1>5. \A s \in Sessions : ResultsOf(s) # {} =>
        latest'[s] \in (saved + 1)..(saved + n)
  <2> SUFFICES ASSUME NEW s \in Sessions, ResultsOf(s) # {}
               PROVE  latest'[s] \in (saved + 1)..(saved + n)
    OBVIOUS
  <2>1. Cardinality({j \in ResultRoutes : j <= Highest(s)}) \in 1..shown
    BY HighestCounted
  <2>2. latest'[s] = saved + before + Cardinality({j \in ResultRoutes : j <= Highest(s)})
    BY <1>3
  <2> HIDE DEF shown, out, Highest
  <2> QED
    BY <2>1, <2>2, <1>1, <1>4
<1> HIDE DEF n, Highest
<1>6. saved + n \in Nat /\ saved + n >= saved + n
  BY <1>1, <1>4
<1>7. GrowsTo(memory, saved, n, memory')
  BY <1>1, <1>2, <1>4, NewResults
<1>8. Chronological(memory', saved')
  BY <1>2, <1>6, <1>7 DEF GrowsTo
<1> QED
  BY <1>1, <1>2, <1>5, <1>7, <1>8

\* The lists that are written meanwhile, one longer than the other.
LEMMA ListsWritten ==
  ASSUME IInv, StoreInv, NEW n \in Nat \ {0},
         writes' = writes \o [k \in 1..n |-> Grown(memory, saved, k)]
  PROVE  /\ writes' \in Seq(Stored) /\ writes' # <<>>
         /\ writes'[Len(writes')] = Grown(memory, saved, n)
         /\ \A i \in 1..Len(writes') :
              \/ \E k \in 1..n : writes'[i] = Grown(memory, saved, k)
              \/ \E j \in 1..Len(writes) : writes'[i] = writes[j]
         /\ ClearPending' <=> ClearPending
<1> DEFINE new == [k \in 1..n |-> Grown(memory, saved, k)]
<1>1. memory \in Seq(Results) /\ saved \in Nat /\ Chronological(memory, saved)
      /\ writes \in Seq(Stored)
  BY DEF StoreInv, StoreTypeOK, InOrder
<1>2. \A k \in 1..n : Grown(memory, saved, k) \in Seq(Results)
  BY <1>1, NewResults DEF GrowsTo
<1>3. \A k \in 1..n : Grown(memory, saved, k) \in Stored /\ Grown(memory, saved, k) # Absent
  BY <1>2, ListIsPresent DEF Stored
<1>4. new \in Seq(Stored) /\ Len(new) = n
      /\ \A k \in 1..n : new[k] = Grown(memory, saved, k)
  BY <1>3, IsASeq
<1>5. writes' = writes \o new
  OBVIOUS
<1> HIDE DEF new
<1>6. /\ writes' \in Seq(Stored) /\ Len(writes') = Len(writes) + n /\ Len(writes) \in Nat
      /\ \A i \in 1..Len(writes') :
           writes'[i] = IF i <= Len(writes) THEN writes[i] ELSE new[i - Len(writes)]
  <2>1. PICK more \in Seq(Stored) : more = new
    BY <1>4
  <2>2. writes' = writes \o more /\ Len(more) = n
    BY <2>1, <1>4, <1>5
  <2>3. /\ writes \o more \in Seq(Stored) /\ Len(writes \o more) = Len(writes) + Len(more)
        /\ \A i \in 1..(Len(writes) + Len(more)) :
             (writes \o more)[i] = IF i <= Len(writes) THEN writes[i]
                                   ELSE more[i - Len(writes)]
    BY <1>1, ConcatProperties, Zenon
  <2>4. writes' \in Seq(Stored) /\ Len(writes') = Len(writes) + n
    BY <2>2, <2>3, Zenon
  <2>5. \A i \in 1..Len(writes') :
          writes'[i] = IF i <= Len(writes) THEN writes[i] ELSE new[i - Len(writes)]
    BY <2>1, <2>2, <2>3, Zenon
  <2>6. Len(writes) \in Nat
    BY <1>1
  <2> QED
    BY <2>4, <2>5, <2>6, Zenon
<1>7. \A i \in 1..Len(writes) : i \in 1..Len(writes') /\ writes'[i] = writes[i]
  BY <1>6
<1>8. \A i \in 1..Len(writes') :
        \/ i \in 1..Len(writes) /\ writes'[i] = writes[i]
        \/ i - Len(writes) \in 1..n /\ writes'[i] = Grown(memory, saved, i - Len(writes))
  BY <1>4, <1>6
<1>9. writes' # <<>> /\ writes'[Len(writes')] = Grown(memory, saved, n)
  <2>1. /\ Len(writes') \in 1..Len(writes') /\ ~(Len(writes') <= Len(writes))
        /\ Len(writes') - Len(writes) = n /\ n \in 1..n
    BY <1>6
  <2>2. writes'[Len(writes')] = new[n]
    BY <2>1, <1>6
  <2>3. new[n] = Grown(memory, saved, n)
    BY <2>1, <1>4
  <2>4. writes' # <<>>
    BY <1>6
  <2> QED
    BY <2>2, <2>3, <2>4
<1>10. ClearPending' <=> ClearPending
  <2>1. ASSUME NEW i \in 1..Len(writes'), writes'[i] = Absent
        PROVE  \E j \in 1..Len(writes) : writes[j] = Absent
    <3>1. writes'[i] # Grown(memory, saved, i - Len(writes)) \/ i - Len(writes) \notin 1..n
      BY <2>1, <1>3
    <3> QED
      BY <2>1, <3>1, <1>8
  <2> QED
    BY <2>1, <1>7 DEF ClearPending, HasRemove
<1>11. \A i \in 1..Len(writes') :
         \/ \E k \in 1..n : writes'[i] = Grown(memory, saved, k)
         \/ \E j \in 1..Len(writes) : writes'[i] = writes[j]
  BY <1>8
<1> QED
  BY <1>6, <1>9, <1>10, <1>11

LEMMA RebuildKeepsLists ==
  ASSUME IInv, StoreInv, RebuildAndSave
  PROVE  StoreInv'
<1>1. PICK n \in Nat \ {0} :
        /\ saved' = saved + n
        /\ GrowsTo(memory, saved, n, memory') /\ Chronological(memory', saved')
        /\ cache' = memory'
        /\ writes' = writes \o [k \in 1..n |-> Grown(memory, saved, k)]
        /\ memory' = Grown(memory, saved, n)
  BY Rebuilt
<1>2. /\ inSync' = ~ClearPending
      /\ UNCHANGED <<disk, page, dialog, removed, target>>
  BY DEF RebuildAndSave
<1>3. /\ memory \in Seq(Results) /\ saved \in Nat /\ Chronological(memory, saved)
      /\ disk \in Stored /\ writes \in Seq(Stored)
  BY DEF StoreInv, StoreTypeOK, InOrder
<1>4. /\ writes' \in Seq(Stored) /\ writes' # <<>>
      /\ writes'[Len(writes')] = memory'
      /\ \A i \in 1..Len(writes') :
           \/ \E k \in 1..n : writes'[i] = Grown(memory, saved, k)
           \/ \E j \in 1..Len(writes) : writes'[i] = writes[j]
      /\ ClearPending' <=> ClearPending
  BY <1>1, ListsWritten
<1>5. /\ memory' \in Seq(Results) /\ Len(memory') = Len(memory) + n
      /\ \A i \in 1..Len(memory) : memory'[i] = memory[i]
  BY <1>1 DEF GrowsTo
<1>6. memory' \in Stored /\ memory' # Absent /\ Contents(memory') = memory'
  BY <1>5, ListIsPresent DEF Stored
<1>7. saved' \in Nat /\ saved' >= saved
  BY <1>1, <1>3
<1>8. StoreTypeOK'
  BY <1>1, <1>2, <1>4, <1>5, <1>6, <1>7 DEF StoreInv, StoreTypeOK
<1>9. ASSUME NEW v \in Stored, Chronological(Contents(v), saved)
      PROVE  Chronological(Contents(v), saved')
  <2>1. \A i \in 1..Len(Contents(v)) : Contents(v)[i] \in Nat
    BY ContentsType DEF Results
  <2> QED
    BY <2>1, <1>3, <1>7, <1>9 DEF Chronological
<1>10. InOrder'
  <2>1. Chronological(Contents(disk'), saved')
    BY <1>2, <1>3, <1>9 DEF StoreInv, InOrder
  <2>2. ASSUME NEW k \in 1..n
        PROVE  Chronological(Contents(Grown(memory, saved, k)), saved')
    <3>1. GrowsTo(memory, saved, k, Grown(memory, saved, k))
      BY <1>3, NewResults
    <3>2. saved' >= saved + k
      BY <1>1, <1>3
    <3>3. Contents(Grown(memory, saved, k)) = Grown(memory, saved, k)
      BY <3>1, ListIsPresent DEF GrowsTo
    <3> QED
      BY <3>1, <3>2, <3>3, <1>7 DEF GrowsTo
  <2>3. ASSUME NEW j \in 1..Len(writes)
        PROVE  Chronological(Contents(writes[j]), saved')
    <3>1. writes[j] \in Stored
      BY <1>3
    <3> QED
      BY <3>1, <1>9 DEF StoreInv, InOrder
  <2>4. \A i \in 1..Len(writes') : Chronological(Contents(writes'[i]), saved')
    BY <2>2, <2>3, <1>4
  <2> QED
    BY <2>1, <2>4, <1>1, <1>6 DEF InOrder
<1>11. StoreCatchesUp'
  BY <1>1, <1>4 DEF StoreCatchesUp
<1>12. DialogTarget'
  BY <1>2, <1>3, <1>5 DEF StoreInv, StoreTypeOK, DialogTarget
<1>13. Agreement' /\ ClearedFirst' /\ NothingStored' /\ DialogAbovePage'
  BY <1>1, <1>2, <1>4, <1>6 DEF StoreInv, Agreement, ClearedFirst, NothingStored,
     DialogAbovePage
<1> QED
  BY <1>8, <1>10, <1>11, <1>12, <1>13 DEF StoreInv

\* The main menu removes the history page and leaves the lists.
LEMMA MainMenuKeepsLists ==
  ASSUME StoreInv, MainMenuAll
  PROVE  StoreInv'
<1>1. /\ page' = "closed" /\ dialog' = 0 /\ target' = 0
      /\ UNCHANGED <<memory, cache, disk, writes, saved, removed, inSync>>
  BY DEF MainMenuAll
<1>2. StoreTypeOK'
  BY <1>1 DEF StoreInv, StoreTypeOK
<1>3. DialogTarget' /\ DialogAbovePage'
  BY <1>1 DEF DialogTarget, DialogAbovePage
<1> QED
  BY <1>1, <1>2, <1>3 DEF StoreInv, InOrder, StoreCatchesUp, Agreement, ClearedFirst,
     NothingStored, ClearPending

\* Both parts go on as before.
LEMMA PartsKept ==
  ASSUME IInv, StoreInv, [QuizNext]_allVars
  PROVE  IInv' /\ StoreInv'
<1>1. IInv'
  BY TestsGoOn, NextInv, TestsEndInv
<1>2. StoreInv'
  BY ListsGoOn, StoreNextInv, RebuildKeepsLists, MainMenuKeepsLists
<1> QED
  BY <1>1, <1>2

-----------------------------------------------------------------------------
(* Routes and saves of the composition *)

LEMMA ShownPushed ==
  ASSUME IInv, NEW s \in Sessions, FinishTest(s) \/ TimeOut(s)
  PROVE  \A x \in Sessions : OnStack(Result(x))' <=> OnStack(Result(x)) \/ x = s
<1>1. UNCHANGED phase /\ stack' = Append(stack, Result(s))
  BY DEF FinishTest, TimeOut, NavigateToResultScreen
<1>2. /\ phase[s] = "open" \/ (phase[s] = "leaving" /\ timedOut'[s])
      /\ \A x \in Sessions : timedOut[x] => timedOut'[x]
  <2>1. timedOut \in [Sessions -> BOOLEAN]
    BY DEF IInv, TypeOK
  <2>2. CASE FinishTest(s)
    BY <2>2, TopHasNoResults DEF FinishTest
  <2>3. CASE TimeOut(s)
    BY <2>1, <2>3 DEF TimeOut, IInv, AtMostTwoResults
  <2> QED
    BY <2>2, <2>3
<1> QED
  BY <1>1, <1>2, PushedResult

LEMMA ShownPopped ==
  ASSUME IInv, NEW s \in Sessions, BackFromTest(s) \/ BackFromResult(s)
  PROVE  \A x \in Sessions : OnStack(Result(x))' => OnStack(Result(x))
<1>1. /\ stack' = Front(stack) /\ UNCHANGED timedOut
      /\ \/ Top = Result(s) /\ UNCHANGED phase
         \/ Top = Test(s) /\ phase' = [phase EXCEPT ![s] = "leaving"]
  BY DEF BackFromTest, BackFromResult
<1> QED
  BY <1>1, Popped

\* No step of TestStep shows another ResultScreen.
LEMMA ShownQuietly ==
  ASSUME IInv, TestStep
  PROVE  \A x \in Sessions : OnStack(Result(x))' => OnStack(Result(x))
<1>1. ASSUME NEW s \in Sessions, NEW timed \in BOOLEAN, QuestionsArrive(s, timed)
      PROVE  \A x \in Sessions : OnStack(Result(x))' => OnStack(Result(x))
  <2>1. /\ phase[s] \in {"loading", "stranded"} /\ stack' = Append(stack, Test(s))
        /\ phase' = [phase EXCEPT ![s] = "open"] /\ UNCHANGED timedOut
    BY <1>1 DEF QuestionsArrive
  <2> QED
    BY <2>1, PushedTest
<1>2. CASE UNCHANGED stack
  BY <1>2 DEF OnStack
<1>3. CASE \E s \in Sessions :
             \/ StartTest(s) \/ NoQuestions(s) \/ Tick(s)
             \/ DisposeTest(s) \/ DisposeResult(s)
             \/ \E q \in Questions, o \in Options : ChooseOption(s, q, o)
  BY <1>2, <1>3 DEF StartTest, NoQuestions, Tick, ChooseOption, DisposeTest, DisposeResult
<1> QED
  BY <1>1, <1>3, ShownPopped DEF TestStep

\* A save lists the result and writes the list.
LEMMA SavedList ==
  ASSUME StoreInv, SaveTestResult
  PROVE  /\ memory' \in Seq(Results) /\ cache' = memory' /\ saved' = saved + 1
         /\ ToSet(memory') = ToSet(memory) \union {saved + 1}
         /\ ClearPending' <=> ClearPending
<1>1. memory \in Seq(Results) /\ saved \in Nat /\ saved + 1 \in Results
  BY DEF StoreInv, StoreTypeOK, Results
<1>2. memory' = Append(memory, saved + 1) /\ saved' = saved + 1
  BY DEF SaveTestResult
<1>3. memory' \in Seq(Results) /\ ToSet(memory') = ToSet(memory) \union {saved + 1}
  BY <1>1, <1>2, AppendedSet, AppendProperties
<1>4. memory' \in Stored /\ memory' # Absent
  BY <1>3, ListIsPresent DEF Stored
<1>5. cache' = memory' /\ (ClearPending' <=> ClearPending)
  BY <1>4, PreferenceStep DEF SaveTestResult, StoreInv
<1> QED
  BY <1>2, <1>3, <1>5

\* What is shown is listed after a save if it was before, or is new and no clear
\* was pending; nothing that was removed is listed by a save.
LEMMA SaveKeepsShown ==
  ASSUME KeptWhileShown, memory' \in Seq(Results), cache' = memory',
         ToSet(memory) \subseteq ToSet(memory'), ClearPending' <=> ClearPending,
         \A x \in Sessions : OnStack(Result(x))' /\ ~overlapped'[x] =>
           \/ OnStack(Result(x)) /\ ~overlapped[x] /\ latest'[x] = latest[x]
           \/ ~ClearPending /\ latest'[x] \in ToSet(memory')
  PROVE  KeptWhileShown'
<1>1. Contents(cache') = memory'
  BY ListIsPresent
<1>2. ASSUME NEW x \in Sessions, OnStack(Result(x))', ~overlapped'[x]
      PROVE  ~ClearPending' /\ latest'[x] \in ToSet(memory')
  BY <1>2 DEF KeptWhileShown
<1> QED
  BY <1>1, <1>2 DEF KeptWhileShown

LEMMA SaveKeepsRemoved ==
  ASSUME StoreInv, HistoryTypeOK, RemovedStayGone, memory' \in Seq(Results), cache' = memory',
         NEW n \in Nat, saved' = saved + n,
         ToSet(memory') = ToSet(memory) \union (saved + 1)..(saved + n),
         removed' = removed, undone' = (undone \/ ClearPending)
  PROVE  RemovedStayGone'
<1>1. saved \in Nat
  BY DEF StoreInv, StoreTypeOK
<1>2. Contents(cache') = memory'
  BY ListIsPresent
<1>3. removed' \subseteq 1..saved'
  BY <1>1 DEF RemovedStayGone
<1>4. removed \cap (saved + 1)..(saved + n) = {}
  BY <1>1 DEF RemovedStayGone
<1>5. ~undone' => removed' \cap ToSet(memory') = {}
  BY <1>4 DEF RemovedStayGone, HistoryTypeOK
<1> QED
  BY <1>2, <1>3, <1>5 DEF RemovedStayGone

-----------------------------------------------------------------------------
(* What each step does to what is shown and to what was removed *)

Related == HistoryTypeOK /\ KeptWhileShown /\ RemovedStayGone

LEMMA PushedRelated ==
  ASSUME QuizInv, NEW s \in Sessions, FinishAndSave(s) \/ TimeOutAndSave(s)
  PROVE  Related'
<1>1. /\ FinishTest(s) \/ TimeOut(s)
      /\ SaveTestResult
      /\ latest' = [latest EXCEPT ![s] = saved + 1]
      /\ overlapped' = [overlapped EXCEPT ![s] = ClearPending]
      /\ undone' = (undone \/ ClearPending)
  BY DEF FinishAndSave, TimeOutAndSave, Pushed
<1>2. /\ memory' \in Seq(Results) /\ cache' = memory' /\ saved' = saved + 1
      /\ ToSet(memory') = ToSet(memory) \union {saved + 1}
      /\ ClearPending' <=> ClearPending
  BY <1>1, SavedList DEF QuizInv
<1>3. saved \in Nat /\ ClearPending \in BOOLEAN
  BY DEF QuizInv, StoreInv, StoreTypeOK, ClearPending, HasRemove
<1>4. HistoryTypeOK'
  BY <1>1, <1>3 DEF QuizInv, HistoryTypeOK
<1>5. KeptWhileShown'
  <2>1. ASSUME NEW x \in Sessions, OnStack(Result(x))', ~overlapped'[x]
        PROVE  \/ OnStack(Result(x)) /\ ~overlapped[x] /\ latest'[x] = latest[x]
               \/ ~ClearPending /\ latest'[x] \in ToSet(memory')
    <3>1. CASE x = s
      BY <3>1, <2>1, <1>1, <1>2 DEF QuizInv, HistoryTypeOK
    <3>2. CASE x # s
      <4>1. OnStack(Result(x))
        BY <2>1, <3>2, <1>1, ShownPushed DEF QuizInv
      <4> QED
        BY <2>1, <3>2, <4>1, <1>1 DEF QuizInv, HistoryTypeOK
    <3> QED
      BY <3>1, <3>2
  <2> QED
    BY <2>1, <1>2, SaveKeepsShown DEF QuizInv
<1>6. RemovedStayGone'
  <2>1. {saved + 1} = (saved + 1)..(saved + 1)
    BY <1>3
  <2>2. removed' = removed
    BY <1>1 DEF SaveTestResult
  <2> QED
    BY <2>1, <2>2, <1>1, <1>2, SaveKeepsRemoved DEF QuizInv
<1> QED
  BY <1>4, <1>5, <1>6 DEF Related

LEMMA RebuildRelated ==
  ASSUME QuizInv, RebuildAndSave
  PROVE  Related'
<1>1. PICK n \in Nat \ {0} :
        /\ saved' = saved + n
        /\ GrowsTo(memory, saved, n, memory')
        /\ cache' = memory'
        /\ writes' = writes \o [k \in 1..n |-> Grown(memory, saved, k)]
        /\ \A s \in Sessions : ResultsOf(s) # {} =>
             latest'[s] \in (saved + 1)..(saved + n)
  BY Rebuilt DEF QuizInv
<1>2. memory' \in Seq(Results)
      /\ ToSet(memory') = ToSet(memory) \union (saved + 1)..(saved + n)
  BY <1>1 DEF GrowsTo
<1>3. ClearPending' <=> ClearPending
  BY <1>1, ListsWritten DEF QuizInv
<1>4. /\ UNCHANGED <<stack, removed>>
      /\ undone' = (undone \/ ClearPending)
      /\ overlapped' = [s \in Sessions |->
                          IF ResultsOf(s) = {} THEN overlapped[s] ELSE ClearPending]
      /\ DOMAIN latest' = Sessions
      /\ \E rest \in [Sessions -> Nat] : latest' = [s \in Sessions |->
           IF ResultsOf(s) = {} THEN latest[s] ELSE rest[s]]
  <2>1. saved \in Nat
    BY DEF QuizInv, StoreInv, StoreTypeOK
  <2>2. ASSUME NEW s \in Sessions
        PROVE  ResultsOf(s) = {} => latest'[s] = latest[s]
    BY DEF RebuildAndSave
  <2>3. ASSUME NEW s \in Sessions
        PROVE  latest'[s] \in Nat
    BY <2>1, <2>2, <1>1 DEF QuizInv, HistoryTypeOK
  <2>4. latest' = [s \in Sessions |-> latest'[s]]
    BY DEF RebuildAndSave
  <2> QED
    BY <2>2, <2>3, <2>4 DEF RebuildAndSave, RebuildResults
<1>5. ClearPending \in BOOLEAN
  BY DEF ClearPending, HasRemove
<1>6. HistoryTypeOK'
  BY <1>4, <1>5 DEF QuizInv, HistoryTypeOK
<1>7. KeptWhileShown'
  <2>1. ASSUME NEW x \in Sessions, OnStack(Result(x))', ~overlapped'[x]
        PROVE  ~ClearPending /\ latest'[x] \in ToSet(memory')
    <3>1. OnStack(Result(x))
      BY <2>1, <1>4 DEF OnStack
    <3>2. ResultsOf(x) # {}
      BY <3>1, ResultsOnStack
    <3> QED
      BY <2>1, <3>2, <1>1, <1>2, <1>4
  <2> QED
    BY <2>1, <1>1, <1>2, <1>3, SaveKeepsShown DEF QuizInv
<1>8. RemovedStayGone'
  BY <1>1, <1>2, <1>4, SaveKeepsRemoved DEF QuizInv
<1> QED
  BY <1>6, <1>7, <1>8 DEF Related

\* What is forgotten belongs to tests without results on the stack.
LEMMA ForgetRelated ==
  ASSUME HistoryTypeOK, ForgetClosed, UNCHANGED undone
  PROVE  /\ HistoryTypeOK'
         /\ \A x \in Sessions : OnStack(Result(x))' =>
              latest'[x] = latest[x] /\ overlapped'[x] = overlapped[x]
<1>1. HistoryTypeOK'
  BY DEF ForgetClosed, HistoryTypeOK
<1>2. ASSUME NEW x \in Sessions, OnStack(Result(x))'
      PROVE  latest'[x] = latest[x] /\ overlapped'[x] = overlapped[x]
  <2>1. ResultsOf(x)' # {}
    BY <1>2 DEF ResultsOf, OnStack
  <2> QED
    BY <2>1 DEF ForgetClosed, HistoryTypeOK
<1> QED
  BY <1>1, <1>2

\* Nothing is shown that was not, and the lists stay.
LEMMA QuietRelated ==
  ASSUME QuizInv, [QuizNext]_allVars, TestStep \/ UNCHANGED allVars
  PROVE  Related'
<1>1. UNCHANGED <<storeVars, undone>>
  BY DEF TestStep, historyVars, allVars
<1>2. \A x \in Sessions : OnStack(Result(x))' => OnStack(Result(x))
  <2>1. UNCHANGED allVars => UNCHANGED stack
    BY DEF allVars, vars
  <2>2. UNCHANGED stack => \A x \in Sessions : OnStack(Result(x))' => OnStack(Result(x))
    BY DEF OnStack
  <2> QED
    BY <2>1, <2>2, ShownQuietly DEF QuizInv
<1>3. /\ HistoryTypeOK'
      /\ \A x \in Sessions : OnStack(Result(x))' =>
           latest'[x] = latest[x] /\ overlapped'[x] = overlapped[x]
  <2>1. CASE UNCHANGED allVars
    BY <2>1 DEF QuizInv, HistoryTypeOK, historyVars, allVars
  <2>2. CASE TestStep
    BY <2>2, <1>1, ForgetRelated DEF TestStep, QuizInv
  <2> QED
    BY <2>1, <2>2
<1>4. UNCHANGED <<memory, cache, writes, removed, saved>>
  BY <1>1 DEF storeVars
<1>5. KeptWhileShown'
  BY <1>2, <1>3, <1>4 DEF QuizInv, KeptWhileShown, ClearPending
<1>6. RemovedStayGone'
  BY <1>1, <1>4 DEF QuizInv, RemovedStayGone, ClearPending
<1> QED
  BY <1>3, <1>5, <1>6 DEF Related

\* On the home page no ResultScreen is shown.
LEMMA HomeShowsNone ==
  ASSUME stack' = <<Home>>
  PROVE  KeptWhileShown'
<1>1. \A s \in Sessions : ~OnStack(Result(s))'
  BY RoutesDiffer DEF OnStack
<1> QED
  BY <1>1 DEF KeptWhileShown

\* Removing one position leaves other results only.
LEMMA RemovedFromList ==
  ASSUME NEW n \in Nat, NEW s \in Seq(Results), Chronological(s, n),
         NEW i \in 1..Len(s)
  PROVE  ToSet(RemoveAt(s, i)) \subseteq ToSet(s) \ {s[i]}
<1> DEFINE a == SubSeq(s, 1, i - 1)
           b == SubSeq(s, i + 1, Len(s))
           r == RemoveAt(s, i)
<1>1. /\ a \in Seq(Results) /\ Len(a) = i - 1
      /\ \A k \in 1..(i - 1) : a[k] = s[k]
  OBVIOUS
<1>2. /\ b \in Seq(Results) /\ Len(b) = Len(s) - i
      /\ \A k \in 1..(Len(s) - i) : b[k] = s[k + i]
  OBVIOUS
<1>3. r = a \o b
  BY DEF RemoveAt
<1> HIDE DEF a, b, r
<1>4. /\ r \in Seq(Results) /\ Len(r) = Len(a) + Len(b)
      /\ \A k \in 1..(Len(a) + Len(b)) :
           r[k] = IF k <= Len(a) THEN a[k] ELSE b[k - Len(a)]
  BY <1>1, <1>2, <1>3, ConcatProperties
<1>5. \A k \in 1..Len(s) : s[k] \in Nat
  BY DEF Results
<1>6. DOMAIN s = 1..Len(s) /\ DOMAIN r = 1..Len(r)
  BY <1>4
<1>7. ASSUME NEW k \in 1..Len(r)
      PROVE  \E m \in 1..Len(s) : m # i /\ r[k] = s[m]
  <2>1. CASE k <= Len(a)
    BY <2>1, <1>1, <1>2, <1>4
  <2>2. CASE ~(k <= Len(a))
    <3>1. k - Len(a) \in 1..(Len(s) - i)
      BY <2>2, <1>1, <1>2, <1>4
    <3>2. r[k] = b[k - Len(a)] /\ b[k - Len(a)] = s[(k - Len(a)) + i]
      BY <2>2, <3>1, <1>2, <1>4
    <3>3. (k - Len(a)) + i \in 1..Len(s) /\ (k - Len(a)) + i # i
      BY <3>1, <1>1
    <3> QED
      BY <3>2, <3>3
  <2> QED
    BY <2>1, <2>2
<1>8. \A m \in 1..Len(s) : m # i => s[m] # s[i]
  BY <1>5 DEF Chronological
<1> QED
  BY <1>6, <1>7, <1>8 DEF ToSet, r

LEMMA NothingInEmpty == ToSet(<<>>) = {} /\ Contents(Absent) = <<>>
BY DEF ToSet, Contents

LEMMA HistoryRelated ==
  ASSUME QuizInv, HistoryStep
  PROVE  Related'
<1>1. UNCHANGED <<stack, latest, overlapped, undone>> /\ stack = <<Home>>
  BY DEF HistoryStep, HistoryOnTop, vars, historyVars
<1>2. HistoryTypeOK' /\ KeptWhileShown'
  BY <1>1, HomeShowsNone DEF QuizInv, HistoryTypeOK
<1>3. RemovedStayGone'
  <2>1. CASE ClearTestResults
    <3>1. SetPreference(Absent) /\ removed' = 1..saved /\ saved' = saved
      BY <2>1 DEF ClearTestResults
    <3>2. cache' = Absent /\ ClearPending'
      <4>1. Absent \in Stored
        BY DEF Stored
      <4> QED
        BY <3>1, <4>1, PreferenceStep DEF QuizInv, StoreInv
    <3> QED
      BY <3>1, <3>2, NothingInEmpty DEF RemovedStayGone
  <2>2. CASE ~ClearTestResults
    <3>1. /\ UNCHANGED <<cache, writes, removed, saved>>
          /\ memory' = memory \/ (memory' = cache /\ cache # Absent)
      BY <2>2 DEF HistoryStep, LoadTestResults, CloseHistory, AskDelete, CancelDelete,
         DeleteOutOfRange
    <3>2. memory' = memory \/ memory' = Contents(cache)
      BY <3>1 DEF Contents
    <3> QED
      BY <3>1, <3>2, <1>1 DEF QuizInv, RemovedStayGone, ClearPending
  <2> QED
    BY <2>1, <2>2
<1> QED
  BY <1>2, <1>3 DEF Related

LEMMA DeletedRelated ==
  ASSUME QuizInv, DeleteOne
  PROVE  Related'
<1>1. /\ UNCHANGED <<stack, latest, overlapped, saved>> /\ stack = <<Home>>
      /\ undone' = (undone \/ ClearPending)
      /\ dialog # 0 /\ dialog <= Len(memory)
      /\ memory' = RemoveAt(memory, dialog)
      /\ SetPreference(memory')
      /\ removed' = removed \union ({target} \ {0})
  BY DEF DeleteOne, DeleteTestResultAt, HistoryOnTop, vars
<1>2. HistoryTypeOK' /\ KeptWhileShown'
  <2>1. ClearPending \in BOOLEAN
    BY DEF ClearPending, HasRemove
  <2> QED
    BY <1>1, <2>1, HomeShowsNone DEF QuizInv, HistoryTypeOK
<1>3. /\ memory \in Seq(Results) /\ saved \in Nat /\ Chronological(memory, saved)
      /\ dialog \in 1..Len(memory)
  BY <1>1 DEF QuizInv, StoreInv, StoreTypeOK, InOrder
<1>4. memory' \in Seq(Results) /\ ToSet(memory') \subseteq ToSet(memory) \ {memory[dialog]}
  BY <1>1, <1>3, RemoveOne, RemovedFromList
<1>5. cache' = memory' /\ Contents(cache') = memory'
  BY <1>1, <1>4, ListIsPresent DEF SetPreference
<1>6. {target} \ {0} \subseteq {memory[dialog]} /\ memory[dialog] \in 1..saved
  BY <1>1, <1>3 DEF Chronological, Results, QuizInv, StoreInv, DialogTarget
<1>7. ~undone' => removed \cap ToSet(memory) = {}
  BY <1>1 DEF QuizInv, RemovedStayGone, HistoryTypeOK
<1>8. ~undone' => removed' \cap ToSet(memory') = {}
  BY <1>1, <1>4, <1>6, <1>7
<1>9. RemovedStayGone'
  BY <1>1, <1>5, <1>6, <1>8 DEF QuizInv, RemovedStayGone
<1> QED
  BY <1>2, <1>9 DEF Related

LEMMA MainMenuRelated ==
  ASSUME QuizInv, MainMenuAll
  PROVE  Related'
<1>1. /\ stack' = <<Home>> /\ ForgetClosed
      /\ UNCHANGED <<memory, cache, writes, saved, removed, undone>>
  BY DEF MainMenuAll, MainMenu
<1>2. HistoryTypeOK' /\ KeptWhileShown'
  BY <1>1, HomeShowsNone, ForgetRelated DEF QuizInv
<1>3. RemovedStayGone'
  BY <1>1 DEF QuizInv, RemovedStayGone, ClearPending
<1> QED
  BY <1>2, <1>3 DEF Related

LEMMA RestartRelated ==
  ASSUME QuizInv, RestartAll
  PROVE  Related'
<1>1. /\ stack' = <<Home>> /\ ForgetClosed
      /\ memory' = <<>> /\ cache' = disk
      /\ UNCHANGED <<saved, removed>>
      /\ undone' = (undone \/ writes # <<>>)
  BY DEF RestartAll, Restart
<1>2. HistoryTypeOK' /\ KeptWhileShown'
  BY <1>1, HomeShowsNone DEF QuizInv, HistoryTypeOK, ForgetClosed
<1>3. ~undone' => ~undone /\ cache' = cache
  BY <1>1 DEF QuizInv, StoreInv, StoreCatchesUp, HistoryTypeOK
<1>4. RemovedStayGone'
  BY <1>1, <1>3, NothingInEmpty DEF QuizInv, RemovedStayGone
<1> QED
  BY <1>2, <1>4 DEF Related

LEMMA FlushRelated ==
  ASSUME QuizInv, FlushStep
  PROVE  Related'
<1>1. /\ UNCHANGED <<stack, latest, overlapped, undone, cache, saved, removed>>
      /\ writes # <<>> /\ disk' = Head(writes) /\ writes' = Tail(writes)
      /\ \/ Head(writes) # Absent /\ memory' = memory
         \/ Head(writes) = Absent /\ memory' = <<>>
  BY DEF FlushStep, Flush, StoreList, RemoveAndClear, vars, historyVars
<1>2. ClearPending <=> Head(writes) = Absent \/ ClearPending'
  BY <1>1, CompletionStep DEF QuizInv, StoreInv
<1>3. HistoryTypeOK'
  BY <1>1 DEF QuizInv, HistoryTypeOK
<1>4. KeptWhileShown'
  <2>1. \A s \in Sessions : OnStack(Result(s))' <=> OnStack(Result(s))
    BY <1>1 DEF OnStack
  <2>2. CASE Head(writes) # Absent /\ memory' = memory
    BY <2>1, <2>2, <1>1, <1>2 DEF QuizInv, KeptWhileShown
  <2>3. CASE Head(writes) = Absent
    <3>1. \A s \in Sessions : OnStack(Result(s))' => overlapped'[s]
      BY <2>1, <2>3, <1>1, <1>2 DEF QuizInv, KeptWhileShown
    <3> QED
      BY <3>1 DEF KeptWhileShown
  <2> QED
    BY <2>2, <2>3, <1>1
<1>5. RemovedStayGone'
  BY <1>1, <1>2, NothingInEmpty DEF QuizInv, RemovedStayGone
<1> QED
  BY <1>3, <1>4, <1>5 DEF Related

-----------------------------------------------------------------------------
(***************************************************************************)
(* Theorems of the composition                                             *)
(***************************************************************************)

LEMMA QuizInitInv == QuizInit => QuizInv
<1> SUFFICES ASSUME QuizInit PROVE QuizInv
  OBVIOUS
<1>1. IInv /\ StoreInv
  BY InitInv, StoreInitInv DEF QuizInit
<1>2. HistoryTypeOK
  BY DEF QuizInit, HistoryTypeOK
<1>3. KeptWhileShown
  <2>1. \A s \in Sessions : ~OnStack(Result(s))
    BY RoutesDiffer DEF QuizInit, Init, OnStack
  <2> QED
    BY <2>1 DEF KeptWhileShown
<1>4. RemovedStayGone
  BY DEF QuizInit, StoreInit, RemovedStayGone
<1> QED
  BY <1>1, <1>2, <1>3, <1>4 DEF QuizInv

LEMMA QuizNextInv == QuizInv /\ [QuizNext]_allVars => QuizInv'
<1> SUFFICES ASSUME QuizInv, [QuizNext]_allVars PROVE QuizInv'
  OBVIOUS
<1>1. IInv' /\ StoreInv'
  BY PartsKept DEF QuizInv
<1>2. Related'
  <2>1. CASE TestStep \/ UNCHANGED allVars
    BY <2>1, QuietRelated
  <2>2. CASE \E s \in Sessions : FinishAndSave(s) \/ TimeOutAndSave(s)
    BY <2>2, PushedRelated
  <2>3. CASE RebuildAndSave
    BY <2>3, RebuildRelated
  <2>4. CASE MainMenuAll
    BY <2>4, MainMenuRelated
  <2>5. CASE HistoryStep
    BY <2>5, HistoryRelated
  <2>6. CASE DeleteOne
    BY <2>6, DeletedRelated
  <2>7. CASE FlushStep
    BY <2>7, FlushRelated
  <2>8. CASE RestartAll
    BY <2>8, RestartRelated
  <2> QED
    BY <2>1, <2>2, <2>3, <2>4, <2>5, <2>6, <2>7, <2>8 DEF QuizNext
<1> QED
  BY <1>1, <1>2 DEF QuizInv, Related

\* The invariant holds in every behaviour of tests and history page.
THEOREM QuizInductive == QuizSafeSpec => []QuizInv
BY QuizInitInv, QuizNextInv, PTL DEF QuizSafeSpec

\* The tests keep their invariants when the history page and its dialogs lie
\* below them, when the main menu removes them and when the process restarts
\* under them.
THEOREM TestsStaySound ==
  QuizSafeSpec => [](/\ TypeOK /\ ResultAboveItsTest /\ AtMostTwoResults
                     /\ PartialOnlyByTimeOut)
<1>1. QuizInv => TypeOK /\ ResultAboveItsTest /\ AtMostTwoResults /\ PartialOnlyByTimeOut
  BY DEF QuizInv, IInv
<1> QED
  BY <1>1, QuizInductive, PTL

\* The lists keep theirs when several ResultScreens save in one step and the
\* main menu removes the history page under a dialog.
THEOREM ListsStaySound ==
  QuizSafeSpec => [](StoreTypeOK /\ InOrder /\ Agreement /\ DialogTarget)
<1>1. QuizInv => StoreTypeOK /\ InOrder /\ Agreement /\ DialogTarget
  BY DEF QuizInv, StoreInv
<1> QED
  BY <1>1, QuizInductive, PTL

\* The result that a ResultScreen shows is in the list of the process and in the
\* preferences as long as it is shown (saveTestResult in ResultScreen's build,
\* clearTestResults resuming after its await), unless it was saved during a
\* clear.
THEOREM ShownStaysKept == QuizSafeSpec => []ShownIsKept
<1>1. QuizInv => ShownIsKept
  <2> SUFFICES ASSUME QuizInv, NEW s \in Sessions, Top = Result(s), ~overlapped[s]
               PROVE  latest[s] \in ToSet(memory) /\ latest[s] \in ToSet(Contents(cache))
    BY DEF ShownIsKept
  <2>1. Len(stack) \in Nat /\ Len(stack) >= 1
    BY DEF QuizInv, IInv, TypeOK, HomeBelow
  <2>2. OnStack(Result(s))
    BY <2>1 DEF OnStack, Top
  <2> QED
    BY <2>2 DEF QuizInv, KeptWhileShown
<1> QED
  BY <1>1, QuizInductive, PTL

\* What the user deleted does not come back, unless a save or deletion overlapped
\* a clear, or the process ended with writes in flight (deleteTestResultAt,
\* clearTestResults, loadTestResults, saveTestResult).
THEOREM DeletedStaysGone == QuizSafeSpec => []DeletedStaysDeleted
<1>1. QuizInv => DeletedStaysDeleted
  BY DEF QuizInv, RemovedStayGone, DeletedStaysDeleted
<1> QED
  BY <1>1, QuizInductive, PTL

\* Tests that run above the history page, and that restarts end, keep the promise
\* of QuizPromise.
THEOREM CompositionKeepsPromise == QuizSafeSpec => ImplementsPromise
<1>1. QuizInit => Promise!Init
  BY PromiseInit DEF QuizInit
<1>2. QuizInv /\ QuizInv' /\ [QuizNext]_allVars => [Promise!Next]_(Promise!pvars)
  BY TestsGoOn, PromiseStep DEF QuizInv
<1> QED
  BY <1>1, <1>2, QuizInductive, PTL DEF QuizSafeSpec, ImplementsPromise, Promise!Spec

\* A process that knows the stored list drops nothing the user did not delete,
\* but for what a dialog hits whose list was cleared under it; also when ResultScreens are built again or the main menu ends the tests.
THEOREM CompositionLosesNothing == QuizSafeSpec => NoSilentLoss
<1>1. ASSUME QuizInv, [QuizNext]_allVars, inSync, inSync'
      PROVE  Range(Contents(cache)) \ Range(Contents(cache'))
               \subseteq removed' \union Mishit
  <2>1. CASE [StoreNext]_storeVars
    BY <2>1, <1>1, LossStep DEF QuizInv
  <2>2. CASE MainMenuAll
    BY <2>2 DEF MainMenuAll
  <2>3. CASE RebuildAndSave
    <3>1. /\ memory' \in Seq(Results) /\ cache' = memory'
          /\ ToSet(memory) \subseteq ToSet(memory')
      BY <2>3, <1>1, Rebuilt DEF QuizInv, GrowsTo
    <3>2. memory = Contents(cache)
      BY <2>3, <1>1 DEF RebuildAndSave, QuizInv, StoreInv, Agreement
    <3>3. Contents(cache') = memory'
      BY <3>1, ListIsPresent
    <3>4. \A s : Range(s) = ToSet(s)
      BY DEF Range, ToSet
    <3> QED
      BY <3>1, <3>2, <3>3, <3>4
  <2> QED
    BY <2>1, <2>2, <2>3, <1>1, ListsGoOn
<1>2. QuizInv /\ [QuizNext]_allVars =>
        [inSync /\ inSync' =>
           Range(Contents(cache)) \ Range(Contents(cache'))
             \subseteq removed' \union Mishit]_storeVars
  BY <1>1
<1> QED
  BY <1>2, QuizInductive, PTL DEF QuizSafeSpec, NoSilentLoss
=============================================================================
