----------------------- MODULE EpisodesAndCallsProofs -----------------------
(***************************************************************************)
(* Theorems about EpisodeSegmentation and WorkerCalls: the two components  *)
(* whose properties say what a loop over data computes, how a set of       *)
(* events is cut into episodes and which sequences of lines a parser       *)
(* accepts.  They share the lemmas of the first part: induction over the   *)
(* subsets of a finite set, and that a function defined by recursion over  *)
(* them is what its definition says.                                       *)
(***************************************************************************)
EXTENDS EpisodeSegmentation, WorkerCalls, FiniteSetTheorems, WellFoundedInduction, TLAPS

-----------------------------------------------------------------------------
(***************************************************************************)
(* Induction and recursion over the subsets of a finite set.  The subsets  *)
(* are well-founded by inclusion, so that those without a property would   *)
(* have a least one.                                                       *)
(***************************************************************************)
\* What holds of a set when it holds of its proper subsets holds of all.
LEMMA SubsetInduction ==
  ASSUME NEW U, IsFiniteSet(U), NEW Good \in SUBSET SUBSET U,
         \A S \in SUBSET U : (\A T \in SUBSET S : T # S => T \in Good) => S \in Good
  PROVE  Good = SUBSET U
<1>. DEFINE bad == (SUBSET U) \ Good
<1>1. SUFFICES ASSUME bad # {}
               PROVE  FALSE
  OBVIOUS
<1>2. IsWellFoundedOn(StrictSubsetOrdering(U), SUBSET U)
  BY FS_StrictSubsetOrderingWellFounded, FS_FiniteSubsetsOfFinite
<1>3. PICK least \in bad : \A T \in bad : <<T, least>> \notin StrictSubsetOrdering(U)
  <2>1. bad \subseteq SUBSET U
    OBVIOUS
  <2>. HIDE DEF bad
  <2>. QED BY <1>1, <1>2, <2>1, WFMin
<1>4. least \in SUBSET U /\ least \notin Good
  OBVIOUS
<1>5. ASSUME NEW T \in SUBSET least, T # least
      PROVE  T \in Good
  <2>1. T \in SUBSET U /\ <<T, least>> \in StrictSubsetOrdering(U)
    BY <1>4, <1>5 DEF StrictSubsetOrdering
  <2>. QED BY <1>3, <2>1
<1>. QED BY <1>4, <1>5

\* f is defined on the subsets of R by recursion: of one that is not empty
\* from what it is of a smaller one.
IsRecursion(f, R, V, base, rest, step) ==
    /\ f \in [SUBSET R -> V]
    /\ \A S \in SUBSET R : f[S] = IF S = {} THEN base ELSE step[S][f[rest[S]]]

Shrinking(U, rest) ==
    \A S \in SUBSET U : S # {} => rest[S] \in SUBSET S /\ rest[S] # S

\* Two of them agree wherever both are defined.
LEMMA RecursionsAgree ==
  ASSUME NEW U, IsFiniteSet(U), NEW V, NEW base, NEW rest, Shrinking(U, rest), NEW step,
         NEW Q \in SUBSET U, NEW R \in SUBSET U, NEW D \in SUBSET Q, D \subseteq R,
         NEW f, NEW h,
         IsRecursion(f, Q, V, base, rest, step), IsRecursion(h, R, V, base, rest, step)
  PROVE  f[D] = h[D]
<1>. DEFINE Good == {S \in SUBSET D : f[S] = h[S]}
<1>1. IsFiniteSet(D)
  BY FS_Subset
<1>2. ASSUME NEW S \in SUBSET D, \A T \in SUBSET S : T # S => T \in Good
      PROVE  S \in Good
  <2>1. CASE S = {}
    BY <2>1 DEF IsRecursion
  <2>2. CASE S # {}
    <3>1. f[rest[S]] = h[rest[S]]
      BY <1>2, <2>2 DEF Shrinking
    <3>2. f[S] = step[S][f[rest[S]]] /\ h[S] = step[S][h[rest[S]]]
      BY <2>2 DEF IsRecursion
    <3>. QED BY <3>1, <3>2
  <2>. QED BY <2>1, <2>2
<1>3. Good \in SUBSET SUBSET D
  OBVIOUS
<1>4. Good = SUBSET D
  <2>. HIDE DEF Good
  <2>. QED BY <1>1, <1>2, <1>3, SubsetInduction
<1>. QED BY <1>4

\* There is one.
LEMMA RecursionExists ==
  ASSUME NEW U, IsFiniteSet(U), NEW V, NEW base \in V, NEW rest, Shrinking(U, rest),
         NEW step, \A S \in SUBSET U : S # {} => step[S] \in [V -> V]
  PROVE  \E f : IsRecursion(f, U, V, base, rest, step)
<1>. DEFINE Is(f, R) == IsRecursion(f, R, V, base, rest, step)
            Solution(R) == CHOOSE f : Is(f, R)
            Good == {R \in SUBSET U : \E f : Is(f, R)}
<1>1. ASSUME NEW Q \in SUBSET U, NEW T \in SUBSET U, T \subseteq Q, NEW g, NEW h,
             Is(g, Q), Is(h, T)
      PROVE  g[T] = h[T]
  <2>1. T \in SUBSET Q /\ T \subseteq T
    BY <1>1
  <2>2. IsRecursion(g, Q, V, base, rest, step) /\ IsRecursion(h, T, V, base, rest, step)
    BY <1>1
  <2>. QED BY SMTT(30), <2>1, <2>2, RecursionsAgree
<1>2. ASSUME NEW R \in SUBSET U, \A Q \in SUBSET R : Q # R => Q \in Good
      PROVE  R \in Good
  <2>. DEFINE f == [S \in SUBSET R |->
                      IF S = {} THEN base ELSE step[S][Solution(rest[S])[rest[S]]]]
  <2>1. ASSUME NEW Q \in SUBSET R, Q # R
        PROVE  Is(Solution(Q), Q)
    <3>. \E g : Is(g, Q)
      BY <1>2, <2>1
    <3>. HIDE DEF Is
    <3>. QED OBVIOUS
  <2>. HIDE DEF Solution
  <2>2. ASSUME NEW S \in SUBSET R, S # {}
        PROVE  rest[S] \in SUBSET R /\ rest[S] # R /\ rest[S] \in SUBSET S
    BY <2>2 DEF Shrinking
  <2>3. ASSUME NEW Q \in SUBSET R, Q # R
        PROVE  f[Q] = Solution(Q)[Q]
    <3>1. CASE Q = {}
      BY <2>1, <2>3, <3>1 DEF IsRecursion
    <3>2. CASE Q # {}
      <4>1. Is(Solution(Q), Q) /\ Is(Solution(rest[Q]), rest[Q])
        BY <2>1, <2>2, <2>3, <3>2
      <4>2. Solution(Q)[rest[Q]] = Solution(rest[Q])[rest[Q]]
        <5>1. PICK T : T = rest[Q]
          OBVIOUS
        <5>2. Q \in SUBSET U /\ T \in SUBSET U /\ T \in SUBSET Q
          BY <2>2, <3>2, <5>1
        <5>3. ASSUME NEW g, NEW h, Is(g, Q), Is(h, T)
              PROVE  g[T] = h[T]
          BY <5>2, <5>3, <1>1
        <5>. HIDE DEF Is
        <5>. QED BY <4>1, <5>1, <5>3
      <4>3. Solution(Q)[Q] = step[Q][Solution(Q)[rest[Q]]]
        BY <3>2, <4>1 DEF IsRecursion
      <4>4. f[Q] = step[Q][Solution(rest[Q])[rest[Q]]]
        BY <3>2
      <4>. QED BY <4>2, <4>3, <4>4
    <3>. QED BY <3>1, <3>2
  <2>4. ASSUME NEW S \in SUBSET R, S # {}
        PROVE  f[S] \in V /\ f[S] = step[S][f[rest[S]]]
    <3>1. f[S] = step[S][Solution(rest[S])[rest[S]]]
      BY <2>4
    <3>2. f[rest[S]] = Solution(rest[S])[rest[S]]
      BY <2>2, <2>3, <2>4
    <3>3. Solution(rest[S])[rest[S]] \in V
      <4>1. Is(Solution(rest[S]), rest[S])
        BY <2>1, <2>2, <2>4
      <4>. QED BY <4>1 DEF IsRecursion
    <3>4. step[S] \in [V -> V]
      BY <2>4
    <3>. QED BY <3>1, <3>2, <3>3, <3>4
  <2>5. f[{}] = base
    OBVIOUS
  <2>6. f \in [SUBSET R -> V]
    BY <2>4, <2>5
  <2>7. Is(f, R)
    BY <2>4, <2>5, <2>6 DEF IsRecursion
  <2>. QED BY <2>7
<1>3. Good \in SUBSET SUBSET U
  OBVIOUS
<1>4. Good = SUBSET U
  <2>. HIDE DEF Good
  <2>. QED BY <1>2, <1>3, SubsetInduction
<1>. QED BY <1>4

\* What holds of 0, and of every number up to n if of the one before, holds of
\* all of them.
LEMMA IntervalInduction ==
  ASSUME NEW n \in Nat, NEW Good \in SUBSET (0 .. n), 0 \in Good,
         \A k \in 1 .. n : k - 1 \in Good => k \in Good
  PROVE  Good = 0 .. n
<1>. DEFINE Sets == {S \in SUBSET (1 .. n) : \A k \in 0 .. n : S = 1 .. k => k \in Good}
<1>1. ASSUME NEW S \in SUBSET (1 .. n), \A T \in SUBSET S : T # S => T \in Sets
      PROVE  S \in Sets
  <2>. SUFFICES ASSUME NEW k \in 1 .. n, S = 1 .. k
                PROVE  k \in Good
    BY <1>1
  <2>1. /\ 1 .. k - 1 \in SUBSET S /\ 1 .. k - 1 # S
        /\ k - 1 \in 0 .. n
    <3>1. k \in S /\ k \notin 1 .. k - 1
      OBVIOUS
    <3>. QED BY <3>1
  <2>2. 1 .. k - 1 \in Sets
    BY <1>1, <2>1
  <2>. QED BY <2>1, <2>2
<1>2. IsFiniteSet(1 .. n) /\ Sets \in SUBSET SUBSET (1 .. n)
  BY FS_Interval
<1>3. Sets = SUBSET (1 .. n)
  <2>1. PICK U : U = 1 .. n
    OBVIOUS
  <2>. HIDE DEF Sets
  <2>. QED BY <1>1, <1>2, <2>1, SubsetInduction
<1>4. ASSUME NEW k \in 0 .. n
      PROVE  k \in Good
  <2>1. 1 .. k \in SUBSET (1 .. n)
    OBVIOUS
  <2>2. 1 .. k \in Sets
    BY <1>3, <2>1
  <2>. QED BY <2>2
<1>. QED BY <1>4

-----------------------------------------------------------------------------
(***************************************************************************)
(* Episodes: the inductive invariant.  The difficulty is a run that stores *)
(* its plan while others do the same: the events it read are no longer     *)
(* those that are left.  The invariant says in which sense the plan is     *)
(* still what a run that started now would cut.                            *)
(***************************************************************************)
Whole(S) == {e \in S : ~Oversized(e)}

\* What a run that started now would read of a group.
Left(g) == Of(g, Whole(Pending))

Known(g) == g[1] \notin forgotten

Underway(p) == run[p].plan # {}

Apart(a, b) == a = b \/ a \cap b = {}

\* What segment_events makes a draft.
IsDraft(d) ==
    /\ d \in (SUBSET Events) \ {{}}
    /\ \A a, b \in d : Group(a) = Group(b)
    /\ TextLength(d) <= MaxChars

DraftsOnly ==
    /\ \A episode \in episodes : IsDraft(episode)
    /\ \A p \in Segmenters : \A d \in run[p].plan : IsDraft(d)

KeptEvents == \A e \in events : Source[e] \notin forgotten

\* A group of which one run under way missed an event, and another did not,
\* is excused: the second one read between the event and the first.
MissedIsLate == \A p \in Segmenters : run[p].missed \subseteq late

MissedTogether ==
    \A p, r \in Segmenters :
        (Underway(p) /\ Underway(r)) => run[p].missed \subseteq run[r].missed \cup excused

\* Nothing planned overlaps with anything stored or planned elsewhere,
\* unless it is the same.
EpisodesApart ==
    \A a, b \in episodes : GroupOf(a) \notin excused => Apart(a, b)

PlansApart ==
    \A p \in Segmenters : \A d \in run[p].plan :
        GroupOf(d) \notin excused =>
            /\ \A episode \in episodes : Apart(d, episode)
            /\ \A r \in Segmenters : \A other \in run[r].plan : Apart(d, other)

NoTies(drafts) == \A a, b \in drafts : Start(a) = Start(b) => a = b

\* What is planned of a group was stored by another run, or would be cut by
\* a run that started now; and what that one would cut in front of it is
\* planned too.
InStep(p, g) ==
    /\ \A d \in run[p].plan : GroupOf(d) = g =>
          /\ d \in episodes \cup Cut[Left(g)]
          /\ \A e \in Cut[Left(g)] : Start(e) < Start(d) => e \in run[p].plan
    /\ NoTies(Cut[Left(g)])

RunsInStep ==
    \A p \in Segmenters, g \in Groups :
        (Underway(p) /\ Known(g) /\ g \notin run[p].missed \cup excused) => InStep(p, g)

EpisodesOf(g) == {episode \in episodes : GroupOf(episode) = g}

\* What is stored and what is left to cut make up one cut of everything.
CutOnce ==
    \A g \in Groups :
        (Known(g) /\ g \notin late \cup excused) =>
            EpisodesOf(g) \cup Cut[Left(g)] = Cut[Of(g, Whole(events))]

IInv ==
    /\ TypeOK /\ DraftsOnly /\ KeptEvents
    /\ MissedIsLate /\ MissedTogether
    /\ EpisodesApart /\ PlansApart
    /\ RunsInStep /\ CutOnce

-----------------------------------------------------------------------------
(***************************************************************************)
(* Episodes: the characters of a set of events.                            *)
(***************************************************************************)
LEMMA EventsFinite ==
  ASSUME NEW S \in SUBSET Events
  PROVE  IsFiniteSet(S) /\ Cardinality(S) \in Nat
BY EventsAssumption, FS_Subset, FS_CardinalityType

AnyOf(S) == CHOOSE e \in S : TRUE

LEMMA AnyOfIn ==
  ASSUME NEW S, S # {}
  PROVE  AnyOf(S) \in S
BY DEF AnyOf

\* MapThenSumSet adds the members one by one, in an order it chooses.
IsSum(f, R) ==
    f = [S \in SUBSET R |-> IF S = {} THEN 0 ELSE Size[AnyOf(S)] + f[S \ {AnyOf(S)}]]

Sums(R) == CHOOSE f : IsSum(f, R)

LEMMA CharactersAre ==
  ASSUME NEW R
  PROVE  Characters(R) = Sums(R)[R]
BY DEF Characters, MapThenSumSet, MapThenFoldSet, Sums, IsSum, AnyOf

LEMMA SumsAre ==
  ASSUME NEW R \in SUBSET Events
  PROVE  IsSum(Sums(R), R)
<1>. DEFINE rest == [S \in SUBSET R |-> S \ {AnyOf(S)}]
            step == [S \in SUBSET R |-> [n \in Nat |-> Size[AnyOf(S)] + n]]
<1>1. Shrinking(R, rest)
  <2>. ASSUME NEW S \in SUBSET R, S # {}
       PROVE  rest[S] \in SUBSET S /\ rest[S] # S
    BY AnyOfIn
  <2>. QED BY DEF Shrinking
<1>2. \A S \in SUBSET R : S # {} => Size[AnyOf(S)] \in Nat
  BY AnyOfIn, TextAssumption
<1>3. \A S \in SUBSET R : S # {} => step[S] \in [Nat -> Nat]
  BY <1>2
<1>4. PICK f : IsRecursion(f, R, Nat, 0, rest, step)
  <2>. HIDE DEF rest, step
  <2>. QED BY <1>1, <1>3, EventsFinite, RecursionExists
<1>5. ASSUME NEW S \in SUBSET R, S # {}
      PROVE  f[S] = Size[AnyOf(S)] + f[S \ {AnyOf(S)}]
  <2>1. f[S] = step[S][f[rest[S]]] /\ f[rest[S]] \in Nat
    BY <1>4, <1>5 DEF IsRecursion
  <2>. QED BY <2>1
<1>6. f[{}] = 0 /\ f = [S \in SUBSET R |-> f[S]]
  BY <1>4 DEF IsRecursion
<1>7. IsSum(f, R)
  BY <1>5, <1>6 DEF IsSum
<1>. QED BY <1>7 DEF Sums

\* The sum of a set does not depend on the set it was added up in.
LEMMA SumsAgree ==
  ASSUME NEW R \in SUBSET Events, NEW D \in SUBSET R
  PROVE  Sums(R)[D] = Sums(D)[D]
<1>. DEFINE Good == {S \in SUBSET D : Sums(R)[S] = Sums(D)[S]}
<1>1. IsFiniteSet(D) /\ IsSum(Sums(R), R) /\ IsSum(Sums(D), D)
  BY EventsFinite, SumsAre
<1>2. ASSUME NEW S \in SUBSET D, \A T \in SUBSET S : T # S => T \in Good
      PROVE  S \in Good
  <2>1. CASE S = {}
    BY <1>1, <2>1 DEF IsSum
  <2>2. CASE S # {}
    <3>1. PICK e \in S : e = AnyOf(S)
      BY <2>2, AnyOfIn
    <3>2. Sums(R)[S \ {e}] = Sums(D)[S \ {e}]
      BY <1>2
    <3>3. Sums(R)[S] = Size[e] + Sums(R)[S \ {e}]
      BY <1>1, <2>2, <3>1 DEF IsSum
    <3>4. Sums(D)[S] = Size[e] + Sums(D)[S \ {e}]
      BY <1>1, <2>2, <3>1 DEF IsSum
    <3>. QED BY <3>2, <3>3, <3>4
  <2>. QED BY <2>1, <2>2
<1>3. Good \in SUBSET SUBSET D
  OBVIOUS
<1>4. Good = SUBSET D
  <2>. HIDE DEF Good
  <2>. QED BY <1>1, <1>2, <1>3, SubsetInduction
<1>. QED BY <1>4

LEMMA CharactersOfNone == Characters({}) = 0
BY CharactersAre, SumsAre DEF IsSum

LEMMA CharactersOfAny ==
  ASSUME NEW S \in SUBSET Events, S # {}
  PROVE  Characters(S) = Size[AnyOf(S)] + Characters(S \ {AnyOf(S)})
<1>1. IsSum(Sums(S), S) /\ Characters(S) = Sums(S)[S]
  BY CharactersAre, SumsAre
<1>2. Sums(S)[S] = Size[AnyOf(S)] + Sums(S)[S \ {AnyOf(S)}]
  BY <1>1 DEF IsSum
<1>3. Sums(S)[S \ {AnyOf(S)}] = Characters(S \ {AnyOf(S)})
  BY CharactersAre, SumsAgree
<1>. QED BY <1>1, <1>2, <1>3

\* The order in which they are counted makes no difference.
LEMMA CharactersWithout ==
  ASSUME NEW S \in SUBSET Events
  PROVE  /\ Characters(S) \in Nat
         /\ \A e \in S : Characters(S) = Size[e] + Characters(S \ {e})
<1>. DEFINE Good == {T \in SUBSET Events :
              /\ Characters(T) \in Nat
              /\ \A e \in T : Characters(T) = Size[e] + Characters(T \ {e})}
<1>1. ASSUME NEW R \in SUBSET Events, \A T \in SUBSET R : T # R => T \in Good
      PROVE  R \in Good
  <2>1. CASE R = {}
    BY <2>1, CharactersOfNone
  <2>2. CASE R # {}
    <3>1. PICK a \in R : a = AnyOf(R)
      BY <2>2, AnyOfIn
    <3>2. Characters(R) = Size[a] + Characters(R \ {a})
      BY <2>2, <3>1, CharactersOfAny
    <3>3. R \ {a} \in Good
      BY <1>1
    <3>4. Characters(R) \in Nat
      BY <3>2, <3>3, TextAssumption
    <3>5. ASSUME NEW e \in R, e # a
          PROVE  Characters(R) = Size[e] + Characters(R \ {e})
      <4>1. R \ {e} \in Good /\ (R \ {a}) \ {e} = (R \ {e}) \ {a}
        BY <1>1
      <4>2. Characters(R \ {a}) = Size[e] + Characters((R \ {a}) \ {e})
        BY <3>3, <3>5
      <4>3. Characters(R \ {e}) = Size[a] + Characters((R \ {e}) \ {a})
        BY <3>5, <4>1
      <4>4. (R \ {a}) \ {e} \in Good
        BY <1>1
      <4>5. /\ Size[a] \in Nat /\ Size[e] \in Nat
            /\ Characters((R \ {a}) \ {e}) \in Nat
        BY <4>4, TextAssumption
      <4>6. PICK rest : rest = (R \ {a}) \ {e} /\ rest = (R \ {e}) \ {a}
        BY <4>1
      <4>7. /\ Characters(rest) \in Nat
            /\ Characters(R \ {a}) = Size[e] + Characters(rest)
            /\ Characters(R \ {e}) = Size[a] + Characters(rest)
        BY <4>2, <4>3, <4>5, <4>6
      <4>. HIDE DEF Good
      <4>. QED BY <3>2, <4>5, <4>7
    <3>. QED BY <3>2, <3>4, <3>5
  <2>. QED BY <2>1, <2>2
<1>2. Good \in SUBSET SUBSET Events
  OBVIOUS
<1>3. Good = SUBSET Events
  <2>. HIDE DEF Good
  <2>. QED BY <1>1, <1>2, EventsAssumption, SubsetInduction
<1>. QED BY <1>3

-----------------------------------------------------------------------------
(***************************************************************************)
(* Episodes: the order of the events, and what is cut from a set of them.  *)
(***************************************************************************)
LEMMA EarlierOrders ==
  ASSUME NEW a \in Events, NEW b \in Events, NEW c \in Events
  PROVE  /\ ~Earlier(a, a)
         /\ ~(Earlier(a, b) /\ Earlier(b, a))
         /\ a # b => Earlier(a, b) \/ Earlier(b, a)
         /\ (Earlier(a, b) /\ Earlier(b, c)) => Earlier(a, c)
         /\ Earlier(a, b) => Time[a] <= Time[b]
BY EventsAssumption, TextAssumption DEF Earlier

LEMMA EarliestIs ==
  ASSUME NEW S \in SUBSET Events, S # {}
  PROVE  Earliest(S) \in S /\ \A other \in S \ {Earliest(S)} : Earlier(Earliest(S), other)
<1>. DEFINE Good == {T \in SUBSET Events :
              T # {} => \E e \in T : \A other \in T \ {e} : Earlier(e, other)}
<1>1. ASSUME NEW R \in SUBSET Events, \A T \in SUBSET R : T # R => T \in Good
      PROVE  R \in Good
  <2>1. ASSUME NEW a \in R
        PROVE  \E e \in R : \A other \in R \ {e} : Earlier(e, other)
    <3>1. CASE R = {a}
      BY <3>1
    <3>2. CASE R # {a}
      <4>1. R \ {a} \in SUBSET R /\ R \ {a} # R /\ R \ {a} # {}
        BY <3>2
      <4>. R \ {a} \in Good
        BY <1>1, <4>1
      <4>2. PICK e \in R \ {a} : \A other \in (R \ {a}) \ {e} : Earlier(e, other)
        BY <4>1
      <4>3. CASE Earlier(e, a)
        BY <4>2, <4>3
      <4>4. CASE Earlier(a, e)
        <5>1. \A other \in R \ {a} : Earlier(a, other)
          BY <4>2, <4>4, EarlierOrders
        <5>. QED BY <5>1
      <4>. QED BY <4>3, <4>4, EarlierOrders
    <3>. QED BY <3>1, <3>2
  <2>. QED BY <2>1
<1>2. Good \in SUBSET SUBSET Events
  OBVIOUS
<1>3. Good = SUBSET Events
  <2>. HIDE DEF Good
  <2>. QED BY <1>1, <1>2, EventsAssumption, SubsetInduction
<1>4. \E e \in S : \A other \in S \ {e} : Earlier(e, other)
  BY <1>3
<1>. QED BY <1>4 DEF Earliest

LEMMA LatestIs ==
  ASSUME NEW S \in SUBSET Events, S # {}
  PROVE  Latest(S) \in S /\ \A other \in S \ {Latest(S)} : Earlier(other, Latest(S))
<1>. DEFINE Good == {T \in SUBSET Events :
              T # {} => \E e \in T : \A other \in T \ {e} : Earlier(other, e)}
<1>1. ASSUME NEW R \in SUBSET Events, \A T \in SUBSET R : T # R => T \in Good
      PROVE  R \in Good
  <2>1. ASSUME NEW a \in R
        PROVE  \E e \in R : \A other \in R \ {e} : Earlier(other, e)
    <3>1. CASE R = {a}
      BY <3>1
    <3>2. CASE R # {a}
      <4>1. R \ {a} \in SUBSET R /\ R \ {a} # R /\ R \ {a} # {}
        BY <3>2
      <4>. R \ {a} \in Good
        BY <1>1, <4>1
      <4>2. PICK e \in R \ {a} : \A other \in (R \ {a}) \ {e} : Earlier(other, e)
        BY <4>1
      <4>3. CASE Earlier(a, e)
        BY <4>2, <4>3
      <4>4. CASE Earlier(e, a)
        <5>1. \A other \in R \ {a} : Earlier(other, a)
          BY <4>2, <4>4, EarlierOrders
        <5>. QED BY <5>1
      <4>. QED BY <4>3, <4>4, EarlierOrders
    <3>. QED BY <3>1, <3>2
  <2>. QED BY <2>1
<1>2. Good \in SUBSET SUBSET Events
  OBVIOUS
<1>3. Good = SUBSET Events
  <2>. HIDE DEF Good
  <2>. QED BY <1>1, <1>2, EventsAssumption, SubsetInduction
<1>4. \E e \in S : \A other \in S \ {e} : Earlier(other, e)
  BY <1>3
<1>. QED BY <1>4 DEF Latest

UpTo(e, S) == {e} \cup {a \in S : Earlier(a, e)}

\* The first draft ends at one of the events.
LEMMA FirstDraftIs ==
  ASSUME NEW S \in SUBSET Events, S # {}
  PROVE  \E last \in S : FirstDraft(S) = UpTo(last, S) /\ Unbroken(UpTo(last, S))
<1>. DEFINE X == {e \in S : Unbroken(UpTo(e, S))}
<1>1. Earliest(S) \in S /\ UpTo(Earliest(S), S) = {Earliest(S)}
  <2>1. \A a \in S : ~Earlier(a, Earliest(S))
    BY EarliestIs, EarlierOrders
  <2>. QED BY <2>1, EarliestIs DEF UpTo
<1>2. ASSUME NEW e \in S
      PROVE  Unbroken({e})
  <2>1. Earliest({e}) = e
    BY EarliestIs
  <2>. QED BY <2>1 DEF Unbroken
<1>3. X \in SUBSET Events /\ X # {}
  BY <1>1, <1>2
<1>4. PICK last \in X : \A e \in X \ {last} : Earlier(e, last)
  BY <1>3, LatestIs
<1>5. Leading(S) = {UpTo(e, S) : e \in S}
  BY DEF Leading, UpTo
<1>6. UpTo(last, S) \in {P \in Leading(S) : Unbroken(P)}
  BY <1>5
<1>7. ASSUME NEW P \in Leading(S), Unbroken(P)
      PROVE  P \subseteq UpTo(last, S)
  <2>1. PICK e \in S : P = UpTo(e, S)
    BY <1>5
  <2>2. e \in X
    BY <1>7, <2>1
  <2>3. e = last \/ Earlier(e, last)
    BY <1>4, <2>2
  <2>. QED BY <2>1, <2>3, EarlierOrders DEF UpTo
<1>8. FirstDraft(S) = UpTo(last, S)
  BY <1>6, <1>7 DEF FirstDraft
<1>. QED BY <1>8

LEMMA FirstDraftTakes ==
  ASSUME NEW S \in SUBSET Events, S # {}
  PROVE  /\ FirstDraft(S) \in SUBSET S /\ FirstDraft(S) # {}
         /\ Unbroken(FirstDraft(S))
         /\ \A a \in FirstDraft(S), b \in S \ FirstDraft(S) : Earlier(a, b)
<1>1. PICK last \in S : FirstDraft(S) = UpTo(last, S) /\ Unbroken(UpTo(last, S))
  BY FirstDraftIs
<1>2. ASSUME NEW a \in UpTo(last, S), NEW b \in S \ UpTo(last, S)
      PROVE  Earlier(a, b)
  <2>1. a \in Events /\ (a = last \/ Earlier(a, last)) /\ Earlier(last, b)
    BY EarlierOrders DEF UpTo
  <2>. QED BY <2>1, EarlierOrders
<1>. QED BY <1>1, <1>2 DEF UpTo

\* The recursive definition of Cut has a solution, so that Cut is one.
IsCut(f) ==
    f = [S \in SUBSET Events |->
            IF S = {} THEN {} ELSE {FirstDraft(S)} \cup f[S \ FirstDraft(S)]]

LEMMA CutIs == IsCut(Cut)
<1>. DEFINE rest == [S \in SUBSET Events |-> S \ FirstDraft(S)]
            V == SUBSET SUBSET Events
            step == [S \in SUBSET Events |-> [drafts \in V |-> {FirstDraft(S)} \cup drafts]]
<1>1. Shrinking(Events, rest)
  <2>. ASSUME NEW S \in SUBSET Events, S # {}
       PROVE  rest[S] \in SUBSET S /\ rest[S] # S
    BY FirstDraftTakes
  <2>. QED BY DEF Shrinking
<1>2. \A S \in SUBSET Events : S # {} => FirstDraft(S) \in SUBSET Events
  BY FirstDraftTakes
<1>3. \A S \in SUBSET Events : S # {} => step[S] \in [V -> V]
  BY <1>2
<1>4. {} \in V
  OBVIOUS
<1>5. PICK f : IsRecursion(f, Events, V, {}, rest, step)
  <2>. HIDE DEF rest, step, V
  <2>. QED BY <1>1, <1>3, <1>4, EventsAssumption, RecursionExists
<1>6. ASSUME NEW S \in SUBSET Events, S # {}
      PROVE  f[S] = {FirstDraft(S)} \cup f[S \ FirstDraft(S)]
  <2>1. f[S] = step[S][f[rest[S]]] /\ f[rest[S]] \in V
    BY <1>5, <1>6 DEF IsRecursion
  <2>. QED BY <2>1
<1>7. f[{}] = {} /\ f = [S \in SUBSET Events |-> f[S]]
  BY <1>5 DEF IsRecursion
<1>8. IsCut(f)
  BY <1>6, <1>7 DEF IsCut
<1>9. Cut = CHOOSE g : IsCut(g)
  BY DEF Cut, IsCut
<1>. QED BY <1>8, <1>9

LEMMA CutStep ==
  /\ Cut[{}] = {}
  /\ \A S \in SUBSET Events :
        S # {} => Cut[S] = {FirstDraft(S)} \cup Cut[S \ FirstDraft(S)]
BY CutIs DEF IsCut

LEMMA CutParts ==
  ASSUME NEW S \in SUBSET Events
  PROVE  /\ \A d \in Cut[S] : d \in (SUBSET S) \ {{}} /\ Unbroken(d)
         /\ \A d, e \in Cut[S] : Apart(d, e)
<1>. DEFINE Good == {T \in SUBSET Events :
              /\ \A d \in Cut[T] : d \in (SUBSET T) \ {{}} /\ Unbroken(d)
              /\ \A d, e \in Cut[T] : Apart(d, e)}
<1>1. ASSUME NEW R \in SUBSET Events, \A T \in SUBSET R : T # R => T \in Good
      PROVE  R \in Good
  <2>1. CASE R = {}
    BY <2>1, CutStep
  <2>2. CASE R # {}
    <3>1. PICK first : /\ first = FirstDraft(R) /\ first \in (SUBSET R) \ {{}}
                       /\ Unbroken(first)
                       /\ Cut[R] = {first} \cup Cut[R \ first]
      BY <2>2, FirstDraftTakes, CutStep
    <3>2. R \ first \in Good
      <4>1. R \ first \in SUBSET R /\ R \ first # R
        BY <3>1
      <4>. HIDE DEF Good
      <4>. QED BY <1>1, <4>1
    <3>3. \A d \in Cut[R \ first] : d \in (SUBSET (R \ first)) \ {{}} /\ Unbroken(d)
      BY <3>2
    <3>4. \A d, e \in Cut[R] : Apart(d, e)
      <4>1. \A d, e \in Cut[R \ first] : Apart(d, e)
        BY <3>2
      <4>2. \A d \in Cut[R \ first] : first \cap d = {} /\ d \cap first = {}
        BY <3>3
      <4>. HIDE DEF Good
      <4>. QED BY <3>1, <4>1, <4>2 DEF Apart
    <3>5. \A d \in Cut[R] : d \in (SUBSET R) \ {{}} /\ Unbroken(d)
      BY <3>1, <3>3
    <3>. QED BY <3>4, <3>5
  <2>. QED BY <2>1, <2>2
<1>2. Good \in SUBSET SUBSET Events
  OBVIOUS
<1>3. Good = SUBSET Events
  <2>. HIDE DEF Good
  <2>. QED BY <1>1, <1>2, EventsAssumption, SubsetInduction
<1>. QED BY <1>3

\* The first draft starts first, and the others are cut from what it leaves.
LEMMA CutInOrder ==
  ASSUME NEW S \in SUBSET Events, S # {}
  PROVE  /\ FirstDraft(S) \in Cut[S] /\ FirstDraft(S) \notin Cut[S \ FirstDraft(S)]
         /\ \A d \in Cut[S] : Start(FirstDraft(S)) <= Start(d)
<1>1. PICK first : /\ first = FirstDraft(S) /\ first \in (SUBSET S) \ {{}}
                   /\ \A a \in first, b \in S \ first : Earlier(a, b)
                   /\ Cut[S] = {first} \cup Cut[S \ first]
  BY FirstDraftTakes, CutStep
<1>2. \A d \in Cut[S \ first] : d \in (SUBSET (S \ first)) \ {{}}
  BY CutParts
<1>3. Earliest(first) \in first /\ Start(first) \in Nat
  BY <1>1, EarliestIs, TextAssumption DEF Start
<1>4. ASSUME NEW d \in Cut[S \ first]
      PROVE  Start(first) <= Start(d)
  <2>1. Earliest(d) \in S \ first
    BY <1>2, EarliestIs
  <2>2. Earlier(Earliest(first), Earliest(d))
    BY <1>1, <1>3, <2>1
  <2>. QED BY <1>1, <1>3, <2>1, <2>2, EarlierOrders DEF Start
<1>5. first \notin Cut[S \ first]
  BY <1>1, <1>2
<1>6. \A d \in Cut[S] : Start(first) <= Start(d)
  BY <1>1, <1>3, <1>4
<1>. QED BY <1>1, <1>5, <1>6

-----------------------------------------------------------------------------
(***************************************************************************)
(* Episodes: what is cut from events that fit is a draft.                  *)
(***************************************************************************)
LEMMA UnbrokenFits ==
  ASSUME NEW d \in SUBSET Events, d # {}, Unbroken(d), \A e \in d : ~Oversized(e)
  PROVE  TextLength(d) <= MaxChars
<1>1. PICK e \in d : e = Latest(d) /\ \A other \in d \ {e} : Earlier(other, e)
  BY LatestIs
<1>2. PICK before \in SUBSET Events : before = d \ {e}
  OBVIOUS
<1>3. /\ Characters(d) = Size[e] + Characters(before)
      /\ Characters(before) \in Nat /\ Size[e] \in Nat /\ MaxChars \in Nat
      /\ Cardinality(before) = Cardinality(d) - 1
      /\ Cardinality(d) \in Nat /\ Cardinality(before) \in Nat
  BY <1>2, CharactersWithout, EventsFinite, FS_RemoveElement, TextAssumption,
     ConfigAssumption
<1>4. CASE before = {}
  <2>1. Characters(before) = 0 /\ Cardinality(before) = 0 /\ Size[e] <= MaxChars
    BY <1>3, <1>4, CharactersOfNone, FS_EmptySet DEF Oversized
  <2>. QED BY <1>3, <2>1 DEF TextLength
<1>5. CASE before # {}
  <2>1. e # Earliest(d)
    BY <1>1, <1>2, <1>5, EarliestIs, EarlierOrders
  <2>2. before = {a \in d : Earlier(a, e)}
    BY <1>1, <1>2, EarlierOrders
  <2>3. ~Boundary(before, e)
    BY <2>1, <2>2 DEF Unbroken
  <2>4. Characters(before) + Size[e] + 2 * Cardinality(before) <= MaxChars
    BY <1>3, <2>3 DEF Boundary
  <2>. QED BY <1>3, <2>4 DEF TextLength
<1>. QED BY <1>4, <1>5

LEMMA GroupsAre ==
  ASSUME NEW e \in Events
  PROVE  Group(e) \in Groups /\ Group(e)[1] = Source[e]
BY DEF Group, Groups

LEMMA GroupOfIs ==
  ASSUME NEW d, IsDraft(d)
  PROVE  /\ \A e \in d : e \in Events /\ Group(e) = GroupOf(d)
         /\ GroupOf(d) \in Groups
         /\ Earliest(d) \in d /\ Start(d) \in Nat
BY EarliestIs, GroupsAre, TextAssumption DEF IsDraft, GroupOf, Start

\* Drafts of different groups have no event in common.
LEMMA GroupsApart ==
  ASSUME NEW a, NEW b, IsDraft(a), IsDraft(b), GroupOf(a) # GroupOf(b)
  PROVE  Apart(a, b)
BY GroupOfIs DEF Apart

LEMMA CutGivesDrafts ==
  ASSUME NEW S \in SUBSET Events, \A e \in S : ~Oversized(e), NEW g
  PROVE  \A d \in Cut[Of(g, S)] : IsDraft(d) /\ GroupOf(d) = g /\ d \subseteq S
<1>. ASSUME NEW d \in Cut[Of(g, S)]
     PROVE  IsDraft(d) /\ GroupOf(d) = g /\ d \subseteq S
  <2>1. Of(g, S) \in SUBSET Events /\ Of(g, S) \subseteq S /\ \A e \in Of(g, S) : Group(e) = g
    BY DEF Of
  <2>2. d \in (SUBSET Of(g, S)) \ {{}} /\ Unbroken(d)
    BY <2>1, CutParts
  <2>3. TextLength(d) <= MaxChars
    BY <2>1, <2>2, UnbrokenFits
  <2>4. IsDraft(d)
    BY <2>1, <2>2, <2>3 DEF IsDraft
  <2>. QED BY <2>1, <2>2, <2>4, GroupOfIs
<1>. QED OBVIOUS

\* The one of a plan that is stored next starts first.
LEMMA FirstsOne ==
  ASSUME NEW plan \in SUBSET SUBSET Events, \A d \in plan : Start(d) \in Nat,
         NEW episode \in UNION Firsts(1, plan)
  PROVE  episode \in plan /\ \A other \in plan : Start(episode) <= Start(other)
<1>1. IsFiniteSet(plan) /\ Cardinality(plan) \in Nat
  BY EventsAssumption, FS_SUBSET, FS_Subset, FS_CardinalityType
<1>2. PICK kept \in SUBSET plan :
        /\ episode \in kept
        /\ Cardinality(kept) = IF Cardinality(plan) < 1 THEN Cardinality(plan) ELSE 1
        /\ \A a \in kept, b \in plan \ kept : Start(a) <= Start(b)
  BY DEF Firsts
<1>3. IsFiniteSet(kept)
  BY <1>1, FS_Subset
<1>4. plan # {} /\ Cardinality(plan) # 0
  BY <1>1, <1>2, FS_EmptySet
<1>5. Cardinality(kept) = 1
  BY <1>1, <1>2, <1>4
<1>6. kept = {episode}
  BY <1>2, <1>3, <1>5, FS_Singleton
<1>. QED BY <1>2, <1>6

LEMMA FirstsKept ==
  ASSUME NEW n, NEW drafts, NEW kept \in Firsts(n, drafts)
  PROVE  kept \subseteq drafts /\ \A a \in kept, b \in drafts \ kept : Start(a) <= Start(b)
BY DEF Firsts

-----------------------------------------------------------------------------
(***************************************************************************)
(* Episodes: the initial state and the steps keep the invariant.           *)
(***************************************************************************)
LEMMA LeftIs ==
  ASSUME NEW g
  PROVE  Left(g) = {e \in events : /\ Group(e) = g /\ ~Oversized(e)
                                   /\ \A episode \in episodes : e \notin episode}
BY DEF Left, Of, Whole, Pending

LEMMA LeftParts ==
  ASSUME TypeOK, NEW g
  PROVE  /\ Left(g) \in SUBSET Events /\ Cut[Left(g)] \subseteq SUBSET Events
         /\ \A d \in Cut[Left(g)] :
               /\ IsDraft(d) /\ GroupOf(d) = g /\ d # {} /\ d \subseteq events
               /\ \A episode \in episodes : Apart(d, episode) /\ d # episode
         /\ \A d, e \in Cut[Left(g)] : Apart(d, e)
<1>1. PICK pending : pending = Whole(Pending)
  OBVIOUS
<1>2. /\ pending \in SUBSET Events /\ pending \subseteq events
      /\ \A e \in pending : ~Oversized(e) /\ \A episode \in episodes : e \notin episode
  BY <1>1 DEF Whole, Pending, TypeOK
<1>3. PICK left \in SUBSET Events : left = Of(g, pending)
  BY <1>2 DEF Of
<1>4. \A d \in Cut[left] : IsDraft(d) /\ GroupOf(d) = g /\ d \subseteq pending
  BY <1>2, <1>3, CutGivesDrafts
<1>5. \A d, e \in Cut[left] : Apart(d, e)
  BY CutParts
<1>6. Left(g) = left
  BY <1>1, <1>3 DEF Left
<1>7. \A d \in Cut[left] : d # {} /\ d \in SUBSET Events
  BY <1>4 DEF IsDraft
<1>8. ASSUME NEW d \in Cut[left], NEW episode \in episodes
      PROVE  Apart(d, episode) /\ d # episode
  BY <1>2, <1>4, <1>7 DEF Apart
<1>. QED BY <1>2, <1>4, <1>5, <1>6, <1>7, <1>8

LEMMA InitOK == Init => IInv
<1>. SUFFICES ASSUME Init PROVE IInv
  OBVIOUS
<1>1. TypeOK
  BY MishapsAssumption DEF Init, TypeOK, Idle
<1>2. DraftsOnly /\ KeptEvents /\ MissedIsLate /\ MissedTogether /\ EpisodesApart /\ PlansApart
  BY DEF Init, Idle, DraftsOnly, KeptEvents, MissedIsLate, MissedTogether, Underway,
     EpisodesApart, PlansApart
<1>3. RunsInStep
  BY DEF Init, Idle, RunsInStep, Underway
<1>4. CutOnce
  <2>. SUFFICES ASSUME NEW g \in Groups
                PROVE  EpisodesOf(g) \cup Cut[Left(g)] = Cut[Of(g, Whole(events))]
    BY DEF CutOnce
  <2>1. EpisodesOf(g) = {} /\ Left(g) = {} /\ Of(g, Whole(events)) = {}
    BY LeftIs DEF Init, EpisodesOf, Of, Whole
  <2>. QED BY <2>1
<1>. QED BY <1>1, <1>2, <1>3, <1>4 DEF IInv

LEMMA KillOK ==
  ASSUME IInv, NEW p \in Segmenters, Kill(p)
  PROVE  IInv'
<1>1. /\ run' = [run EXCEPT ![p] = Idle]
      /\ UNCHANGED <<events, episodes, forgotten, late, excused>>
      /\ mishaps' = mishaps + 1 /\ mishaps < MaxMishaps
  BY DEF Kill
<1>2. \A r \in Segmenters : run'[r] = IF r = p THEN Idle ELSE run[r]
  BY <1>1 DEF IInv, TypeOK
<1>3. TypeOK'
  BY <1>1, MishapsAssumption DEF IInv, TypeOK, Idle
<1>4. (DraftsOnly /\ KeptEvents /\ MissedIsLate /\ MissedTogether)'
  BY <1>1, <1>2 DEF IInv, DraftsOnly, KeptEvents, MissedIsLate, MissedTogether,
     Underway, Idle
<1>5. (EpisodesApart /\ PlansApart)'
  BY <1>1, <1>2 DEF IInv, EpisodesApart, PlansApart, Idle
<1>6. \A g : (Left(g))' = Left(g) /\ (EpisodesOf(g))' = EpisodesOf(g)
  BY <1>1 DEF Left, Pending, EpisodesOf
<1>7. RunsInStep'
  BY <1>1, <1>2, <1>6 DEF IInv, RunsInStep, InStep, NoTies, Underway, Idle, Known
<1>8. CutOnce'
  BY <1>1, <1>6 DEF IInv, CutOnce, Known
<1>. QED BY <1>3, <1>4, <1>5, <1>7, <1>8 DEF IInv

LEMMA ForgetOK ==
  ASSUME IInv, NEW s, Forget(s), s \in {Source[e] : e \in Events}
  PROVE  IInv'
<1>1. /\ forgotten' = forgotten \cup {s}
      /\ events' = {e \in events : Source[e] # s}
      /\ episodes' = {episode \in episodes : Source[Earliest(episode)] # s}
      /\ UNCHANGED <<run, late, excused>>
      /\ mishaps' = mishaps + 1 /\ mishaps < MaxMishaps
  BY DEF Forget
<1>2. ASSUME NEW episode \in episodes, NEW e \in episode
      PROVE  /\ e \in Events /\ e \in events /\ Source[e] = Source[Earliest(episode)]
             /\ Group(e) = GroupOf(episode) /\ Group(e)[1] = Source[e]
  <2>1. IsDraft(episode) /\ e \in events /\ events \subseteq Events
    BY DEF IInv, TypeOK, DraftsOnly
  <2>2. Group(e) = Group(Earliest(episode)) /\ Earliest(episode) \in Events /\ e \in Events
    BY <2>1, GroupOfIs DEF GroupOf
  <2>. QED BY <2>1, <2>2, GroupsAre DEF GroupOf
<1>3. TypeOK'
  <2>1. episodes' \subseteq (SUBSET events') \ {{}}
    BY <1>1, <1>2 DEF IInv, TypeOK
  <2>. QED BY <1>1, <2>1, MishapsAssumption DEF IInv, TypeOK
<1>4. (DraftsOnly /\ KeptEvents /\ MissedIsLate /\ MissedTogether)'
  BY <1>1 DEF IInv, DraftsOnly, KeptEvents, MissedIsLate, MissedTogether, Underway
<1>5. (EpisodesApart /\ PlansApart)'
  BY <1>1 DEF IInv, EpisodesApart, PlansApart
<1>6. ASSUME NEW g \in Groups, (Known(g))'
      PROVE  /\ Known(g) /\ (Left(g))' = Left(g) /\ (EpisodesOf(g))' = EpisodesOf(g)
             /\ (Of(g, Whole(events)))' = Of(g, Whole(events))
  <2>1. Known(g) /\ g[1] # s
    BY <1>1, <1>6 DEF Known
  <2>2. \A e \in events : Group(e) = g => Source[e] # s
    BY <2>1 DEF Group
  <2>3. (Of(g, Whole(events)))' = Of(g, Whole(events))
    BY <1>1, <2>2 DEF Of, Whole
  <2>4. \A episode \in episodes : episode # {}
    BY DEF IInv, TypeOK
  <2>5. ASSUME NEW episode \in episodes, GroupOf(episode) = g
        PROVE  Source[Earliest(episode)] # s
    BY <1>2, <2>1, <2>4, <2>5
  <2>6. (EpisodesOf(g))' = EpisodesOf(g)
    BY <1>1, <2>5 DEF EpisodesOf
  <2>7. ASSUME NEW e \in events, Group(e) = g
        PROVE  (\A episode \in episodes' : e \notin episode) <=>
               (\A episode \in episodes : e \notin episode)
    BY <1>1, <1>2, <2>2, <2>7
  <2>8. (Left(g))' = Left(g)
    <3>1. (Left(g))' = {e \in events' : /\ Group(e) = g /\ ~Oversized(e)
                                        /\ \A episode \in episodes' : e \notin episode}
      BY DEF Left, Of, Whole, Pending
    <3>. QED BY <1>1, <2>2, <2>7, <3>1, LeftIs
  <2>. QED BY <2>1, <2>3, <2>6, <2>8
<1>7. RunsInStep'
  <2>. SUFFICES ASSUME NEW r \in Segmenters, NEW g \in Groups, (Underway(r))', (Known(g))',
                       g \notin (run[r].missed \cup excused)'
                PROVE  (InStep(r, g))'
    BY DEF RunsInStep
  <2>1. InStep(r, g) /\ (Left(g))' = Left(g) /\ (EpisodesOf(g))' = EpisodesOf(g)
    BY <1>1, <1>6 DEF IInv, RunsInStep, Underway
  <2>2. \A d : GroupOf(d) = g => (d \in episodes' <=> d \in episodes)
    BY <2>1 DEF EpisodesOf
  <2>. QED BY <1>1, <2>1, <2>2 DEF InStep, NoTies
<1>8. CutOnce'
  BY <1>1, <1>6 DEF IInv, CutOnce
<1>. QED BY <1>3, <1>4, <1>5, <1>7, <1>8 DEF IInv

LEMMA ArriveOK ==
  ASSUME IInv, NEW e \in Events, Arrive(e)
  PROVE  IInv'
<1>. DEFINE g == Group(e)
<1>1. /\ e \notin events /\ Source[e] \notin forgotten
      /\ events' = events \cup {e}
      /\ late' = late \cup {h \in {g} :
            \/ \E p \in Segmenters : run[p].plan # {}
            \/ \E episode \in episodes : GroupOf(episode) = h}
      /\ run' = [p \in Segmenters |->
            IF run[p].plan = {} THEN run[p] ELSE [run[p] EXCEPT !.missed = @ \cup {g}]]
      /\ UNCHANGED <<episodes, forgotten, mishaps, excused>>
  BY DEF Arrive
<1>2. /\ g \in Groups /\ g[1] = Source[e]
      /\ run \in [Segmenters -> [plan : SUBSET ((SUBSET Events) \ {{}}), missed : SUBSET Groups]]
  BY GroupsAre DEF IInv, TypeOK
<1>. HIDE DEF g
<1>3. ASSUME NEW p \in Segmenters
      PROVE  /\ run'[p] \in [plan : SUBSET ((SUBSET Events) \ {{}}), missed : SUBSET Groups]
             /\ run'[p].plan = run[p].plan
             /\ run'[p].missed = IF run[p].plan = {} THEN run[p].missed ELSE run[p].missed \cup {g}
  BY <1>1, <1>2
<1>4. TypeOK'
  <2>1. run' \in [Segmenters -> [plan : SUBSET ((SUBSET Events) \ {{}}), missed : SUBSET Groups]]
    BY <1>1, <1>3
  <2>2. events' \subseteq Events /\ late' \subseteq Groups
    BY <1>1, <1>2 DEF IInv, TypeOK
  <2>. QED BY <1>1, <2>1, <2>2 DEF IInv, TypeOK
<1>5. DraftsOnly' /\ KeptEvents'
  BY <1>1, <1>3 DEF IInv, DraftsOnly, KeptEvents
<1>6. MissedIsLate' /\ MissedTogether'
  <2>1. (\E p \in Segmenters : run[p].plan # {}) => g \in late'
    BY <1>1
  <2>2. late \subseteq late'
    BY <1>1
  <2>3. MissedIsLate'
    BY <1>3, <2>1, <2>2 DEF IInv, MissedIsLate
  <2>4. MissedTogether'
    BY <1>1, <1>3 DEF IInv, MissedTogether, Underway
  <2>. QED BY <2>3, <2>4
<1>7. EpisodesApart' /\ PlansApart'
  BY <1>1, <1>3 DEF IInv, EpisodesApart, PlansApart
<1>8. ASSUME NEW h, h # g
      PROVE  /\ (Left(h))' = Left(h) /\ (EpisodesOf(h))' = EpisodesOf(h)
             /\ (Of(h, Whole(events)))' = Of(h, Whole(events))
  BY <1>1, <1>8 DEF Left, Of, Whole, Pending, EpisodesOf, g
<1>9. RunsInStep'
  <2>. SUFFICES ASSUME NEW r \in Segmenters, NEW h \in Groups, (Underway(r))', (Known(h))',
                       h \notin (run[r].missed \cup excused)'
                PROVE  (InStep(r, h))'
    BY DEF RunsInStep
  <2>1. h # g /\ Underway(r) /\ Known(h) /\ h \notin run[r].missed \cup excused
    BY <1>1, <1>3 DEF Underway, Known
  <2>2. InStep(r, h)
    BY <2>1 DEF IInv, RunsInStep
  <2>. QED BY <1>1, <1>3, <1>8, <2>1, <2>2 DEF InStep, NoTies
<1>10. CutOnce'
  <2>. SUFFICES ASSUME NEW h \in Groups, (Known(h))', h \notin (late \cup excused)'
                PROVE  (EpisodesOf(h) \cup Cut[Left(h)] = Cut[Of(h, Whole(events))])'
    BY DEF CutOnce
  <2>1. Known(h) /\ h \notin late \cup excused
    BY <1>1 DEF Known
  <2>2. CASE h # g
    BY <1>8, <2>1, <2>2 DEF IInv, CutOnce
  <2>3. CASE h = g
    <3>1. \A episode \in episodes : GroupOf(episode) # g
      BY <1>1, <2>3
    <3>2. \A episode \in episodes : \A a \in episode : Group(a) # g
      BY <3>1, GroupOfIs DEF IInv, DraftsOnly
    <3>3. (EpisodesOf(h))' = {}
      BY <1>1, <2>3, <3>1 DEF EpisodesOf
    <3>4. (Left(h))' = (Of(h, Whole(events)))'
      BY <1>1, <2>3, <3>2 DEF Left, Of, Whole, Pending
    <3>. QED BY <3>3, <3>4
  <2>. QED BY <2>2, <2>3
<1>. QED BY <1>4, <1>5, <1>6, <1>7, <1>9, <1>10 DEF IInv

-----------------------------------------------------------------------------
\* What a run that is in step stores is what a new run would store first.
LEMMA StoresFirst ==
  ASSUME IInv, NEW p \in Segmenters, NEW episode \in run[p].plan,
         \A other \in run[p].plan : Start(episode) <= Start(other),
         episode \subseteq events, episode \notin episodes,
         NEW g, g = GroupOf(episode), g \notin run[p].missed, g \notin excused
  PROVE  /\ Cut[Left(g)] = {episode} \cup Cut[Left(g) \ episode]
         /\ episode \notin Cut[Left(g) \ episode]
         /\ \A r \in Segmenters : Underway(r) /\ g \notin run[r].missed => InStep(r, g)
<1>1. IsDraft(episode) /\ g \in Groups /\ episode # {}
  BY GroupOfIs DEF IInv, DraftsOnly, IsDraft
<1>2. Known(g)
  <2>1. Earliest(episode) \in events /\ Source[Earliest(episode)] = g[1]
    BY <1>1, GroupOfIs, GroupsAre DEF GroupOf
  <2>. QED BY <2>1 DEF IInv, KeptEvents, Known
<1>3. \A r \in Segmenters : Underway(r) /\ g \notin run[r].missed => InStep(r, g)
  BY <1>1, <1>2 DEF IInv, RunsInStep
<1>4. InStep(p, g)
  BY <1>3 DEF Underway
<1>5. episode \in Cut[Left(g)]
  BY <1>4 DEF InStep
<1>6. PICK left \in SUBSET Events : left = Left(g)
  BY LeftParts DEF IInv
<1>7. left # {}
  BY <1>5, <1>6, CutStep
<1>8. PICK first : /\ first = FirstDraft(left) /\ first \in Cut[left]
                   /\ first \notin Cut[left \ first]
                   /\ Cut[left] = {first} \cup Cut[left \ first]
                   /\ \A d \in Cut[left] : Start(first) <= Start(d)
  BY <1>7, CutInOrder, CutStep
<1>9. Start(first) \in Nat /\ Start(episode) \in Nat
  <2>1. \A d \in Cut[left] : IsDraft(d)
    BY <1>6, LeftParts DEF IInv
  <2>. QED BY <1>5, <1>6, <1>8, <2>1, GroupOfIs
<1>10. first = episode
  <2>1. CASE Start(first) < Start(episode)
    <3>1. first \in run[p].plan
      BY <1>4, <1>6, <1>8, <2>1 DEF InStep
    <3>. QED BY <1>9, <2>1, <3>1
  <2>2. CASE Start(first) = Start(episode)
    BY <1>4, <1>5, <1>6, <1>8, <2>2 DEF InStep, NoTies
  <2>3. Start(first) <= Start(episode)
    BY <1>5, <1>6, <1>8
  <2>. QED BY <1>9, <2>1, <2>2, <2>3
<1>. QED BY <1>3, <1>6, <1>8, <1>10

LEMMA PersistOK ==
  ASSUME IInv, NEW p \in Segmenters, PersistNext(p)
  PROVE  IInv'
<1>0. run[p].plan \in SUBSET SUBSET Events /\ \A d \in run[p].plan : Start(d) \in Nat
  BY GroupOfIs DEF IInv, TypeOK, DraftsOnly, IsDraft
<1>1. PICK episode \in UNION Firsts(1, run[p].plan) :
        /\ episodes' = IF episode \subseteq events THEN episodes \cup {episode} ELSE episodes
        /\ run' = [run EXCEPT ![p] =
              IF episode \subseteq events /\ run[p].plan \ {episode} # {}
              THEN [run[p] EXCEPT !.plan = run[p].plan \ {episode}] ELSE Idle]
        /\ UNCHANGED <<events, forgotten, mishaps, late, excused>>
  BY DEF PersistNext
<1>2. episode \in run[p].plan /\ \A other \in run[p].plan : Start(episode) <= Start(other)
  BY <1>0, FirstsOne
<1>3. PICK g : g = GroupOf(episode)
  OBVIOUS
<1>4. IsDraft(episode)
  BY <1>2 DEF IInv, DraftsOnly
<1>5. /\ \A r \in Segmenters \ {p} : run'[r] = run[r]
      /\ run'[p] = IF episode \subseteq events /\ run[p].plan \ {episode} # {}
                   THEN [run[p] EXCEPT !.plan = run[p].plan \ {episode}] ELSE Idle
      /\ run[p] \in [plan : SUBSET ((SUBSET Events) \ {{}}), missed : SUBSET Groups]
  BY <1>1 DEF IInv, TypeOK
<1>6. /\ \A r \in Segmenters :
            run'[r].plan \subseteq run[r].plan /\ run'[r].missed \subseteq run[r].missed
      /\ \A r \in Segmenters : run'[r].plan # {} => run'[r].missed = run[r].missed /\ Underway(r)
      /\ \A r \in Segmenters : run'[r].plan # {} => run[r].plan \ {episode} \subseteq run'[r].plan
      /\ run'[p].plan # {} => episode \notin run'[p].plan /\ episode \subseteq events
  BY <1>2, <1>5 DEF Idle, Underway
<1>7. TypeOK'
  <2>1. run'[p] \in [plan : SUBSET ((SUBSET Events) \ {{}}), missed : SUBSET Groups]
    BY <1>5 DEF Idle
  <2>2. run' \in [Segmenters -> [plan : SUBSET ((SUBSET Events) \ {{}}), missed : SUBSET Groups]]
    BY <1>1, <1>5, <2>1 DEF IInv, TypeOK
  <2>3. episodes' \subseteq (SUBSET events') \ {{}}
    BY <1>1, <1>4 DEF IInv, TypeOK, IsDraft
  <2>. QED BY <1>1, <2>2, <2>3 DEF IInv, TypeOK
<1>8. (DraftsOnly /\ KeptEvents /\ MissedIsLate /\ MissedTogether)'
  <2>1. DraftsOnly' /\ KeptEvents' /\ MissedIsLate'
    BY <1>1, <1>4, <1>6 DEF IInv, DraftsOnly, KeptEvents, MissedIsLate
  <2>2. MissedTogether'
    BY <1>1, <1>6 DEF IInv, MissedTogether, Underway
  <2>. QED BY <2>1, <2>2
<1>9. EpisodesApart'
  <2>. SUFFICES ASSUME NEW a \in episodes', NEW b \in episodes', GroupOf(a) \notin excused
                PROVE  Apart(a, b)
    BY <1>1 DEF EpisodesApart
  <2>1. CASE a \in episodes /\ b \in episodes
    BY <2>1 DEF IInv, EpisodesApart
  <2>2. CASE a = episode /\ b \in episodes
    BY <1>2, <2>2 DEF IInv, PlansApart
  <2>3. CASE a \in episodes /\ b = episode
    <3>1. IsDraft(a)
      BY <2>3 DEF IInv, DraftsOnly
    <3>2. CASE GroupOf(b) = GroupOf(a)
      BY <1>2, <2>3, <3>2 DEF IInv, PlansApart, Apart
    <3>. QED BY <1>4, <2>3, <3>1, <3>2, GroupsApart
  <2>. QED BY <1>1, <2>1, <2>2, <2>3 DEF Apart
<1>10. PlansApart'
  <2>. SUFFICES ASSUME NEW q \in Segmenters, NEW d \in run'[q].plan, GroupOf(d) \notin excused
                PROVE  /\ \A e \in episodes' : Apart(d, e)
                       /\ \A r \in Segmenters : \A other \in run'[r].plan : Apart(d, other)
    BY <1>1 DEF PlansApart
  <2>1. d \in run[q].plan
    BY <1>6
  <2>2. /\ \A e \in episodes : Apart(d, e)
        /\ \A r \in Segmenters : \A other \in run[r].plan : Apart(d, other)
    BY <2>1 DEF IInv, PlansApart
  <2>3. \A e \in episodes' : e \in episodes \/ e = episode
    BY <1>1
  <2>. QED BY <1>2, <1>6, <2>2, <2>3
\* If the episode is there already, or cannot be stored, nothing new is cut.
<1>11. CASE episodes' = episodes
  <2>1. \A h : (Left(h))' = Left(h) /\ (EpisodesOf(h))' = EpisodesOf(h)
    BY <1>1, <1>11 DEF Left, Pending, EpisodesOf
  <2>2. RunsInStep'
    <3>. SUFFICES ASSUME NEW r \in Segmenters, NEW h \in Groups, (Underway(r))', (Known(h))',
                         h \notin (run[r].missed \cup excused)'
                  PROVE  (InStep(r, h))'
      BY DEF RunsInStep
    <3>1. InStep(r, h)
      BY <1>1, <1>6 DEF IInv, RunsInStep, Underway, Known
    <3>2. \A e \in Cut[Left(h)] : e \notin episodes
      BY LeftParts DEF IInv
    <3>3. r = p => episode \in episodes
      BY <1>1, <1>6, <1>11 DEF Underway
    <3>4. \A e \in Cut[Left(h)] : e \in run[r].plan => e \in run'[r].plan
      BY <1>5, <1>6, <3>2, <3>3 DEF Underway
    <3>. QED BY <1>6, <1>11, <2>1, <3>1, <3>4 DEF InStep, NoTies
  <2>3. CutOnce'
    BY <1>1, <2>1 DEF IInv, CutOnce, Known
  <2>. QED BY <1>7, <1>8, <1>9, <1>10, <2>2, <2>3 DEF IInv
<1>12. CASE episodes' # episodes
  <2>1. /\ episodes' = episodes \cup {episode} /\ episode \notin episodes
        /\ episode \subseteq events
    BY <1>1, <1>12
  <2>2. ASSUME NEW h, h # g
        PROVE  (Left(h))' = Left(h) /\ (EpisodesOf(h))' = EpisodesOf(h)
    <3>1. \A e \in events : Group(e) = h => e \notin episode
      BY <1>3, <1>4, <2>2, GroupOfIs
    <3>. QED BY <1>1, <1>3, <2>1, <2>2, <3>1 DEF Left, Of, Whole, Pending, EpisodesOf
  <2>3. (Left(g))' = Left(g) \ episode /\ (EpisodesOf(g))' = EpisodesOf(g) \cup {episode}
    BY <1>1, <1>3, <2>1 DEF Left, Of, Whole, Pending, EpisodesOf
  <2>4. RunsInStep'
    <3>. SUFFICES ASSUME NEW r \in Segmenters, NEW h \in Groups, (Underway(r))', (Known(h))',
                         h \notin (run[r].missed \cup excused)'
                  PROVE  (InStep(r, h))'
      BY DEF RunsInStep
    <3>1. Underway(r) /\ Known(h) /\ h \notin run[r].missed \cup excused
      BY <1>1, <1>6 DEF Underway, Known
    <3>2. InStep(r, h)
      BY <3>1 DEF IInv, RunsInStep
    <3>3. CASE h # g
      <4>1. \A e \in Cut[Left(h)] : e # episode
        BY <1>3, <3>3, LeftParts DEF IInv
      <4>2. \A e \in Cut[Left(h)] : e \in run[r].plan => e \in run'[r].plan
        BY <1>6, <4>1 DEF Underway
      <4>. QED BY <1>6, <2>1, <2>2, <3>2, <3>3, <4>2 DEF InStep, NoTies
    <3>4. CASE h = g
      <4>1. g \notin run[p].missed
        BY <1>2, <3>1, <3>4 DEF IInv, MissedTogether, Underway
      <4>2. /\ Cut[Left(g)] = {episode} \cup Cut[Left(g) \ episode]
            /\ episode \notin Cut[Left(g) \ episode]
        BY <1>2, <1>3, <2>1, <3>1, <3>4, <4>1, StoresFirst
      <4>3. PICK cut : cut = Cut[Left(g) \ episode] /\ Cut[Left(g)] = {episode} \cup cut
                       /\ episode \notin cut /\ (Cut[Left(g)])' = cut
        BY <2>3, <4>2
      <4>4. \A e \in cut : e \in run[r].plan => e \in run'[r].plan
        BY <1>6, <4>3 DEF Underway
      <4>5. \A d \in run'[r].plan : d \in run[r].plan
        BY <1>6
      <4>. QED BY <2>1, <3>2, <3>4, <4>3, <4>4, <4>5 DEF InStep, NoTies
    <3>. QED BY <3>3, <3>4
  <2>5. CutOnce'
    <3>. SUFFICES ASSUME NEW h \in Groups, (Known(h))', h \notin (late \cup excused)'
                  PROVE  (EpisodesOf(h) \cup Cut[Left(h)] = Cut[Of(h, Whole(events))])'
      BY DEF CutOnce
    <3>1. Known(h) /\ h \notin late \cup excused
      BY <1>1 DEF Known
    <3>2. /\ EpisodesOf(h) \cup Cut[Left(h)] = Cut[Of(h, Whole(events))]
          /\ (Cut[Of(h, Whole(events))])' = Cut[Of(h, Whole(events))]
      BY <1>1, <3>1 DEF IInv, CutOnce, Of, Whole
    <3>3. CASE h # g
      BY <2>2, <3>2, <3>3
    <3>4. CASE h = g
      <4>1. g \notin run[p].missed
        BY <3>1, <3>4 DEF IInv, MissedIsLate
      <4>2. Cut[Left(g)] = {episode} \cup Cut[Left(g) \ episode]
        BY <1>2, <1>3, <2>1, <3>1, <3>4, <4>1, StoresFirst
      <4>. QED BY <2>3, <3>2, <3>4, <4>2
    <3>. QED BY <3>3, <3>4
  <2>. QED BY <1>7, <1>8, <1>9, <1>10, <2>4, <2>5 DEF IInv
<1>. QED BY <1>11, <1>12

-----------------------------------------------------------------------------
LEMMA ReadOK ==
  ASSUME IInv, NEW p \in Segmenters, Read(p)
  PROVE  IInv'
<1>1. PICK drafts : drafts = Drafts(Whole(Pending)) /\ Starts(p, drafts)
  BY DEF Read, Whole
<1>2. PICK kept \in Firsts(Limit, drafts) :
        /\ run' = [run EXCEPT ![p] = [plan |-> kept, missed |-> {}]]
        /\ run[p].plan = {}
        /\ UNCHANGED <<events, episodes, forgotten, mishaps, late>>
        /\ excused' = excused \cup Tied(drafts)
                              \cup UNION {run[r].missed : r \in Segmenters \ {p}}
  BY <1>1 DEF Starts
<1>3. kept \subseteq drafts /\ \A a \in kept, b \in drafts \ kept : Start(a) <= Start(b)
  BY FirstsKept
<1>4. ASSUME NEW d \in drafts
      PROVE  /\ IsDraft(d) /\ GroupOf(d) \in Groups /\ d \in Cut[Left(GroupOf(d))]
             /\ d \in (SUBSET Events) \ {{}} /\ d \subseteq events /\ Start(d) \in Nat
             /\ \A episode \in episodes : Apart(d, episode)
  <2>1. PICK g \in Groups : d \in Cut[Left(g)]
    BY <1>1 DEF Drafts, Left
  <2>2. /\ IsDraft(d) /\ GroupOf(d) = g /\ d \subseteq events
        /\ \A episode \in episodes : Apart(d, episode)
    BY <2>1, LeftParts DEF IInv
  <2>. QED BY <2>1, <2>2, GroupOfIs DEF IsDraft
<1>5. ASSUME NEW g \in Groups, NEW d \in Cut[Left(g)]
      PROVE  d \in drafts /\ GroupOf(d) = g
  BY <1>1, LeftParts DEF Drafts, Left, IInv
<1>6. /\ run'[p] = [plan |-> kept, missed |-> {}]
      /\ \A r \in Segmenters \ {p} : run'[r] = run[r] /\ run[r].missed \subseteq excused'
      /\ excused \subseteq excused'
  BY <1>2 DEF IInv, TypeOK
<1>7. Tied(drafts) \subseteq Groups /\ Tied(drafts) \subseteq excused'
  BY <1>2, <1>4 DEF Tied
<1>8. TypeOK'
  <2>1. kept \in SUBSET ((SUBSET Events) \ {{}})
    BY <1>3, <1>4
  <2>2. run' \in [Segmenters -> [plan : SUBSET ((SUBSET Events) \ {{}}), missed : SUBSET Groups]]
    BY <1>2, <2>1 DEF IInv, TypeOK
  <2>3. excused' \subseteq Groups
    BY <1>2, <1>7 DEF IInv, TypeOK
  <2>. QED BY <1>2, <2>2, <2>3 DEF IInv, TypeOK
<1>9. (DraftsOnly /\ KeptEvents /\ MissedIsLate /\ MissedTogether)'
  <2>1. DraftsOnly'
    BY <1>2, <1>3, <1>4, <1>6 DEF IInv, DraftsOnly
  <2>2. KeptEvents' /\ MissedIsLate'
    BY <1>2, <1>6 DEF IInv, KeptEvents, MissedIsLate
  <2>3. MissedTogether'
    BY <1>2, <1>6 DEF IInv, MissedTogether, Underway
  <2>. QED BY <2>1, <2>2, <2>3
<1>10. EpisodesApart'
  BY <1>2, <1>6 DEF IInv, EpisodesApart
\* A run that missed nothing of a group and the new one agree about it.
<1>11. ASSUME NEW r \in Segmenters \ {p}, NEW d \in kept, NEW other \in run[r].plan,
              GroupOf(d) \notin excused'
       PROVE  Apart(d, other) /\ Apart(other, d)
  <2>1. PICK g \in Groups : /\ g = GroupOf(d) /\ d \in Cut[Left(g)]
                            /\ IsDraft(d) /\ d \subseteq events
    BY <1>3, <1>4
  <2>2. IsDraft(other)
    BY DEF IInv, DraftsOnly
  <2>3. CASE GroupOf(other) # g
    BY <2>1, <2>2, <2>3, GroupsApart
  <2>4. CASE GroupOf(other) = g
    <3>1. Earliest(d) \in events /\ g[1] = Source[Earliest(d)]
      BY <2>1, GroupOfIs, GroupsAre DEF GroupOf
    <3>2. Known(g)
      BY <3>1 DEF IInv, KeptEvents, Known
    <3>3. InStep(r, g)
      BY <1>6, <1>11, <2>1, <3>2 DEF IInv, RunsInStep, Underway
    <3>4. other \in episodes \cup Cut[Left(g)]
      BY <2>4, <3>3 DEF InStep
    <3>5. Apart(d, other)
      BY <2>1, <3>4, LeftParts DEF IInv
    <3>. QED BY <3>5 DEF Apart
  <2>. QED BY <2>3, <2>4
<1>12. ASSUME NEW d \in kept, NEW other \in kept
       PROVE  Apart(d, other)
  <2>1. d \in drafts /\ other \in drafts
    BY <1>3
  <2>2. CASE GroupOf(d) = GroupOf(other)
    BY <1>4, <2>1, <2>2, LeftParts DEF IInv
  <2>. QED BY <1>4, <2>1, <2>2, GroupsApart
<1>13. PlansApart'
  <2>. SUFFICES ASSUME NEW q \in Segmenters, NEW d \in run'[q].plan, GroupOf(d) \notin excused'
                PROVE  /\ \A e \in episodes' : Apart(d, e)
                       /\ \A r \in Segmenters : \A other \in run'[r].plan : Apart(d, other)
    BY DEF PlansApart
  <2>1. CASE q = p
    <3>1. d \in kept /\ d \in drafts
      BY <1>3, <1>6, <2>1
    <3>. QED BY <1>2, <1>4, <1>6, <1>11, <1>12, <3>1
  <2>2. CASE q # p
    <3>1. d \in run[q].plan /\ GroupOf(d) \notin excused /\ IsDraft(d)
      BY <1>6, <2>2 DEF IInv, DraftsOnly
    <3>2. /\ \A e \in episodes' : Apart(d, e)
          /\ \A r \in Segmenters \ {p} : \A other \in run'[r].plan : Apart(d, other)
      BY <1>2, <1>6, <3>1 DEF IInv, PlansApart
    <3>3. ASSUME NEW other \in kept
          PROVE  Apart(d, other)
      <4>1. CASE GroupOf(other) = GroupOf(d)
        BY <1>11, <2>2, <3>1, <4>1
      <4>2. IsDraft(other)
        BY <1>3, <1>4
      <4>. QED BY <3>1, <4>1, <4>2, GroupsApart
    <3>. QED BY <1>6, <3>2, <3>3
  <2>. QED BY <2>1, <2>2
<1>14. \A h : (Left(h))' = Left(h) /\ (EpisodesOf(h))' = EpisodesOf(h)
             /\ (Of(h, Whole(events)))' = Of(h, Whole(events))
  BY <1>2 DEF Left, Of, Whole, Pending, EpisodesOf
<1>15. RunsInStep'
  <2>. SUFFICES ASSUME NEW r \in Segmenters, NEW h \in Groups, (Underway(r))', (Known(h))',
                       h \notin (run[r].missed \cup excused)'
                PROVE  (InStep(r, h))'
    BY DEF RunsInStep
  <2>1. CASE r # p
    <3>1. InStep(r, h)
      BY <1>2, <1>6, <2>1 DEF IInv, RunsInStep, Underway, Known
    <3>. QED BY <1>2, <1>6, <1>14, <2>1, <3>1 DEF InStep, NoTies
  <2>2. CASE r = p
    <3>1. ASSUME NEW d \in kept, GroupOf(d) = h
          PROVE  d \in Cut[Left(h)] /\ \A e \in Cut[Left(h)] : Start(e) < Start(d) => e \in kept
      <4>1. d \in Cut[Left(h)] /\ Start(d) \in Nat
        BY <1>3, <1>4, <3>1
      <4>2. ASSUME NEW e \in Cut[Left(h)], e \notin kept
            PROVE  Start(d) <= Start(e) /\ Start(e) \in Nat
        BY <1>3, <1>4, <1>5, <4>2
      <4>. QED BY <4>1, <4>2
    <3>2. ASSUME NEW a \in Cut[Left(h)], NEW b \in Cut[Left(h)], Start(a) = Start(b), a # b
          PROVE  FALSE
      <4>1. a \in drafts /\ b \in drafts /\ GroupOf(a) = h /\ GroupOf(b) = h
        BY <1>5
      <4>2. h \in Tied(drafts)
        BY <3>2, <4>1 DEF Tied
      <4>. QED BY <1>7, <4>2
    <3>. QED BY <1>2, <1>6, <1>14, <2>2, <3>1, <3>2 DEF InStep, NoTies
  <2>. QED BY <2>1, <2>2
<1>16. CutOnce'
  BY <1>2, <1>6, <1>14 DEF IInv, CutOnce, Known
<1>. QED BY <1>8, <1>9, <1>10, <1>13, <1>15, <1>16 DEF IInv

LEMMA StepOK == IInv /\ [Next]_vars => IInv'
<1>. SUFFICES ASSUME IInv, [Next]_vars
              PROVE  IInv'
  OBVIOUS
<1>1. CASE \E e \in Events : Arrive(e)
  BY <1>1, ArriveOK
<1>2. CASE \E p \in Segmenters : Read(p)
  BY <1>2, ReadOK
<1>3. CASE \E p \in Segmenters : PersistNext(p)
  BY <1>3, PersistOK
<1>4. CASE \E p \in Segmenters : Kill(p)
  BY <1>4, KillOK
<1>5. CASE \E s \in {Source[e] : e \in Events} : Forget(s)
  BY <1>5, ForgetOK
<1>6. CASE UNCHANGED vars
  <2>1. UNCHANGED <<events, episodes, forgotten, run, mishaps, late, excused>>
    BY <1>6 DEF vars
  <2>2. \A h : (Left(h))' = Left(h) /\ (EpisodesOf(h))' = EpisodesOf(h)
    BY <2>1 DEF Left, Pending, EpisodesOf
  <2>3. (TypeOK /\ DraftsOnly /\ KeptEvents /\ MissedIsLate /\ MissedTogether)'
    BY <2>1 DEF IInv, TypeOK, DraftsOnly, KeptEvents, MissedIsLate, MissedTogether,
       Underway
  <2>4. (EpisodesApart /\ PlansApart)'
    BY <2>1 DEF IInv, EpisodesApart, PlansApart
  <2>5. RunsInStep'
    BY <2>1, <2>2 DEF IInv, RunsInStep, InStep, NoTies, Underway, Known
  <2>6. CutOnce'
    BY <2>1, <2>2 DEF IInv, CutOnce, Known
  <2>. QED BY <2>3, <2>4, <2>5, <2>6 DEF IInv
<1>. QED BY <1>1, <1>2, <1>3, <1>4, <1>5, <1>6 DEF Next

LEMMA SpecIInv == Spec => []IInv
BY InitOK, StepOK, PTL DEF Spec

LEMMA IInvImplies == IInv => OneEpisodeEach /\ TextFits /\ SameAsOneRun
<1>. SUFFICES ASSUME IInv PROVE OneEpisodeEach /\ TextFits /\ SameAsOneRun
  OBVIOUS
<1>1. OneEpisodeEach
  BY DEF IInv, EpisodesApart, Apart, OneEpisodeEach
<1>2. TextFits
  BY DEF IInv, DraftsOnly, IsDraft, TextFits
<1>3. SameAsOneRun
  <2>. SUFFICES ASSUME NEW episode \in episodes, GroupOf(episode) \notin late \cup excused
                PROVE  episode \in Drafts(Whole(events))
    BY DEF SameAsOneRun, Whole
  <2>1. PICK g \in Groups : g = GroupOf(episode)
    BY GroupOfIs DEF IInv, DraftsOnly
  <2>2. Earliest(episode) \in events /\ Source[Earliest(episode)] = g[1]
    BY <2>1, GroupOfIs, GroupsAre DEF IInv, TypeOK, DraftsOnly, GroupOf
  <2>3. Known(g)
    BY <2>2 DEF IInv, KeptEvents, Known
  <2>4. episode \in Cut[Of(g, Whole(events))]
    BY <2>1, <2>3 DEF IInv, CutOnce, EpisodesOf
  <2>. QED BY <2>4 DEF Drafts
<1>. QED BY <1>1, <1>2, <1>3

(***************************************************************************)
(* The events, episodes and plans are typed in every reachable state, and  *)
(* every episode is a set of events that are there.                        *)
(***************************************************************************)
THEOREM TypeCorrect == Spec => []TypeOK
BY SpecIInv, PTL DEF IInv

-----------------------------------------------------------------------------
(***************************************************************************)
(* Episodes: what segment_events does to any set of events.                *)
(***************************************************************************)
LEMMA CutCovers ==
  ASSUME NEW S \in SUBSET Events
  PROVE  UNION Cut[S] = S
<1>. DEFINE Good == {T \in SUBSET Events : UNION Cut[T] = T}
<1>1. ASSUME NEW R \in SUBSET Events, \A T \in SUBSET R : T # R => T \in Good
      PROVE  R \in Good
  <2>1. CASE R = {}
    BY <2>1, CutStep
  <2>2. CASE R # {}
    <3>1. PICK first : /\ first \in (SUBSET R) \ {{}}
                       /\ Cut[R] = {first} \cup Cut[R \ first]
      BY <2>2, FirstDraftTakes, CutStep
    <3>2. R \ first \in SUBSET R /\ R \ first # R
      BY <3>1
    <3>3. R \ first \in Good
      <4>. HIDE DEF Good
      <4>. QED BY <1>1, <3>2
    <3>4. UNION Cut[R \ first] = R \ first
      BY <3>3
    <3>5. UNION Cut[R] = first \cup UNION Cut[R \ first]
      BY <3>1
    <3>. QED BY <3>1, <3>4, <3>5
  <2>. QED BY <2>1, <2>2
<1>2. Good \in SUBSET SUBSET Events
  OBVIOUS
<1>3. Good = SUBSET Events
  <2>. HIDE DEF Good
  <2>. QED BY <1>1, <1>2, EventsAssumption, SubsetInduction
<1>. QED BY <1>3

LEMMA UnbrokenIsBounded ==
  ASSUME NEW d \in SUBSET Events, d # {}, Unbroken(d)
  PROVE  /\ Cardinality(d) <= MaxEvents
         /\ \A e \in d \ {Earliest(d)} :
               \E a \in d : Earlier(a, e) /\ Time[e] <= Time[a] + MaxGap
<1>1. ASSUME NEW e \in d, e # Earliest(d)
      PROVE  \E a \in d : Earlier(a, e) /\ Time[e] <= Time[a] + MaxGap
  <2>1. PICK before : before = {a \in d : Earlier(a, e)} /\ ~Boundary(before, e)
    BY <1>1 DEF Unbroken
  <2>2. Earliest(d) \in before
    BY <1>1, <2>1, EarliestIs
  <2>3. PICK a \in before : a = Latest(before)
    BY <2>1, <2>2, LatestIs
  <2>4. Time[a] \in Nat /\ Time[e] \in Nat /\ MaxGap \in Nat
    BY <2>1, <2>3, TextAssumption, ConfigAssumption
  <2>5. Time[e] <= Time[a] + MaxGap
    BY <2>1, <2>3, <2>4 DEF Boundary
  <2>. QED BY <2>1, <2>3, <2>5
<1>2. Cardinality(d) <= MaxEvents
  <2>1. PICK e \in d : e = Latest(d) /\ \A other \in d \ {e} : Earlier(other, e)
    BY LatestIs
  <2>2. PICK before \in SUBSET Events : before = d \ {e}
    OBVIOUS
  <2>3. /\ Cardinality(before) = Cardinality(d) - 1
        /\ Cardinality(d) \in Nat /\ Cardinality(before) \in Nat
        /\ MaxEvents \in Nat /\ MaxEvents >= 1
    BY <2>2, EventsFinite, FS_RemoveElement, ConfigAssumption
  <2>4. CASE before = {}
    <3>1. Cardinality(before) = 0
      BY <2>4, FS_EmptySet
    <3>. QED BY <2>3, <3>1
  <2>5. CASE before # {}
    <3>1. e # Earliest(d)
      BY <2>1, <2>2, <2>5, EarliestIs, EarlierOrders
    <3>2. before = {a \in d : Earlier(a, e)}
      BY <2>1, <2>2, EarlierOrders
    <3>3. ~Boundary(before, e)
      BY <3>1, <3>2 DEF Unbroken
    <3>4. Cardinality(before) < MaxEvents
      BY <2>3, <3>3 DEF Boundary
    <3>. QED BY <2>3, <3>4
  <2>. QED BY <2>4, <2>5
<1>. QED BY <1>1, <1>2

\* d has every event of S between two of its own, and where it ends there is
\* a boundary in front of the next event.
Beyond(d, e) == \A a \in d : Earlier(a, e)

LongestRun(d, S) ==
    /\ \A e \in S \ d : Beyond(d, e) \/ \A a \in d : Earlier(e, a)
    /\ \A e \in S :
          Beyond(d, e) /\ (\A b \in S : Beyond(d, b) => b = e \/ Earlier(e, b))
             => Boundary(d, e)

\* The first draft and the event that follows it would be a longer one.
LEMMA FirstDraftIsLongest ==
  ASSUME NEW S \in SUBSET Events, S # {}
  PROVE  LongestRun(FirstDraft(S), S)
<1>1. PICK first : /\ first = FirstDraft(S) /\ first \in (SUBSET S) \ {{}}
                   /\ Unbroken(first)
                   /\ \A a \in first, b \in S \ first : Earlier(a, b)
  BY FirstDraftTakes
<1>2. ASSUME NEW e \in S, Beyond(first, e),
             \A b \in S : Beyond(first, b) => b = e \/ Earlier(e, b),
             ~Boundary(first, e)
      PROVE  FALSE
  <2>1. e \in S \ first
    BY <1>2, EarlierOrders DEF Beyond
  <2>2. \A b \in S \ first : b = e \/ Earlier(e, b)
    BY <1>1, <1>2 DEF Beyond
  <2>3. PICK longer \in SUBSET Events : longer = first \cup {e}
    BY <1>1
  <2>4. longer = UpTo(e, S)
    BY <1>1, <2>1, <2>2, <2>3, EarlierOrders DEF UpTo
  <2>5. Earliest(longer) = Earliest(first)
    <3>1. Earliest(first) \in first
          /\ \A other \in first \ {Earliest(first)} : Earlier(Earliest(first), other)
      BY <1>1, EarliestIs
    <3>2. Earliest(longer) \in longer
          /\ \A other \in longer \ {Earliest(longer)} : Earlier(Earliest(longer), other)
      BY <2>3, EarliestIs
    <3>3. Earlier(Earliest(first), e)
      BY <1>1, <2>1, <3>1
    <3>. QED BY <1>1, <2>3, <3>1, <3>2, <3>3, EarlierOrders
  <2>6. ASSUME NEW b \in longer, b # Earliest(longer)
        PROVE  ~Boundary({a \in longer : Earlier(a, b)}, b)
    <3>1. CASE b = e
      <4>1. {a \in longer : Earlier(a, b)} = first
        BY <1>1, <2>1, <2>3, <3>1, EarlierOrders
      <4>. QED BY <1>2, <3>1, <4>1
    <3>2. CASE b # e
      <4>1. b \in first \ {Earliest(first)} /\ Earlier(b, e)
        BY <1>1, <2>1, <2>3, <2>5, <2>6, <3>2
      <4>2. {a \in longer : Earlier(a, b)} = {a \in first : Earlier(a, b)}
        BY <1>1, <2>1, <2>3, <4>1, EarlierOrders
      <4>. QED BY <1>1, <4>1, <4>2 DEF Unbroken
    <3>. QED BY <3>1, <3>2
  <2>7. longer \in Leading(S) /\ Unbroken(longer)
    BY <2>1, <2>4, <2>6 DEF Leading, UpTo, Unbroken
  <2>8. e \in FirstDraft(S)
    BY <2>3, <2>7 DEF FirstDraft
  <2>. QED BY <1>1, <2>1, <2>8
<1>3. \A e \in S \ first : Beyond(first, e)
  BY <1>1 DEF Beyond
<1>. QED BY <1>1, <1>2, <1>3 DEF LongestRun

LEMMA CutIsLongest ==
  ASSUME NEW S \in SUBSET Events
  PROVE  \A d \in Cut[S] : LongestRun(d, S)
<1>. DEFINE Good == {T \in SUBSET Events : \A d \in Cut[T] : LongestRun(d, T)}
<1>1. ASSUME NEW R \in SUBSET Events, \A T \in SUBSET R : T # R => T \in Good
      PROVE  R \in Good
  <2>1. ASSUME NEW d \in Cut[R]
        PROVE  LongestRun(d, R)
    <3>1. PICK first : /\ first = FirstDraft(R) /\ first \in (SUBSET R) \ {{}}
                       /\ \A a \in first, b \in R \ first : Earlier(a, b)
                       /\ Cut[R] = {first} \cup Cut[R \ first]
      BY <2>1, FirstDraftTakes, CutStep
    <3>2. CASE d = first
      BY <3>1, <3>2, FirstDraftIsLongest
    <3>3. CASE d \in Cut[R \ first]
      <4>1. R \ first \in SUBSET R /\ R \ first # R
        BY <3>1
      <4>2. R \ first \in Good
        <5>. HIDE DEF Good
        <5>. QED BY <1>1, <4>1
      <4>3. LongestRun(d, R \ first)
        BY <3>3, <4>2
      <4>4. d \in (SUBSET (R \ first)) \ {{}}
        BY <3>3, CutParts
      <4>5. \A e \in first : \A a \in d : Earlier(e, a)
        BY <3>1, <4>4
      <4>6. \A e \in R : Beyond(d, e) => e \in R \ first
        BY <4>4, <4>5, EarlierOrders DEF Beyond
      <4>7. \A e \in R \ d : Beyond(d, e) \/ \A a \in d : Earlier(e, a)
        BY <4>3, <4>5 DEF LongestRun
      <4>8. ASSUME NEW e \in R, Beyond(d, e),
                   \A b \in R : Beyond(d, b) => b = e \/ Earlier(e, b)
            PROVE  Boundary(d, e)
        <5>1. e \in R \ first
          BY <4>6, <4>8
        <5>2. \A b \in R \ first : Beyond(d, b) => b = e \/ Earlier(e, b)
          BY <4>8
        <5>. QED BY <4>3, <4>8, <5>1, <5>2 DEF LongestRun
      <4>. QED BY <4>7, <4>8 DEF LongestRun
    <3>. QED BY <2>1, <3>1, <3>2, <3>3
  <2>. QED BY <2>1
<1>2. Good \in SUBSET SUBSET Events
  OBVIOUS
<1>3. Good = SUBSET Events
  <2>. HIDE DEF Good
  <2>. QED BY <1>1, <1>2, EventsAssumption, SubsetInduction
<1>. QED BY <1>3

(***************************************************************************)
(* Whatever events there are, none of them too large for an episode: each  *)
(* is in one draft and in one only, and every draft is of one group, its   *)
(* joined text and its number of events are within the bounds, and nowhere *)
(* in it is there a larger gap than permitted.  Between two events of a    *)
(* draft no event of the group is left out, and a draft ends only where    *)
(* _boundary_reason finds a reason to (segment_events).                    *)
(***************************************************************************)
THEOREM DraftsPartitionTheEvents ==
  ASSUME NEW S \in SUBSET Events, \A e \in S : ~Oversized(e)
  PROVE  /\ UNION Drafts(S) = S
         /\ \A a, b \in Drafts(S) : a = b \/ a \cap b = {}
         /\ \A d \in Drafts(S) :
               /\ d # {}
               /\ \A a, b \in d : Group(a) = Group(b)
               /\ TextLength(d) <= MaxChars
               /\ Cardinality(d) <= MaxEvents
               /\ \A e \in d \ {Earliest(d)} :
                     \E a \in d : Earlier(a, e) /\ Time[e] <= Time[a] + MaxGap
               /\ LongestRun(d, Of(GroupOf(d), S))
<1>1. ASSUME NEW g
      PROVE  /\ Of(g, S) \in SUBSET Events /\ UNION Cut[Of(g, S)] = Of(g, S)
             /\ \A d \in Cut[Of(g, S)] : IsDraft(d) /\ GroupOf(d) = g /\ Unbroken(d)
             /\ \A a, b \in Cut[Of(g, S)] : Apart(a, b)
             /\ \A d \in Cut[Of(g, S)] : LongestRun(d, Of(g, S))
  <2>1. Of(g, S) \in SUBSET Events
    BY DEF Of
  <2>. QED BY <2>1, CutCovers, CutGivesDrafts, CutParts, CutIsLongest
<1>2. UNION Drafts(S) = S
  <2>1. ASSUME NEW d \in Drafts(S)
        PROVE  d \subseteq S
    <3>1. PICK g \in Groups : d \in Cut[Of(g, S)]
      BY DEF Drafts
    <3>2. d \subseteq Of(g, S)
      BY <1>1, <3>1
    <3>. QED BY <3>2 DEF Of
  <2>2. ASSUME NEW e \in S
        PROVE  \E d \in Drafts(S) : e \in d
    <3>1. PICK g \in Groups : e \in Of(g, S)
      BY GroupsAre DEF Of
    <3>2. PICK d \in Cut[Of(g, S)] : e \in d
      BY <1>1, <3>1
    <3>. QED BY <3>2 DEF Drafts
  <2>. QED BY <2>1, <2>2
<1>3. ASSUME NEW a \in Drafts(S), NEW b \in Drafts(S)
      PROVE  a = b \/ a \cap b = {}
  <2>1. PICK g \in Groups : a \in Cut[Of(g, S)]
    BY DEF Drafts
  <2>2. PICK h \in Groups : b \in Cut[Of(h, S)]
    BY DEF Drafts
  <2>3. Apart(a, b)
    BY <1>1, <2>1, <2>2, GroupsApart
  <2>. QED BY <2>3 DEF Apart
<1>4. ASSUME NEW d \in Drafts(S)
      PROVE  /\ IsDraft(d) /\ Unbroken(d) /\ d \in SUBSET Events /\ d # {}
             /\ LongestRun(d, Of(GroupOf(d), S))
  <2>1. PICK g \in Groups : d \in Cut[Of(g, S)]
    BY DEF Drafts
  <2>2. IsDraft(d) /\ Unbroken(d) /\ LongestRun(d, Of(GroupOf(d), S))
    BY <1>1, <2>1
  <2>. QED BY <2>2 DEF IsDraft
<1>5. ASSUME NEW d \in Drafts(S)
      PROVE  /\ d # {} /\ \A a, b \in d : Group(a) = Group(b)
             /\ TextLength(d) <= MaxChars /\ Cardinality(d) <= MaxEvents
             /\ \A e \in d \ {Earliest(d)} :
                   \E a \in d : Earlier(a, e) /\ Time[e] <= Time[a] + MaxGap
             /\ LongestRun(d, Of(GroupOf(d), S))
  BY <1>4, UnbrokenIsBounded DEF IsDraft
<1>. QED BY <1>2, <1>3, <1>5

(***************************************************************************)
(* An event is in one episode, whatever is killed, deferred or forgotten   *)
(* and however many runs overlap, unless an event of its group arrived     *)
(* between the reads of two that do or two of its episodes start together  *)
(* (segment_pending_events, create_episode).                               *)
(***************************************************************************)
THEOREM NoEventInTwoEpisodes == Spec => []OneEpisodeEach
<1>1. IInv => OneEpisodeEach
  BY IInvImplies
<1>. QED BY <1>1, SpecIInv, PTL

(***************************************************************************)
(* The text of every episode stored, with the blank lines between its      *)
(* events, is within max_chars (_boundary_reason).                         *)
(***************************************************************************)
THEOREM EveryEpisodeFits == Spec => []TextFits
<1>1. IInv => TextFits
  BY IInvImplies
<1>. QED BY <1>1, SpecIInv, PTL

(***************************************************************************)
(* Of a group none of whose events came late, the episodes stored are      *)
(* among those that one undisturbed run over all events there are would    *)
(* have stored: where an episode ends does not depend on --limit, on runs  *)
(* killed, or on a second run (segment_pending_events).                    *)
(***************************************************************************)
THEOREM EpisodesEndWhereOneRunEndsThem == Spec => []SameAsOneRun
<1>1. IInv => SameAsOneRun
  BY IInvImplies
<1>. QED BY <1>1, SpecIInv, PTL


-----------------------------------------------------------------------------
(***************************************************************************)
(* Calls: the inductive invariant.  The row of one under way is open, what *)
(* it led to is known from the place the program is at, and every other    *)
(* row tells what was stored.                                              *)
(***************************************************************************)
RowOK(call) ==
    /\ call.status = "completed" => call.stored = "all"
    /\ call.status = "quarantined" => call.stored = "none"

OnItsWay ==
    /\ pc = "leased" => Current < MaxCalls
    /\ pc \in OnCall \cup {"completing"} => Current > 0
    /\ pc \in OnCall => calls[Current].status = "prepared"
    /\ pc \in {"calling", "reading", "persisting"} => calls[Current].stored = "none"
    /\ pc = "finishing" => calls[Current].stored = "all"
    /\ pc = "settling" =>
          /\ verdict \in {"quarantined", "failed"}
          /\ verdict = "quarantined" => calls[Current].stored = "none"

Explained(i) ==
    calls[i].status = "prepared" => calls[i].lost \/ (i = Current /\ pc \in OnCall)

CallsIInv ==
    /\ CallsTypeOK
    /\ OnItsWay
    /\ \A i \in DOMAIN calls : RowOK(calls[i]) /\ Explained(i)

-----------------------------------------------------------------------------
LEMMA SeqOfIsSeq ==
  ASSUME NEW S, NEW n \in Nat, NEW s \in SeqOf(S, n)
  PROVE  s \in Seq(S)
BY DEF SeqOf

\* The steps that change no row, and neither open nor leave a call.
LEMMA RowsKept ==
  ASSUME CallsIInv, CallsTypeOK', OnItsWay', calls' = calls,
         pc \in OnCall => pc' \in OnCall
  PROVE  CallsIInv'
<1>1. \A i \in DOMAIN calls : RowOK(calls'[i]) /\ (Explained(i))'
  BY DEF CallsIInv, Explained, Current
<1>. QED BY <1>1 DEF CallsIInv

\* The steps that change the row of the call under way.
LEMMA CurrentChanged ==
  ASSUME CallsIInv, NEW call \in Call, Current > 0, RowOK(call),
         calls' = [calls EXCEPT ![Current] = call],
         call.status = "prepared" => call.lost \/ pc' \in OnCall
  PROVE  /\ calls' \in Seq(Call) /\ Len(calls') = Len(calls)
         /\ DOMAIN calls' = DOMAIN calls
         /\ calls'[Current] = call
         /\ \A i \in DOMAIN calls' : RowOK(calls'[i]) /\ (Explained(i))'
<1>1. calls \in Seq(Call) /\ Current \in DOMAIN calls /\ Current \in Nat
  BY DEF CallsIInv, CallsTypeOK, Current
<1>2. /\ calls' \in Seq(Call) /\ Len(calls') = Len(calls)
      /\ DOMAIN calls' = DOMAIN calls /\ calls'[Current] = call
  BY <1>1
<1>3. ASSUME NEW i \in DOMAIN calls', i # Current
      PROVE  RowOK(calls'[i]) /\ (Explained(i))'
  BY <1>1, <1>2, <1>3 DEF CallsIInv, Explained, Current
<1>4. RowOK(calls'[Current]) /\ (calls'[Current].status = "prepared" =>
                                   calls'[Current].lost \/ pc' \in OnCall)
  BY <1>2
<1>. QED BY <1>2, <1>3, <1>4 DEF Explained, Current

\* A new row.
LEMMA PreparedOK ==
  ASSUME CallsIInv, pc = "leased", calls' = Prepared, pc' \in OnCall
  PROVE  /\ calls' \in Seq(Call) /\ Len(calls') = Current + 1 /\ Len(calls') <= MaxCalls
         /\ calls'[Current + 1].status = "prepared"
         /\ calls'[Current + 1].stored = "none"
         /\ \A i \in DOMAIN calls' : RowOK(calls'[i]) /\ (Explained(i))'
<1>. DEFINE call == [status |-> "prepared", stored |-> "none", lost |-> FALSE]
<1>1. call \in Call /\ RowOK(call)
  BY DEF Call, Statuses, RowOK
<1>2. /\ calls \in Seq(Call) /\ Current < MaxCalls
      /\ Current \in Nat /\ MaxCalls \in Nat
  BY BoundsAssumption DEF CallsIInv, CallsTypeOK, OnItsWay, Current
<1>3. calls' = Append(calls, call)
  BY DEF Prepared
<1>4. call.status = "prepared" /\ call.stored = "none"
  OBVIOUS
<1>. HIDE DEF call
<1>5. /\ calls' \in Seq(Call) /\ Len(calls') = Current + 1
      /\ calls'[Current + 1] = call
      /\ \A i \in DOMAIN calls : calls'[i] = calls[i]
      /\ DOMAIN calls' = DOMAIN calls \cup {Current + 1}
  BY <1>1, <1>2, <1>3 DEF Current
<1>6. ASSUME NEW i \in DOMAIN calls
      PROVE  RowOK(calls'[i]) /\ (Explained(i))'
  <2>1. RowOK(calls[i]) /\ Explained(i) /\ calls'[i] = calls[i]
    BY <1>5 DEF CallsIInv
  <2>. QED BY <2>1 DEF Explained, OnCall
<1>7. ASSUME NEW i \in DOMAIN calls', i = Current + 1
      PROVE  RowOK(calls'[i]) /\ (Explained(i))'
  <2>1. RowOK(calls'[i])
    BY <1>1, <1>5, <1>7
  <2>2. (Current)' = Current + 1
    BY <1>5 DEF Current
  <2>. QED BY <1>7, <2>1, <2>2 DEF Explained
<1>8. \A i \in DOMAIN calls' : RowOK(calls'[i]) /\ (Explained(i))'
  BY <1>5, <1>6, <1>7
<1>9. Len(calls') <= MaxCalls
  BY <1>2, <1>5
<1>. QED BY <1>4, <1>5, <1>8, <1>9

LEMMA KillCallOK ==
  ASSUME CallsIInv, Die
  PROVE  CallsIInv'
<1>1. PICK stored \in {"none", "some"} :
        calls' = [i \in DOMAIN calls |->
            IF i # Current \/ pc \notin OnCall THEN calls[i]
            ELSE [calls[i] EXCEPT !.lost = TRUE,
                                  !.stored = IF pc = "persisting" THEN stored ELSE @]]
  BY DEF Die
<1>2. calls \in Seq(Call) /\ Len(calls) <= MaxCalls
  BY DEF CallsIInv, CallsTypeOK
<1>3. ASSUME NEW i \in DOMAIN calls
      PROVE  /\ calls'[i] \in Call /\ RowOK(calls'[i])
             /\ calls'[i].status = "prepared" => calls'[i].lost
  <2>1. calls[i] \in Call /\ RowOK(calls[i]) /\ Explained(i)
    BY <1>2 DEF CallsIInv
  <2>2. CASE i # Current \/ pc \notin OnCall
    BY <1>1, <2>1, <2>2 DEF Explained
  <2>3. CASE i = Current /\ pc \in OnCall
    <3>1. calls[i].status = "prepared"
      BY <2>3 DEF CallsIInv, OnItsWay
    <3>2. calls'[i] = [calls[i] EXCEPT !.lost = TRUE,
                                       !.stored = IF pc = "persisting" THEN stored ELSE @]
      BY <1>1, <2>3
    <3>. QED BY <2>1, <3>1, <3>2 DEF Call, RowOK
  <2>. QED BY <2>2, <2>3
<1>4. calls' \in Seq(Call) /\ Len(calls') = Len(calls) /\ DOMAIN calls' = DOMAIN calls
  <2>1. Len(calls) \in Nat /\ DOMAIN calls = 1 .. Len(calls)
    BY <1>2
  <2>2. calls' \in [1 .. Len(calls) -> Call]
    BY <1>1, <1>3, <2>1
  <2>. QED BY <2>1, <2>2
<1>5. pc' = "idle" /\ stdout' = <<>> /\ verdict' = "prepared" /\ faults' \in 0 .. MaxFaults
  <2>1. pc' = "idle" /\ stdout' = <<>> /\ verdict' = "prepared"
    BY DEF Die, Ends, Goes
  <2>2. faults < MaxFaults /\ faults' = faults + 1 /\ faults \in 0 .. MaxFaults
    BY DEF Die, CallsIInv, CallsTypeOK
  <2>3. MaxFaults \in Nat
    BY BoundsAssumption
  <2>. QED BY <2>1, <2>2, <2>3
<1>6. CallsTypeOK'
  BY <1>2, <1>4, <1>5 DEF CallsTypeOK, Statuses
<1>7. OnItsWay'
  BY <1>5 DEF OnItsWay, OnCall
<1>8. \A i \in DOMAIN calls' : (Explained(i))'
  BY <1>3, <1>4 DEF Explained
<1>. QED BY <1>3, <1>4, <1>6, <1>7, <1>8 DEF CallsIInv

-----------------------------------------------------------------------------
(***************************************************************************)
(* Calls: the steps in their order.                                        *)
(***************************************************************************)
LEMMA LeaseOK ==
  ASSUME CallsIInv, Lease \/ GiveUpEarly
  PROVE  CallsIInv'
<1>1. CallsTypeOK' /\ OnItsWay' /\ calls' = calls /\ pc \notin OnCall
  BY DEF CallsIInv, CallsTypeOK, OnItsWay, Lease, GiveUpEarly, At, Goes, Current, OnCall
<1>. QED BY <1>1, RowsKept

LEMMA OpenOK ==
  ASSUME CallsIInv, Refuse \/ Prepare
  PROVE  CallsIInv'
<1>1. pc = "leased" /\ calls' = Prepared /\ pc' \in OnCall
  BY DEF Refuse, Prepare, At, Goes, OnCall
<1>2. /\ calls' \in Seq(Call) /\ Len(calls') = Current + 1
      /\ Len(calls') <= MaxCalls
      /\ calls'[Current + 1].status = "prepared"
      /\ calls'[Current + 1].stored = "none"
      /\ \A i \in DOMAIN calls' : RowOK(calls'[i]) /\ (Explained(i))'
  BY <1>1, PreparedOK
<1>3. CallsTypeOK'
  BY <1>1, <1>2 DEF CallsIInv, CallsTypeOK, Refuse, Prepare, Statuses
<1>4. Current \in Nat /\ (Current)' = Current + 1
  BY <1>2 DEF Current, CallsIInv, CallsTypeOK
<1>5. pc' = "calling" \/ (pc' = "settling" /\ verdict' = "quarantined")
  BY DEF Refuse, Prepare, Goes
<1>6. OnItsWay'
  BY <1>2, <1>4, <1>5 DEF OnItsWay, OnCall
<1>. QED BY <1>2, <1>3, <1>6 DEF CallsIInv

LEMMA CallOK ==
  ASSUME CallsIInv, Answers \/ Breaks \/ TimesOut \/ Accept \/ Reject
  PROVE  CallsIInv'
<1>1. calls' = calls /\ faults' = faults /\ pc \in {"calling", "reading"}
  BY DEF Answers, Breaks, TimesOut, Accept, Reject, At
<1>2. /\ pc' \in {"reading", "persisting", "settling"}
      /\ verdict' \in Statuses
      /\ pc' = "settling" => verdict' \in {"quarantined", "failed"}
  BY DEF Answers, Breaks, TimesOut, Accept, Reject, Goes, Statuses, CallsIInv,
     CallsTypeOK
<1>3. stdout' \in Seq(Lines)
  <2>1. CASE Answers
    BY <2>1, SeqOfIsSeq, BoundsAssumption DEF Answers
  <2>2. CASE Breaks \/ TimesOut \/ Accept \/ Reject
    BY <2>2 DEF Breaks, TimesOut, Accept, Reject, CallsIInv, CallsTypeOK
  <2>. QED BY <2>1, <2>2
<1>4. CallsTypeOK'
  BY <1>1, <1>2, <1>3 DEF CallsIInv, CallsTypeOK, OnCall
<1>5. OnItsWay'
  BY <1>1, <1>2 DEF CallsIInv, OnItsWay, OnCall, Current
<1>. QED BY <1>1, <1>2, <1>4, <1>5, RowsKept DEF OnCall

LEMMA PersistCallOK ==
  ASSUME CallsIInv, Persist \/ PersistFails
  PROVE  CallsIInv'
<1>1. /\ pc = "persisting" /\ Current > 0
      /\ calls[Current] \in Call /\ calls[Current].status = "prepared"
      /\ calls \in Seq(Call) /\ Current \in DOMAIN calls
  BY DEF Persist, PersistFails, At, CallsIInv, CallsTypeOK, OnItsWay, OnCall, Current
<1>2. PICK stored \in {"none", "some", "all"} :
        /\ calls' = [calls EXCEPT ![Current].stored = stored]
        /\ pc' = "finishing" => stored = "all"
  BY DEF Persist, PersistFails, Goes
<1>. DEFINE call == [calls[Current] EXCEPT !.stored = stored]
<1>3. call \in Call /\ RowOK(call) /\ call.status = "prepared" /\ call.stored = stored
  BY <1>1 DEF Call, RowOK
<1>4. calls' = [calls EXCEPT ![Current] = call]
  BY <1>2
<1>5. /\ pc' \in {"finishing", "settling"} /\ verdict' \in Statuses
      /\ pc' = "settling" => verdict' = "failed"
      /\ stdout' = stdout /\ faults' = faults
  BY DEF Persist, PersistFails, Goes, CallsIInv, CallsTypeOK, Statuses
<1>. HIDE DEF call
<1>6. pc' \in OnCall
  BY <1>5 DEF OnCall
<1>7. /\ calls' \in Seq(Call) /\ Len(calls') = Len(calls)
      /\ DOMAIN calls' = DOMAIN calls
      /\ calls'[Current] = call
      /\ \A i \in DOMAIN calls' : RowOK(calls'[i]) /\ (Explained(i))'
  BY <1>1, <1>3, <1>4, <1>6, CurrentChanged
<1>8. CallsTypeOK'
  BY <1>5, <1>6, <1>7 DEF CallsIInv, CallsTypeOK
<1>9. (Current)' = Current
  BY <1>7 DEF Current
<1>10. OnItsWay'
  BY <1>1, <1>2, <1>3, <1>5, <1>7, <1>9 DEF OnItsWay, OnCall
<1>. QED BY <1>7, <1>8, <1>10 DEF CallsIInv

LEMMA FinishOK ==
  ASSUME CallsIInv, Finish \/ Settle \/ SettleFails
  PROVE  CallsIInv'
<1>1. /\ pc \in {"finishing", "settling"} /\ Current > 0
      /\ calls[Current] \in Call /\ RowOK(calls[Current])
      /\ calls[Current].status = "prepared"
      /\ calls \in Seq(Call) /\ Current \in DOMAIN calls
  BY DEF Finish, Settle, SettleFails, At, CallsIInv, CallsTypeOK, OnItsWay, OnCall,
     Current
<1>2. PICK call \in Call :
        /\ calls' = [calls EXCEPT ![Current] = call]
        /\ RowOK(call)
        /\ call.status = "prepared" => call.lost
  <2>1. CASE Finish
    <3>. DEFINE call == [calls[Current] EXCEPT !.status = "completed"]
    <3>1. calls[Current].stored = "all"
      BY <2>1 DEF Finish, At, CallsIInv, OnItsWay
    <3>2. call \in Call /\ RowOK(call) /\ call.status = "completed"
      BY <1>1, <3>1 DEF Call, RowOK, Statuses
    <3>3. calls' = [calls EXCEPT ![Current] = call]
      BY <2>1 DEF Finish
    <3>. QED BY <3>2, <3>3
  <2>2. CASE Settle
    <3>. DEFINE call == [calls[Current] EXCEPT !.status = verdict]
    <3>1. /\ verdict \in {"quarantined", "failed"}
          /\ verdict = "quarantined" => calls[Current].stored = "none"
      BY <2>2 DEF Settle, At, CallsIInv, OnItsWay
    <3>2. call \in Call /\ RowOK(call) /\ call.status # "prepared"
      BY <1>1, <3>1 DEF Call, RowOK, Statuses
    <3>3. calls' = [calls EXCEPT ![Current] = call]
      BY <2>2 DEF Settle
    <3>. QED BY <3>2, <3>3
  <2>3. CASE SettleFails
    <3>. DEFINE call == [calls[Current] EXCEPT !.lost = TRUE]
    <3>1. call \in Call
      BY <1>1 DEF Call
    <3>2. RowOK(call) /\ call.lost
      BY <1>1 DEF Call, RowOK
    <3>3. calls' = [calls EXCEPT ![Current] = call]
      BY <2>3 DEF SettleFails
    <3>. QED BY <3>1, <3>2, <3>3
  <2>. QED BY <2>1, <2>2, <2>3
<1>3. /\ pc' \in {"completing", "failing"} /\ stdout' = stdout /\ verdict' = verdict
      /\ faults' \in 0 .. MaxFaults
  BY BoundsAssumption DEF Finish, Settle, SettleFails, Goes, CallsIInv, CallsTypeOK
<1>4. /\ calls' \in Seq(Call) /\ Len(calls') = Len(calls)
      /\ \A i \in DOMAIN calls' : RowOK(calls'[i]) /\ (Explained(i))'
  BY <1>1, <1>2, CurrentChanged
<1>5. CallsTypeOK'
  BY <1>3, <1>4 DEF CallsIInv, CallsTypeOK
<1>6. OnItsWay'
  BY <1>1, <1>3, <1>4 DEF OnItsWay, OnCall, Current
<1>. QED BY <1>4, <1>5, <1>6 DEF CallsIInv

LEMMA FinishFailsOK ==
  ASSUME CallsIInv, FinishFails
  PROVE  CallsIInv'
<1>1. calls' = calls /\ pc = "finishing" /\ pc' = "settling" /\ verdict' = "failed"
  BY DEF FinishFails, At, Goes
<1>2. CallsTypeOK'
  BY <1>1, BoundsAssumption DEF FinishFails, CallsIInv, CallsTypeOK, OnCall, Statuses
<1>3. OnItsWay'
  BY <1>1 DEF CallsIInv, OnItsWay, OnCall, Current
<1>. QED BY <1>1, <1>2, <1>3, RowsKept DEF OnCall

LEMMA EndOK ==
  ASSUME CallsIInv, Complete \/ CompleteFails \/ FailJob
  PROVE  CallsIInv'
<1>1. /\ calls' = calls /\ faults' = faults
      /\ pc \notin OnCall /\ pc' \in {"idle", "failing"}
  BY DEF Complete, CompleteFails, FailJob, Ends, At, Goes, OnCall
<1>2. stdout' \in Seq(Lines) /\ verdict' \in Statuses
  <2>1. (stdout' = <<>> /\ verdict' = "prepared") \/ (stdout' = stdout /\ verdict' = verdict)
    BY DEF Complete, CompleteFails, FailJob, Ends
  <2>2. /\ stdout \in Seq(Lines)
        /\ verdict \in Statuses /\ "prepared" \in Statuses
    BY DEF CallsIInv, CallsTypeOK, Statuses
  <2>3. <<>> \in Seq(Lines)
    OBVIOUS
  <2>4. stdout' \in Seq(Lines)
    BY <2>1, <2>2, <2>3, Zenon
  <2>. QED BY <2>1, <2>2, <2>4, Zenon
<1>3. CallsTypeOK' /\ OnItsWay'
  BY <1>1, <1>2 DEF CallsIInv, CallsTypeOK, OnItsWay, OnCall
<1>. QED BY <1>1, <1>3, RowsKept

-----------------------------------------------------------------------------
LEMMA CallsInitOK == CallsInit => CallsIInv
BY BoundsAssumption DEF CallsInit, CallsIInv, CallsTypeOK, OnItsWay, OnCall, Statuses

LEMMA CallsStepOK == CallsIInv /\ [CallsNext]_callsVars => CallsIInv'
<1>. SUFFICES ASSUME CallsIInv, [CallsNext]_callsVars PROVE CallsIInv'
  OBVIOUS
<1>1. CASE CallsNext
  BY <1>1, LeaseOK, OpenOK, CallOK, PersistCallOK, FinishOK, FinishFailsOK, EndOK,
     KillCallOK DEF CallsNext
<1>2. CASE UNCHANGED callsVars
  <2>1. CallsTypeOK' /\ OnItsWay' /\ calls' = calls /\ pc' = pc
    BY <1>2 DEF callsVars, CallsIInv, CallsTypeOK, OnItsWay, Current
  <2>. QED BY <2>1, RowsKept
<1>. QED BY <1>1, <1>2

LEMMA CallsSpecIInv == CallsSpec => []CallsIInv
BY CallsInitOK, CallsStepOK, PTL DEF CallsSpec

(***************************************************************************)
(* The rows of model_calls have one of the four statuses, and what the     *)
(* program has in hand is typed, in every reachable state.                 *)
(***************************************************************************)
THEOREM CallsTypeCorrect == CallsSpec => []CallsTypeOK
<1>1. CallsIInv => CallsTypeOK
  BY DEF CallsIInv
<1>. QED BY <1>1, CallsSpecIInv, PTL

(***************************************************************************)
(* For any number of calls, and with kills and failing transactions at any *)
(* step: a completed call was stored whole, of a quarantined one nothing   *)
(* was, and an open row belongs to the call under way or to one whose end  *)
(* was lost (create_model_call, run_leased_job, finish_model_call).        *)
(***************************************************************************)
THEOREM RowsTellWhatWasStored == CallsSpec => []RowsMatchStore
<1>1. CallsIInv => RowsMatchStore
  BY DEF CallsIInv, RowOK, Explained, RowsMatchStore
<1>. QED BY <1>1, CallsSpecIInv, PTL

-----------------------------------------------------------------------------
(***************************************************************************)
(* Calls: the parser reads a turn line by line.                            *)
(***************************************************************************)
\* What parse_codex_jsonl keeps between two lines.
State == [ok : BOOLEAN, thread : BOOLEAN, turn : BOOLEAN, done : BOOLEAN,
          last : {"none"} \cup Spoken]

LEMMA ParseLineTyped ==
  ASSUME NEW state \in State, NEW line
  PROVE  ParseLine(state, line) \in State
BY DEF ParseLine, State

\* FoldLeft over the lines, as a function of the places that were read.
IsFold(f, lines) ==
    f = [S \in SUBSET DOMAIN lines |->
            IF S = {} THEN Unread ELSE ParseLine(f[S \ {Max(S)}], lines[Max(S)])]

Folds(lines) == CHOOSE f : IsFold(f, lines)

LEMMA MaxIs ==
  ASSUME NEW n \in Nat, NEW S \in SUBSET (1 .. n), S # {}
  PROVE  Max(S) \in S /\ \A k \in S : Max(S) >= k
<1>. DEFINE Good == {T \in SUBSET (1 .. n) : T # {} => \E m \in T : \A k \in T : m >= k}
<1>1. ASSUME NEW R \in SUBSET (1 .. n), \A T \in SUBSET R : T # R => T \in Good
      PROVE  R \in Good
  <2>1. ASSUME NEW a \in R
        PROVE  \E m \in R : \A k \in R : m >= k
    <3>1. CASE R = {a}
      BY <3>1
    <3>2. CASE R # {a}
      <4>1. R \ {a} \in SUBSET R /\ R \ {a} # R /\ R \ {a} # {}
        BY <3>2
      <4>2. R \ {a} \in Good
        BY <1>1, <4>1
      <4>3. PICK m \in R \ {a} : \A k \in R \ {a} : m >= k
        BY <4>1, <4>2
      <4>4. CASE m >= a
        BY <4>3, <4>4
      <4>5. CASE a >= m
        <5>1. \A k \in R : a >= k
          BY <4>3, <4>5
        <5>. QED BY <5>1
      <4>. QED BY <4>4, <4>5
    <3>. QED BY <3>1, <3>2
  <2>. QED BY <2>1
<1>2. Good \in SUBSET SUBSET (1 .. n) /\ IsFiniteSet(1 .. n)
  BY FS_Interval
<1>3. Good = SUBSET (1 .. n)
  <2>. HIDE DEF Good
  <2>. QED BY <1>1, <1>2, SubsetInduction
<1>4. \E m \in S : \A k \in S : m >= k
  BY <1>3
<1>. QED BY <1>4 DEF Max

LEMMA FoldsAre ==
  ASSUME NEW lines \in Seq(Lines)
  PROVE  IsFold(Folds(lines), lines)
<1>. DEFINE D == DOMAIN lines
            rest == [S \in SUBSET D |-> S \ {Max(S)}]
            step == [S \in SUBSET D |->
                        [state \in State |-> ParseLine(state, lines[Max(S)])]]
<1>1. PICK n \in Nat : D = 1 .. n
  OBVIOUS
<1>2. IsFiniteSet(D)
  BY <1>1, FS_Interval
<1>3. Shrinking(D, rest)
  <2>. ASSUME NEW S \in SUBSET D, S # {}
       PROVE  rest[S] \in SUBSET S /\ rest[S] # S
    BY <1>1, MaxIs
  <2>. QED BY DEF Shrinking
<1>4. \A S \in SUBSET D : S # {} => step[S] \in [State -> State]
  BY ParseLineTyped
<1>5. Unread \in State
  BY DEF Unread, State
<1>6. PICK f : IsRecursion(f, D, State, Unread, rest, step)
  <2>. HIDE DEF rest, step, D
  <2>. QED BY <1>2, <1>3, <1>4, <1>5, RecursionExists
<1>7. ASSUME NEW S \in SUBSET D, S # {}
      PROVE  f[S] = ParseLine(f[S \ {Max(S)}], lines[Max(S)])
  <2>1. f[S] = step[S][f[rest[S]]] /\ f[rest[S]] \in State
    BY <1>3, <1>6, <1>7 DEF IsRecursion, Shrinking
  <2>. QED BY <2>1
<1>8. f[{}] = Unread /\ f = [S \in SUBSET D |-> f[S]]
  BY <1>6 DEF IsRecursion
<1>9. IsFold(f, lines)
  BY <1>7, <1>8 DEF IsFold
<1>. QED BY <1>9 DEF Folds

\* The parser after the first k lines.
After(lines, k) == Folds(lines)[1 .. k]

LEMMA AfterStart ==
  ASSUME NEW lines \in Seq(Lines)
  PROVE  After(lines, 0) = Unread
<1>1. {} \in SUBSET DOMAIN lines
  OBVIOUS
<1>2. 1 .. 0 = {}
  OBVIOUS
<1>3. Folds(lines)[{}] = Unread
  BY <1>1, FoldsAre DEF IsFold
<1>. QED BY <1>2, <1>3 DEF After

LEMMA AfterLine ==
  ASSUME NEW lines \in Seq(Lines), NEW k \in 1 .. Len(lines)
  PROVE  After(lines, k) = ParseLine(After(lines, k - 1), lines[k])
<1>1. PICK S : S = 1 .. k
  OBVIOUS
<1>2. /\ S \in SUBSET (1 .. Len(lines)) /\ S \in SUBSET DOMAIN lines
      /\ k \in S /\ S # {}
      /\ \A i \in S : i \in Int /\ k >= i
  <2>1. 1 .. k \in SUBSET (1 .. Len(lines)) /\ DOMAIN lines = 1 .. Len(lines)
    OBVIOUS
  <2>2. k \in 1 .. k /\ \A i \in 1 .. k : i \in Int /\ k >= i
    OBVIOUS
  <2>. QED BY <1>1, <2>1, <2>2
<1>3. Max(S) \in S /\ \A i \in S : Max(S) >= i
  <2>1. Len(lines) \in Nat
    OBVIOUS
  <2>. QED BY <1>2, <2>1, MaxIs
<1>4. Max(S) = k
  BY <1>2, <1>3
<1>5. S \ {k} = 1 .. k - 1
  BY <1>1
<1>6. Folds(lines)[S] = ParseLine(Folds(lines)[S \ {Max(S)}], lines[Max(S)])
  BY <1>2, FoldsAre DEF IsFold
<1>. QED BY <1>1, <1>4, <1>5, <1>6 DEF After

LEMMA AcceptedIs ==
  ASSUME NEW lines \in Seq(Lines), NEW end, end = After(lines, Len(lines))
  PROVE  Accepted(lines) <=> end.ok /\ end.thread /\ end.done /\ end.last = "answer"
<1>1. FoldLeft(ParseLine, Unread, lines) = Folds(lines)[DOMAIN lines]
  BY DEF FoldLeft, MapThenFoldSet, Max, Max, Folds, IsFold
<1>2. DOMAIN lines = 1 .. Len(lines)
  OBVIOUS
<1>. QED BY <1>1, <1>2 DEF Accepted, After

\* The first k lines are those of one turn that may have ended with the last.
Regular(lines, k) ==
    \A i \in 1 .. k :
        /\ i = 1 => lines[i] = "thread"
        /\ i = 2 => lines[i] = "turn"
        /\ i > 2 => lines[i] \in Silent \cup Spoken \cup {"done"}
        /\ i < k => lines[i] # "done"

\* What was said last.
SaidLast(lines, k, last) ==
    IF last = "none" THEN \A i \in 1 .. k : lines[i] \notin Spoken
    ELSE \E i \in 1 .. k : lines[i] = last /\ \A j \in i + 1 .. k : lines[j] \notin Spoken

\* What the parser knows after the first k lines.
Knows(lines, k, state) ==
    /\ state \in State
    /\ state.ok <=> Regular(lines, k)
    /\ state.ok =>
          /\ state.thread <=> k >= 1
          /\ state.turn <=> k >= 2
          /\ state.done <=> k >= 1 /\ lines[k] = "done"
          /\ SaidLast(lines, k, state.last)

LEMMA KnowsMore ==
  ASSUME NEW lines \in Seq(Lines), NEW k \in 1 .. Len(lines), NEW state, NEW next,
         Knows(lines, k - 1, state), next = ParseLine(state, lines[k])
  PROVE  Knows(lines, k, next)
<1>1. next \in State /\ state \in State
  BY ParseLineTyped DEF Knows
<1>2. PICK line \in Lines : line = lines[k]
  OBVIOUS
<1>3. Regular(lines, k) <=> /\ Regular(lines, k - 1)
                            /\ k = 1 => line = "thread"
                            /\ k = 2 => line = "turn"
                            /\ k > 2 => line \in Silent \cup Spoken \cup {"done"}
                            /\ k > 1 => lines[k - 1] # "done"
  BY <1>2 DEF Regular
<1>4. CASE state.ok /\ Permitted(state, line)
  <2>1. /\ next.ok /\ (next.thread <=> state.thread \/ line = "thread")
        /\ (next.turn <=> state.turn \/ line = "turn")
        /\ (next.done <=> state.done \/ line = "done")
        /\ next.last = IF line \in Spoken THEN line ELSE state.last
    BY <1>1, <1>2, <1>4 DEF ParseLine, State
  <2>2. Regular(lines, k - 1) /\ ~state.done
        /\ (state.thread <=> k >= 2) /\ (state.turn <=> k >= 3)
        /\ (k > 1 => lines[k - 1] # "done")
    BY <1>4 DEF Knows, Permitted
  <2>3. /\ k = 1 => line = "thread"
        /\ k = 2 => line = "turn"
        /\ k > 2 => line \in Silent \cup Spoken \cup {"done"}
    BY <1>4, <2>2 DEF Permitted, Silent, Spoken
  <2>4. Regular(lines, k)
    BY <1>3, <2>2, <2>3
  <2>5. (next.thread <=> k >= 1) /\ (next.turn <=> k >= 2) /\ (next.done <=> line = "done")
    BY <2>1, <2>2, <2>3 DEF Silent, Spoken
  <2>6. SaidLast(lines, k, next.last)
    <3>1. SaidLast(lines, k - 1, state.last)
      BY <1>4 DEF Knows
    <3>2. CASE line \in Spoken
      <4>1. next.last = line /\ line # "none"
        BY <2>1, <3>2 DEF Spoken
      <4>. QED BY <1>2, <4>1 DEF SaidLast
    <3>3. CASE line \notin Spoken
      <4>1. next.last = state.last
        BY <2>1, <3>3
      <4>. QED BY <1>2, <3>1, <3>3, <4>1 DEF SaidLast
    <3>. QED BY <3>2, <3>3
  <2>. QED BY <1>1, <1>2, <2>1, <2>4, <2>5, <2>6 DEF Knows
<1>5. CASE ~(state.ok /\ Permitted(state, line))
  <2>1. ~next.ok
    BY <1>1, <1>2, <1>5 DEF ParseLine, State
  <2>2. ~Regular(lines, k)
    <3>. SUFFICES ASSUME Regular(lines, k)
                  PROVE  FALSE
      OBVIOUS
    <3>1. state.ok
      BY <1>3 DEF Knows
    <3>2. /\ (state.thread <=> k >= 2) /\ (state.turn <=> k >= 3)
          /\ ~state.done
      BY <1>3, <3>1 DEF Knows
    <3>3. Permitted(state, line)
      BY <1>3, <3>2 DEF Permitted
    <3>. QED BY <1>5, <3>1, <3>3
  <2>. QED BY <1>1, <2>1, <2>2 DEF Knows
<1>. QED BY <1>4, <1>5

LEMMA KnowsAll ==
  ASSUME NEW lines \in Seq(Lines)
  PROVE  Knows(lines, Len(lines), After(lines, Len(lines)))
<1>. DEFINE n == Len(lines)
            Good == {k \in 0 .. n : Knows(lines, k, After(lines, k))}
<1>1. 0 \in Good
  <2>1. /\ Unread \in State /\ Unread.ok
        /\ ~Unread.thread /\ ~Unread.turn /\ ~Unread.done
        /\ Unread.last = "none"
    BY DEF Unread, State
  <2>. QED BY <2>1, AfterStart DEF Knows, Regular, SaidLast
<1>2. ASSUME NEW k \in 1 .. n, k - 1 \in Good
      PROVE  k \in Good
  <2>1. PICK state : state = After(lines, k - 1) /\ Knows(lines, k - 1, state)
    BY <1>2
  <2>2. PICK next : next = After(lines, k) /\ next = ParseLine(state, lines[k])
    BY <2>1, AfterLine
  <2>3. Knows(lines, k, next)
    BY <2>1, <2>2, KnowsMore
  <2>4. k \in 0 .. n
    OBVIOUS
  <2>. QED BY <2>2, <2>3, <2>4
<1>3. n \in Nat /\ Good \in SUBSET (0 .. n)
  OBVIOUS
<1>4. Good = 0 .. n
  <2>. HIDE DEF Good, n
  <2>. QED BY <1>1, <1>2, <1>3, IntervalInduction
<1>. QED BY <1>3, <1>4

(***************************************************************************)
(* Whatever the binary prints, and however much of it: the parser accepts  *)
(* it exactly if it is the record of one turn in which nothing was used    *)
(* but words and the last of them is an answer (parse_codex_jsonl).        *)
(***************************************************************************)
THEOREM AcceptedIsOneTurn ==
  ASSUME NEW lines \in Seq(Lines)
  PROVE  Accepted(lines) <=> IsOneTurn(lines)
<1>0. PICK n \in Nat : n = Len(lines)
  OBVIOUS
<1>1. PICK end : n = Len(lines) /\ end = After(lines, n) /\ Knows(lines, n, end)
  BY <1>0, KnowsAll
<1>2. Accepted(lines) <=> end.ok /\ end.thread /\ end.done /\ end.last = "answer"
  BY <1>1, AcceptedIs
<1>3. ASSUME end.ok, end.thread, end.done, end.last = "answer"
      PROVE  IsOneTurn(lines)
  <2>1. Regular(lines, n) /\ n >= 1 /\ lines[n] = "done" /\ SaidLast(lines, n, "answer")
    BY <1>1, <1>3 DEF Knows
  <2>2. PICK i \in 1 .. n :
          lines[i] = "answer" /\ \A j \in i + 1 .. n : lines[j] \notin Spoken
    BY <2>1 DEF SaidLast
  <2>3. i >= 3 /\ i <= n - 1 /\ n >= 4
    BY <2>1, <2>2 DEF Regular
  <2>4. lines[1] = "thread" /\ lines[2] = "turn"
    BY <2>1, <2>3 DEF Regular
  <2>5. \A j \in 3 .. n - 1 : lines[j] \in Silent \cup Spoken
    BY <2>1 DEF Regular
  <2>6. Last(lines) = "done"
    BY <1>1, <2>1 DEF Last
  <2>7. \A j \in i + 1 .. n : lines[j] # "note"
    BY <2>2 DEF Spoken
  <2>. QED BY <1>1, <2>2, <2>3, <2>4, <2>5, <2>6, <2>7 DEF IsOneTurn
<1>4. ASSUME IsOneTurn(lines)
      PROVE  end.ok /\ end.thread /\ end.done /\ end.last = "answer"
  <2>1. /\ n >= 4 /\ lines[1] = "thread" /\ lines[2] = "turn" /\ lines[n] = "done"
        /\ \A i \in 3 .. n - 1 : lines[i] \in Silent \cup Spoken
    BY <1>1, <1>4 DEF IsOneTurn, Last
  <2>2. PICK i \in 3 .. n - 1 :
          lines[i] = "answer" /\ \A j \in i + 1 .. n : lines[j] # "note"
    BY <1>1, <1>4 DEF IsOneTurn
  <2>3. Regular(lines, n)
    BY <2>1 DEF Regular, Silent, Spoken
  <2>4. /\ end.ok /\ end.thread /\ end.done /\ SaidLast(lines, n, end.last)
        /\ end.last \in {"none", "answer", "note"}
    BY <1>1, <2>1, <2>3 DEF Knows, State, Spoken
  <2>5. end.last # "none"
    BY <2>1, <2>2, <2>4 DEF SaidLast, Spoken
  <2>6. PICK m \in 1 .. n :
          lines[m] = end.last /\ \A j \in m + 1 .. n : lines[j] \notin Spoken
    BY <2>4, <2>5 DEF SaidLast
  <2>7. m >= i
    BY <2>1, <2>2, <2>6 DEF Spoken
  <2>8. end.last # "note"
    BY <2>1, <2>2, <2>6, <2>7
  <2>. QED BY <2>4, <2>5, <2>8
<1>. QED BY <1>2, <1>3, <1>4

-----------------------------------------------------------------------------
(***************************************************************************)
(* Calls: what is stored and what is quarantined.  A call that was refused,*)
(* or broke off, has printed nothing; whatever else is quarantined was     *)
(* read and rejected.                                                      *)
(***************************************************************************)
Sorted ==
    /\ pc \in {"idle", "leased", "calling"} => stdout = <<>>
    /\ pc \in {"persisting", "finishing", "completing"} => IsOneTurn(stdout)
    /\ pc = "settling" /\ verdict = "quarantined" => ~IsOneTurn(stdout)

LEMMA NothingIsNoTurn == ~IsOneTurn(<<>>)
BY DEF IsOneTurn

LEMMA SortedStep ==
  ASSUME CallsTypeOK, Sorted, [CallsNext]_callsVars
  PROVE  Sorted'
<1>1. stdout \in Seq(Lines)
  BY DEF CallsTypeOK
<1>2. CASE Accept \/ Reject
  <2>1. Accepted(stdout) <=> IsOneTurn(stdout)
    BY <1>1, AcceptedIsOneTurn
  <2>2. stdout' = stdout
    BY <1>2 DEF Accept, Reject
  <2>3. CASE Accept
    <3>1. pc' = "persisting" /\ IsOneTurn(stdout)
      BY <2>1, <2>3 DEF Accept, Goes
    <3>. QED BY <2>2, <3>1 DEF Sorted
  <2>4. CASE Reject
    <3>1. pc' = "settling" /\ ~IsOneTurn(stdout)
      BY <2>1, <2>4 DEF Reject, Goes
    <3>. QED BY <2>2, <3>1 DEF Sorted
  <2>. QED BY <1>2, <2>3, <2>4
<1>3. CASE Lease \/ GiveUpEarly \/ Prepare \/ CompleteFails \/ Settle \/ SettleFails
  <2>1. stdout' = stdout /\ pc' \in {"leased", "calling", "failing"}
        /\ (pc' # "failing" => pc \in {"idle", "leased"})
    BY <1>3 DEF Lease, GiveUpEarly, Prepare, CompleteFails, Settle, SettleFails, At,
       Goes
  <2>. QED BY <2>1 DEF Sorted
<1>4. CASE Refuse \/ Breaks \/ TimesOut
  <2>1. stdout' = stdout /\ pc' = "settling" /\ pc \in {"leased", "calling"}
    BY <1>4 DEF Refuse, Breaks, TimesOut, At, Goes
  <2>2. stdout = <<>>
    BY <2>1 DEF Sorted
  <2>. QED BY <2>1, <2>2, NothingIsNoTurn DEF Sorted
<1>5. CASE Answers
  <2>1. pc' = "reading"
    BY <1>5 DEF Answers, Goes
  <2>. QED BY <2>1 DEF Sorted
<1>6. CASE Persist \/ Finish
  <2>1. stdout' = stdout /\ pc \in {"persisting", "finishing"}
        /\ pc' \in {"finishing", "completing"}
    BY <1>6 DEF Persist, Finish, At, Goes
  <2>. QED BY <2>1 DEF Sorted
<1>7. CASE PersistFails \/ FinishFails
  <2>1. pc' = "settling" /\ verdict' = "failed"
    BY <1>7 DEF PersistFails, FinishFails, Goes
  <2>. QED BY <2>1 DEF Sorted
<1>8. CASE Complete \/ FailJob \/ Die
  <2>1. pc' = "idle" /\ stdout' = <<>>
    BY <1>8 DEF Complete, FailJob, Die, Ends, Goes
  <2>. QED BY <2>1 DEF Sorted
<1>9. CASE UNCHANGED callsVars
  BY <1>9 DEF callsVars, Sorted
<1>. QED BY <1>2, <1>3, <1>4, <1>5, <1>6, <1>7, <1>8, <1>9 DEF CallsNext

(***************************************************************************)
(* However many lines a call prints: what it printed is stored only if it  *)
(* is the record of one turn, and no record of one turn is quarantined     *)
(* (run_leased_job, parse_codex_jsonl).                                    *)
(***************************************************************************)
THEOREM ExactlyOneTurnIsPersisted == CallsSpec => []ParsedAsWritten
<1>1. CallsInit => Sorted
  BY DEF CallsInit, Sorted
<1>2. CallsTypeOK /\ Sorted /\ [CallsNext]_callsVars => Sorted'
  BY SortedStep
<1>3. CallsSpec => []CallsTypeOK
  BY CallsTypeCorrect
<1>4. Sorted => ParsedAsWritten
  BY DEF Sorted, ParsedAsWritten
<1>. QED BY <1>1, <1>2, <1>3, <1>4, PTL DEF CallsSpec
=============================================================================
