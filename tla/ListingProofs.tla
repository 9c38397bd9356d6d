---------------------------- MODULE ListingProofs ----------------------------
(***************************************************************************)
(* Proofs about Listing for any set of names, any times and any number of  *)
(* changes.  What carries them: at every moment there is an order in which *)
(* the next page would be, or is being, cut off, and the offset separates  *)
(* in this order what the agent was shown from what it was not.            *)
(***************************************************************************)
EXTENDS Listing, FiniteSetTheorems, TLAPS

\* The list as the next page sees it, and the times it is sorted by.
View == IF phase = "sorting" THEN listed ELSE wanted \intersect present

ViewKeys == [n \in Name |-> IF phase = "sorting" /\ n \in stated THEN keys[n] ELSE mtime[n]]

Rank(n) == Cardinality(Before(View, ViewKeys, n))

CallInv ==
  /\ phase = "idle" => stated = {}
  /\ phase = "sorting" => walk = "going" /\ listed \subseteq wanted

\* The tables do not change.
TableInv ==
  surface # "directory" =>
    /\ there /\ ~ receded /\ ~ advanced /\ barred = {}
    /\ \A n \in Name : mtime[n] = 0 /\ keys[n] = 0
    /\ phase = "sorting" => listed = wanted \intersect present /\ stated = listed

BucketInv == surface = "buckets" => cursor = 0 /\ wanted = Name

\* What has not been shown yet lies behind the offset, unless it is new, was
\* touched, or something receded.
MissInv ==
  ~ receded =>
    /\ steady \subseteq present
    /\ phase = "sorting" =>
         /\ steady \intersect wanted \subseteq listed
         /\ listed \subseteq present
         /\ \A n \in stated : keys[n] <= mtime[n]
         /\ \A n \in stated \intersect steady : keys[n] = mtime[n]
    /\ walk = "going" =>
         \A n \in steady \intersect wanted : seen[n] = 0 => cursor <= Rank(n)
    /\ walk = "ended" /\ (surface = "buckets" => Cardinality(present) <= MaxLimit) =>
         \A n \in steady \intersect wanted : seen[n] > 0

\* What has been shown lies before the offset, unless something came or moved.
RepeatInv ==
  ~ advanced =>
    /\ \A n \in Name : seen[n] <= 1
    /\ phase = "sorting" =>
         /\ wanted \intersect present \subseteq listed
         /\ \A n \in stated \intersect present : keys[n] = mtime[n]
    /\ walk = "going" =>
         \A n \in wanted \intersect present : cursor > 0 /\ seen[n] > 0 => Rank(n) < cursor

OffsetInv ==
  /\ surface = "instruments" /\ cursor > 0 => cursor < Cardinality(wanted \intersect present)
  /\ FollowedPageIsAnswered

ListingInv ==
  /\ ListingTypeOK /\ CallInv /\ TableInv /\ BucketInv
  /\ MissInv /\ RepeatInv /\ OffsetInv

-----------------------------------------------------------------------------
(* Cardinalities. *)

LEMMA BeforeIsCounted ==
  ASSUME NEW S \in SUBSET Name, NEW k, NEW n
  PROVE  IsFiniteSet(S) /\ Cardinality(S) \in Nat /\ Cardinality(Before(S, k, n)) \in Nat
<1>1. IsFiniteSet(S)
  BY NameAssumption, FS_Subset
<1>2. IsFiniteSet(Before(S, k, n))
  BY <1>1, FS_Subset DEF Before
<1> QED BY <1>1, <1>2, FS_CardinalityType

LEMMA LargerBefore ==
  ASSUME NEW S \in SUBSET Name, NEW k, NEW n, NEW T \in SUBSET Before(S, k, n)
  PROVE  Cardinality(T) <= Cardinality(Before(S, k, n))
<1>1. IsFiniteSet(Before(S, k, n))
  <2>1. IsFiniteSet(S)
    BY NameAssumption, FS_Subset
  <2> QED BY <2>1, FS_Subset DEF Before
<1> QED BY <1>1, FS_Subset

\* The offset of an entry is smaller than the length of the list.
LEMMA OffsetInList ==
  ASSUME NEW S \in SUBSET Name, NEW k \in [Name -> Nat], NEW n \in S
  PROVE  Cardinality(Before(S, k, n)) < Cardinality(S)
<1>1. IsFiniteSet(S)
  BY NameAssumption, FS_Subset
<1>2. ~ Precedes(k, n, n)
  BY NameAssumption DEF Precedes
<1>3. Before(S, k, n) \subseteq S \ {n}
  BY <1>2 DEF Before
<1>4. IsFiniteSet(S \ {n}) /\ Cardinality(S \ {n}) = Cardinality(S) - 1
  BY <1>1, FS_RemoveElement
<1>5. Cardinality(Before(S, k, n)) <= Cardinality(S \ {n})
  BY <1>3, <1>4, FS_Subset
<1> QED BY <1>1, <1>4, <1>5, BeforeIsCounted, FS_CardinalityType

-----------------------------------------------------------------------------
LEMMA InitInv == ListingInit => ListingInv
<1> SUFFICES ASSUME ListingInit PROVE ListingInv
  OBVIOUS
<1> USE NameAssumption, TimesAssumption, LimitAssumption
<1>1. ListingTypeOK
  <2>1. spaced \in BOOLEAN /\ wanted \subseteq Name /\ barred \subseteq Name
    BY DEF ListingInit
  <2>2. mtime \in [Name -> Times] /\ keys \in [Name -> Times]
    BY DEF ListingInit
  <2>3. limit \in 1 .. MaxLimit /\ cursor \in Nat /\ changes \in 0 .. MaxChanges
    BY DEF ListingInit
  <2> QED BY <2>1, <2>2, <2>3 DEF ListingInit, ListingTypeOK
<1>2. CallInv /\ BucketInv /\ TableInv /\ OffsetInv
  BY DEF ListingInit, CallInv, BucketInv, TableInv, OffsetInv, FollowedPageIsAnswered, Surfaces
<1>3. MissInv
  BY BeforeIsCounted DEF ListingInit, MissInv, Rank, View
<1>4. RepeatInv
  BY DEF ListingInit, RepeatInv
<1> QED BY <1>1, <1>2, <1>3, <1>4 DEF ListingInv

-----------------------------------------------------------------------------
(* The list is read. *)

LEMMA RefuseStep ==
  ASSUME ListingInv, NEW asked \in 1 .. MaxLimit + 1, Refuse(asked)
  PROVE  ListingInv'
<1> USE DEF ListingInv, Refuse, data, tree, call, history
<1>1. ListingTypeOK' /\ CallInv' /\ TableInv' /\ BucketInv'
  BY DEF ListingTypeOK, CallInv, TableInv, BucketInv
<1>2. ~ CursorRefused
  <2> SUFFICES ASSUME surface = "instruments" PROVE ~ (cursor > Cardinality(wanted \intersect present))
    BY DEF CursorRefused
  <2>1. Cardinality(wanted \intersect present) \in Nat
    BY BeforeIsCounted DEF ListingTypeOK
  <2> QED BY <2>1 DEF OffsetInv, ListingTypeOK
<1>3. LimitRefused(asked) => ~ FollowsCommand
  BY LimitAssumption DEF LimitRefused, ListingTypeOK
<1>4. FollowedPageIsAnswered'
  <2>1. LimitRefused(asked) \/ CommandUnreadable
    BY <1>2
  <2> QED BY <1>3, <2>1 DEF FollowedPageIsAnswered, FollowsCommand, CommandUnreadable
<1>5. OffsetInv'
  BY <1>4 DEF OffsetInv
<1>6. MissInv' /\ RepeatInv'
  BY DEF MissInv, RepeatInv, CallInv
<1> QED BY <1>1, <1>5, <1>6

LEMMA NotFoundStep == ListingInv /\ NotFound => ListingInv'
<1> SUFFICES ASSUME ListingInv, NotFound PROVE ListingInv'
  OBVIOUS
<1> USE DEF ListingInv, NotFound, data, tree, call, history
<1>1. ListingTypeOK' /\ CallInv' /\ TableInv' /\ BucketInv'
  BY DEF ListingTypeOK, CallInv, TableInv, BucketInv
<1>2. MissInv' /\ RepeatInv' /\ OffsetInv'
  BY DEF MissInv, RepeatInv, OffsetInv, FollowedPageIsAnswered, CommandUnreadable
<1> QED BY <1>1, <1>2

\* Reading the list changes neither what the next page is cut off from nor its
\* order: not yet asked for, an entry counts with the time it has.
LEMMA ReadStep ==
  ASSUME ListingInv, NEW asked \in 1 .. MaxLimit + 1, Read(asked)
  PROVE  ListingInv'
<1> USE DEF ListingInv, Read, data, tree, history
<1>1. ListingTypeOK'
  BY LimitAssumption DEF ListingTypeOK, LimitRefused
<1>2. CallInv' /\ TableInv' /\ BucketInv' /\ OffsetInv'
  BY DEF CallInv, TableInv, BucketInv, OffsetInv, FollowedPageIsAnswered, CommandUnreadable
<1>3. View' = View /\ ViewKeys' = ViewKeys
  <2>1. View' = View
    BY DEF View
  <2>2. ASSUME NEW n \in Name
        PROVE (IF phase' = "sorting" /\ n \in stated' THEN keys'[n] ELSE mtime'[n])
              = IF phase = "sorting" /\ n \in stated THEN keys[n] ELSE mtime[n]
    <3>1. CASE surface = "directory"
      BY <3>1
    <3>2. CASE surface # "directory"
      BY <3>2 DEF TableInv
    <3> QED BY <3>1, <3>2
  <2> QED BY <2>1, <2>2 DEF ViewKeys
<1>4. \A n \in Name : Rank(n)' = Rank(n)
  BY <1>3 DEF Rank, Before, Precedes
<1>5. MissInv'
  <2>1. \A n \in stated' : keys'[n] = mtime'[n]
    BY DEF TableInv, ListingTypeOK
  <2>2. \A n \in stated' : mtime'[n] \in Nat
    BY TimesAssumption, <1>1 DEF ListingTypeOK
  <2> QED BY <1>4, <2>1, <2>2 DEF MissInv, ListingTypeOK
<1>6. RepeatInv'
  <2>1. \A n \in stated' : keys'[n] = mtime'[n]
    BY DEF TableInv, ListingTypeOK
  <2> QED BY <1>4, <2>1 DEF RepeatInv, ListingTypeOK
<1> QED BY <1>1, <1>2, <1>5, <1>6

-----------------------------------------------------------------------------
(* The adapter at work. *)

LEMMA StatStep ==
  ASSUME ListingInv, NEW n \in Name, StatEntry(n)
  PROVE  ListingInv'
<1> USE DEF ListingInv, StatEntry, data, tree, history
<1>1. ListingTypeOK'
  BY DEF ListingTypeOK
<1>2. CallInv' /\ TableInv' /\ BucketInv' /\ OffsetInv'
  BY DEF CallInv, TableInv, BucketInv, OffsetInv, FollowedPageIsAnswered, CommandUnreadable
<1>3. View' = View /\ ViewKeys' = ViewKeys
  BY DEF View, ViewKeys, ListingTypeOK
<1>4. \A m \in Name : Rank(m)' = Rank(m)
  BY <1>3 DEF Rank, Before, Precedes
<1>5. \A m \in stated' : m = n \/ (m \in stated /\ keys'[m] = keys[m])
  <2>1. keys \in [Name -> Times] /\ stated \subseteq Name
    BY DEF ListingTypeOK
  <2>2. stated' = stated \union {n} /\ keys' = [keys EXCEPT ![n] = mtime[n]]
    OBVIOUS
  <2> QED BY <2>1, <2>2
<1>6. n \in Name /\ keys'[n] = mtime[n] /\ mtime[n] \in Nat
  BY TimesAssumption DEF ListingTypeOK
<1>7. MissInv'
  BY <1>4, <1>5, <1>6 DEF MissInv, ListingTypeOK
<1>8. RepeatInv'
  BY <1>4, <1>5, <1>6 DEF RepeatInv, ListingTypeOK
<1> QED BY <1>1, <1>2, <1>7, <1>8

\* What is there now and was read before sorts as it did, as long as nothing
\* receded: what was before an untouched entry still is.
LEMMA OrderKept ==
  ASSUME ListingInv, ~ receded, phase = "sorting", NEW n \in steady \intersect wanted
  PROVE  Rank(n) <= Cardinality(Before(wanted \intersect present, mtime, n))
<1> USE DEF ListingInv
<1>1. /\ steady \intersect wanted \subseteq listed /\ listed \subseteq wanted \intersect present
      /\ \A m \in stated : keys[m] <= mtime[m]
      /\ n \in stated => keys[n] = mtime[n]
  BY DEF MissInv, CallInv
<1>2. \A m \in Name : mtime[m] \in Nat /\ keys[m] \in Nat /\ m \in Nat
  BY TimesAssumption, NameAssumption DEF ListingTypeOK
<1>3. n \in Name /\ listed \subseteq Name
  BY DEF ListingTypeOK
<1>4. ASSUME NEW m \in Before(View, ViewKeys, n)
      PROVE  m \in Before(wanted \intersect present, mtime, n)
  <2>1. m \in listed /\ m \in Name
    BY <1>3 DEF Before, View
  <2>2. ViewKeys[m] <= mtime[m] /\ ViewKeys[n] = mtime[n] /\ ViewKeys[m] \in Nat
    BY <1>1, <1>2, <1>3, <2>1 DEF ViewKeys
  <2>3. ViewKeys[m] > ViewKeys[n] \/ (ViewKeys[m] = ViewKeys[n] /\ m > n)
    BY DEF Before, Precedes
  <2>4. mtime[m] > mtime[n] \/ (mtime[m] = mtime[n] /\ m > n)
    BY <1>2, <1>3, <2>1, <2>2, <2>3
  <2> QED BY <1>1, <2>1, <2>4 DEF Before, Precedes
<1>5. wanted \intersect present \in SUBSET Name
  BY DEF ListingTypeOK
<1> QED BY <1>4, <1>5, LargerBefore DEF Rank

\* And as long as nothing came or moved, nothing else gets before an entry.
LEMMA OrderThinned ==
  ASSUME ListingInv, ~ advanced, phase = "sorting", NEW n \in wanted \intersect present
  PROVE  Cardinality(Before(wanted \intersect present, mtime, n)) <= Rank(n)
<1> USE DEF ListingInv
<1>1. /\ wanted \intersect present \subseteq listed
      /\ \A m \in stated \intersect present : keys[m] = mtime[m]
  BY DEF RepeatInv
<1>2. listed \in SUBSET Name /\ wanted \intersect present \subseteq Name
  BY DEF ListingTypeOK
<1>3. \A m \in wanted \intersect present : ViewKeys[m] = mtime[m]
  BY <1>1, <1>2 DEF ViewKeys
<1>4. Before(wanted \intersect present, mtime, n) \subseteq Before(listed, ViewKeys, n)
  BY <1>1, <1>3 DEF Before, Precedes
<1>5. View = listed
  BY DEF View
<1> QED BY <1>2, <1>4, <1>5, LargerBefore DEF Rank

LEMMA FailStep ==
  ASSUME ListingInv, PageFails \/ \E n \in Name : StatFails(n)
  PROVE  ListingInv'
<1> USE DEF ListingInv, data, tree, history
<1>0. /\ phase = "sorting" /\ EndCall
      /\ UNCHANGED <<data, tree, limit, cursor, seen, walk, history>>
  BY DEF PageFails, StatFails
<1>1. ListingTypeOK'
  BY <1>0, TimesAssumption DEF EndCall, ListingTypeOK
<1>2. CallInv' /\ TableInv' /\ BucketInv' /\ OffsetInv'
  BY <1>0 DEF EndCall, CallInv, TableInv, BucketInv, OffsetInv, FollowedPageIsAnswered, CommandUnreadable
<1>3. View' = wanted \intersect present /\ ViewKeys' = mtime
  BY <1>0 DEF EndCall, View, ViewKeys, ListingTypeOK
<1>4. \A n \in Name : Rank(n)' = Cardinality(Before(wanted \intersect present, mtime, n))
  BY <1>3 DEF Rank, Before, Precedes
<1>5. \A n \in Name : Rank(n) \in Nat /\ Rank(n)' \in Nat
  BY <1>4, BeforeIsCounted DEF Rank, View, ListingTypeOK
<1>6. MissInv'
  <2> SUFFICES ASSUME ~ receded PROVE MissInv'
    BY <1>0 DEF MissInv
  <2>1. walk = "going" /\ phase' = "idle"
    BY <1>0 DEF EndCall, CallInv
  <2>2. ASSUME NEW n \in steady \intersect wanted, seen[n] = 0 PROVE cursor <= Rank(n)'
    <3>1. cursor <= Rank(n) /\ n \in Name /\ cursor \in Nat
      BY <2>1, <2>2 DEF MissInv, ListingTypeOK
    <3>2. Rank(n) <= Rank(n)'
      BY <1>0, <1>4, <3>1, OrderKept
    <3> QED BY <1>5, <3>1, <3>2
  <2> QED BY <1>0, <2>1, <2>2 DEF MissInv
<1>7. RepeatInv'
  <2> SUFFICES ASSUME ~ advanced PROVE RepeatInv'
    BY <1>0 DEF RepeatInv
  <2>1. walk = "going" /\ phase' = "idle"
    BY <1>0 DEF EndCall, CallInv
  <2>2. ASSUME NEW n \in wanted \intersect present, cursor > 0, seen[n] > 0 PROVE Rank(n)' < cursor
    <3>1. Rank(n) < cursor /\ n \in Name /\ cursor \in Nat
      BY <2>1, <2>2 DEF RepeatInv, ListingTypeOK
    <3>2. Rank(n)' <= Rank(n)
      BY <1>0, <1>4, <3>1, OrderThinned
    <3> QED BY <1>5, <3>1, <3>2
  <2> QED BY <1>0, <2>1, <2>2 DEF RepeatInv
<1> QED BY <1>1, <1>2, <1>6, <1>7

\* The entries of a page are those whose rank lies in it.
LEMMA PageByRank ==
  ASSUME ListingInv, stated = listed, phase = "sorting"
  PROVE  /\ \A n \in listed : n \in CurrentPage <=> cursor <= Rank(n) /\ Rank(n) < cursor + limit
         /\ \A n \in listed : Rank(n) \in Nat /\ Rank(n) < Cardinality(listed)
         /\ Cardinality(listed) \in Nat
<1> USE DEF ListingInv
<1>1. listed \in SUBSET Name /\ cursor \in Nat /\ limit \in Nat /\ keys \in [Name -> Nat]
  <2>1. listed \in SUBSET Name /\ cursor \in Nat /\ limit \in Nat /\ keys \in [Name -> Times]
    BY LimitAssumption DEF ListingTypeOK
  <2> QED BY <2>1, TimesAssumption
<1>2. Cardinality(listed) \in Nat
  BY <1>1, BeforeIsCounted
<1>3. ASSUME NEW n \in listed
      PROVE  /\ Rank(n) = Cardinality(Before(listed, keys, n))
             /\ Rank(n) \in Nat
             /\ Rank(n) < Cardinality(listed)
  <2>1. \A m \in listed : ViewKeys[m] = keys[m]
    BY <1>1 DEF ViewKeys
  <2>2. Before(listed, ViewKeys, n) = Before(listed, keys, n)
    BY <2>1 DEF Before, Precedes
  <2>3. Rank(n) = Cardinality(Before(listed, keys, n))
    BY <2>2 DEF Rank, View
  <2> QED BY <1>1, <2>3, BeforeIsCounted, OffsetInList
<1>4. ASSUME NEW n \in listed
      PROVE  n \in CurrentPage <=> cursor <= Rank(n) /\ Rank(n) < cursor + limit
  BY <1>1, <1>3 DEF CurrentPage, Page
<1> QED BY <1>2, <1>3, <1>4

LEMMA ShownIsCounted ==
  ASSUME ListingInv
  PROVE  /\ Shown \in [Name -> Nat]
         /\ \A n \in Name : Shown[n] = (IF cursor = 0 THEN 0 ELSE seen[n]) + (IF n \in CurrentPage THEN 1 ELSE 0)
BY DEF Shown, ListingInv, ListingTypeOK

LEMMA AnswerStep == ListingInv /\ AnswerPage => ListingInv'
<1> SUFFICES ASSUME ListingInv, AnswerPage PROVE ListingInv'
  OBVIOUS
<1> USE DEF ListingInv, data, tree, history
<1>0. /\ phase = "sorting" /\ stated = listed /\ Projectable /\ EndCall /\ walk = "going"
      /\ seen' = Shown /\ surface # "buckets"
      /\ UNCHANGED <<data, tree, limit, history>>
  BY DEF AnswerPage, CallInv
<1>1. \/ HasMore(listed, cursor, limit) /\ cursor' = cursor + limit /\ walk' = "going"
      \/ ~ HasMore(listed, cursor, limit) /\ cursor' = cursor /\ walk' = "ended"
  BY <1>0 DEF AnswerPage
<1>2. cursor \in Nat /\ limit \in Nat \ {0} /\ seen \in [Name -> Nat] /\ listed \subseteq Name
  BY LimitAssumption DEF ListingTypeOK
<1>3. ListingTypeOK'
  <2>1. walk' \in {"going", "ended"} /\ cursor' \in Nat
    BY <1>1, <1>2
  <2> QED BY <1>0, <2>1, ShownIsCounted, TimesAssumption DEF EndCall, ListingTypeOK
<1>4. CallInv' /\ BucketInv' /\ TableInv'
  BY <1>0 DEF EndCall, CallInv, TableInv, BucketInv
<1>5. OffsetInv'
  BY <1>0, <1>1, <1>2 DEF OffsetInv, FollowedPageIsAnswered, TableInv, HasMore
<1>6. \A n \in Name : Rank(n)' = Cardinality(Before(wanted \intersect present, mtime, n))
  <2>1. View' = wanted \intersect present /\ ViewKeys' = mtime
    BY <1>0 DEF EndCall, View, ViewKeys, ListingTypeOK
  <2> QED BY <2>1 DEF Rank, Before, Precedes
<1>7. \A n \in Name : Rank(n)' \in Nat
  <2>1. wanted \intersect present \in SUBSET Name
    BY DEF ListingTypeOK
  <2>2. \A n : Cardinality(Before(wanted \intersect present, mtime, n)) \in Nat
    BY <2>1, BeforeIsCounted
  <2> QED BY <1>6, <2>2
<1>8. MissInv'
  <2> SUFFICES ASSUME ~ receded PROVE MissInv'
    BY <1>0 DEF MissInv
  <2>1. ASSUME NEW n \in steady \intersect wanted, Shown[n] = 0
        PROVE  cursor + limit <= Rank(n) /\ Rank(n) < Cardinality(listed) /\ Rank(n) <= Rank(n)'
    <3>1. n \in listed /\ n \in Name
      BY <1>0, <1>2 DEF MissInv
    <3>2. n \notin CurrentPage /\ (cursor = 0 \/ seen[n] = 0)
      BY <2>1, <3>1, <1>2, ShownIsCounted
    <3>3. cursor <= Rank(n)
      BY <1>0, <1>2, <3>1, <3>2, PageByRank DEF MissInv
    <3>4. Rank(n) <= Rank(n)'
      BY <1>0, <1>6, <3>1, OrderKept
    <3> QED BY <1>0, <1>2, <3>1, <3>2, <3>3, <3>4, PageByRank
  <2>2. CASE HasMore(listed, cursor, limit)
    <3>1. \A n \in steady \intersect wanted : Shown[n] = 0 => cursor' <= Rank(n)'
      <4> SUFFICES ASSUME NEW n \in steady \intersect wanted, Shown[n] = 0 PROVE cursor' <= Rank(n)'
        OBVIOUS
      <4>1. n \in Name /\ n \in listed
        BY <1>0, <1>2 DEF MissInv
      <4> QED BY <1>0, <1>1, <1>2, <1>7, <2>1, <2>2, <4>1, PageByRank
    <3> QED BY <1>0, <1>1, <2>2, <3>1 DEF EndCall, MissInv
  <2>3. CASE ~ HasMore(listed, cursor, limit)
    <3>1. \A n \in steady \intersect wanted : Shown[n] > 0
      <4> SUFFICES ASSUME NEW n \in steady \intersect wanted PROVE Shown[n] # 0
        BY ShownIsCounted DEF ListingTypeOK
      <4>1. n \in Name /\ n \in listed
        BY <1>0, <1>2 DEF MissInv
      <4> QED BY <1>0, <1>2, <2>1, <2>3, <4>1, PageByRank DEF HasMore
    <3> QED BY <1>0, <1>1, <2>3, <3>1 DEF EndCall, MissInv
  <2> QED BY <2>2, <2>3
<1>9. RepeatInv'
  <2> SUFFICES ASSUME ~ advanced PROVE RepeatInv'
    BY <1>0 DEF RepeatInv
  <2>1. ASSUME NEW n \in Name PROVE Shown[n] <= 1
    <3>1. CASE n \in CurrentPage /\ cursor > 0
      <4>1. n \in listed /\ n \in wanted \intersect present
        BY <1>0, <3>1 DEF CurrentPage, Page, Projectable, CallInv
      <4>2. cursor <= Rank(n) /\ Rank(n) \in Nat
        BY <1>0, <3>1, <4>1, PageByRank
      <4>3. ~ (seen[n] > 0)
        BY <1>0, <1>2, <3>1, <4>1, <4>2 DEF RepeatInv
      <4> QED BY <1>2, <4>3, ShownIsCounted
    <3>2. CASE ~ (n \in CurrentPage /\ cursor > 0)
      BY <1>2, <3>2, ShownIsCounted DEF RepeatInv
    <3> QED BY <3>1, <3>2
  <2>2. ASSUME NEW n \in wanted \intersect present, Shown[n] > 0
        PROVE  Rank(n)' < cursor + limit
    <3>1. n \in listed /\ n \in Name
      BY <1>0, <1>2 DEF RepeatInv
    <3>2. n \in CurrentPage \/ (cursor > 0 /\ seen[n] > 0)
      BY <1>2, <2>2, <3>1, ShownIsCounted
    <3>3. Rank(n) < cursor + limit
      <4>1. CASE n \in CurrentPage
        BY <1>0, <3>1, <4>1, PageByRank
      <4>2. CASE cursor > 0 /\ seen[n] > 0
        <5>1. Rank(n) < cursor /\ Rank(n) \in Nat
          BY <1>0, <3>1, <4>2, PageByRank DEF RepeatInv
        <5> QED BY <1>2, <5>1
      <4> QED BY <3>2, <4>1, <4>2
    <3>4. Rank(n)' <= Rank(n)
      BY <1>0, <1>6, <3>1, OrderThinned
    <3> QED BY <1>0, <1>2, <1>7, <3>1, <3>3, <3>4, PageByRank
  <2> QED BY <1>0, <1>1, <2>1, <2>2 DEF EndCall, RepeatInv
<1> QED BY <1>3, <1>4, <1>5, <1>8, <1>9

LEMMA BucketStep == ListingInv /\ AnswerBuckets => ListingInv'
<1> SUFFICES ASSUME ListingInv, AnswerBuckets PROVE ListingInv'
  OBVIOUS
<1> USE DEF ListingInv, data, tree, history
<1>0. /\ phase = "sorting" /\ EndCall /\ walk = "going" /\ surface = "buckets"
      /\ seen' = Shown /\ cursor = 0 /\ cursor' = 0
      /\ there /\ ~ receded /\ ~ advanced /\ listed = present /\ stated = listed /\ wanted = Name
      /\ UNCHANGED <<data, tree, history>>
  BY DEF AnswerBuckets, CallInv, TableInv, BucketInv, ListingTypeOK
<1>1. \/ AllInOnePage /\ limit' = Cardinality(listed) /\ walk' = "going"
      \/ ~ AllInOnePage /\ limit' = limit /\ walk' = "ended"
  BY <1>0 DEF AnswerBuckets
<1>2. limit \in 1 .. MaxLimit /\ Cardinality(listed) \in Nat /\ listed \subseteq Name
  BY <1>0, PageByRank DEF ListingTypeOK
<1>3. \A n \in Name : Shown[n] = IF n \in CurrentPage THEN 1 ELSE 0
  BY <1>0, ShownIsCounted
<1>4. ListingTypeOK'
  <2>1. limit' \in 1 .. MaxLimit
    BY <1>1, <1>2, LimitAssumption DEF AllInOnePage, HasMore
  <2> QED BY <1>0, <1>1, <2>1, ShownIsCounted, TimesAssumption DEF EndCall, ListingTypeOK
<1>5. CallInv' /\ BucketInv' /\ TableInv' /\ OffsetInv'
  BY <1>0, <1>1 DEF EndCall, CallInv, TableInv, BucketInv, OffsetInv, FollowedPageIsAnswered
<1>6. \A n \in Name : Rank(n)' \in Nat
  <2>1. View' \in SUBSET Name
    BY <1>0 DEF EndCall, View, ListingTypeOK
  <2> QED BY <2>1, BeforeIsCounted DEF Rank
<1>7. MissInv'
  <2>1. ASSUME ~ AllInOnePage, Cardinality(present) <= MaxLimit, NEW n \in steady \intersect wanted
        PROVE  Shown[n] > 0
    <3>1. n \in listed /\ n \in Name
      BY <1>0, <1>2 DEF MissInv
    <3>2. Cardinality(listed) <= limit
      BY <1>0, <1>2, <2>1, LimitAssumption DEF AllInOnePage, HasMore
    <3> QED BY <1>0, <1>2, <1>3, <3>1, <3>2, PageByRank
  <2>2. \A n \in steady \intersect wanted : n \in Name /\ cursor' <= Rank(n)'
    BY <1>0, <1>6
  <2> QED BY <1>0, <1>1, <2>1, <2>2 DEF EndCall, MissInv
<1>8. RepeatInv'
  BY <1>0, <1>3 DEF EndCall, RepeatInv
<1> QED BY <1>4, <1>5, <1>7, <1>8

-----------------------------------------------------------------------------
(* The others. *)

\* What comes, or comes forward, pushes the rest back.
LEMMA ComeStep ==
  ASSUME ListingInv, NEW n \in Name, NEW t \in Times, Create(n, t) \/ Touch(n, t)
  PROVE  ListingInv'
<1> USE DEF ListingInv, Disturb, data, call
<1>0. /\ surface = "directory" /\ there /\ walk = "going" /\ changes < MaxChanges
      /\ n \in present => t > mtime[n]
      /\ present' = present \union {n} /\ mtime' = [mtime EXCEPT ![n] = t]
      /\ Disturb(n, TRUE, FALSE)
  BY DEF Create, Touch, Changing
<1>1. ListingTypeOK'
  BY <1>0, LimitAssumption DEF ListingTypeOK
<1>2. CallInv' /\ BucketInv' /\ TableInv' /\ OffsetInv' /\ RepeatInv'
  BY <1>0 DEF CallInv, TableInv, BucketInv, OffsetInv, RepeatInv, FollowedPageIsAnswered, CommandUnreadable
<1>3. \A m \in Name : mtime[m] \in Nat /\ keys[m] \in Nat /\ m \in Nat
  BY TimesAssumption, NameAssumption DEF ListingTypeOK
<1>4. t \in Nat
  BY TimesAssumption
<1>5. MissInv'
  <2> SUFFICES ASSUME ~ receded PROVE MissInv'
    BY <1>0 DEF MissInv
  <2>1. \A m \in Name : m # n => mtime'[m] = mtime[m]
    BY <1>0 DEF ListingTypeOK
  <2>2. mtime'[n] = t
    BY <1>0 DEF ListingTypeOK
  <2>3. listed \subseteq Name /\ stated \subseteq listed /\ steady' = steady \ {n} /\ steady \subseteq Name
    BY <1>0 DEF ListingTypeOK
  <2>4. /\ steady' \subseteq present'
        /\ phase' = "sorting" =>
             /\ steady' \intersect wanted' \subseteq listed'
             /\ listed' \subseteq present'
             /\ \A m \in stated' : keys'[m] <= mtime'[m]
             /\ \A m \in stated' \intersect steady' : keys'[m] = mtime'[m]
    BY <1>0, <1>3, <1>4, <2>1, <2>2, <2>3 DEF MissInv
  <2>5. ASSUME NEW e \in steady' \intersect wanted PROVE Rank(e) <= Rank(e)'
    <3>1. e # n /\ e \in Name
      BY <2>3
    <3>2. View \subseteq View' /\ View' \in SUBSET Name
      BY <1>0, <1>1 DEF View, ListingTypeOK
    <3>3. ASSUME NEW m \in View PROVE ViewKeys'[m] = ViewKeys[m] \/ (m = n /\ ViewKeys'[m] >= ViewKeys[m])
      <4>1. m \in Name /\ (m \in present \/ (phase = "sorting" /\ m \in listed))
        <5>1. m \in Name
          BY <3>2, <3>3
        <5>2. m \in present \/ (phase = "sorting" /\ m \in listed)
          BY <3>3 DEF View
        <5> QED BY <5>1, <5>2
      <4>2. CASE m # n
        BY <1>0, <2>1, <4>1, <4>2 DEF ViewKeys
      <4>3. CASE m = n
        <5>1. n \in present
          BY <4>1, <4>3 DEF MissInv
        <5>2. ViewKeys[m] = (IF phase = "sorting" /\ m \in stated THEN keys[m] ELSE mtime[m])
          BY <4>3 DEF ViewKeys
        <5>3. ViewKeys'[m] = (IF phase = "sorting" /\ m \in stated THEN keys[m] ELSE t)
          BY <1>0, <2>2, <4>3 DEF ViewKeys
        <5> QED BY <1>0, <1>3, <1>4, <4>3, <5>1, <5>2, <5>3
      <4> QED BY <4>2, <4>3
    <3>4. ViewKeys'[e] = ViewKeys[e]
      BY <1>0, <2>1, <3>1 DEF ViewKeys
    <3>5. \A m \in Name : ViewKeys[m] \in Nat /\ ViewKeys'[m] \in Nat
      BY <1>0, <1>1, TimesAssumption DEF ViewKeys, ListingTypeOK
    <3>6. ASSUME NEW m \in Before(View, ViewKeys, e) PROVE m \in Before(View', ViewKeys', e)
      <4>1. m \in View /\ m \in Name /\ m \in View'
        BY <3>2 DEF Before
      <4>2. ViewKeys[m] > ViewKeys[e] \/ (ViewKeys[m] = ViewKeys[e] /\ m > e)
        BY DEF Before, Precedes
      <4>3. ViewKeys'[m] > ViewKeys'[e] \/ (ViewKeys'[m] = ViewKeys'[e] /\ m > e)
        BY <3>1, <3>3, <3>4, <3>5, <4>1, <4>2
      <4> QED BY <4>1, <4>3 DEF Before, Precedes
    <3> QED BY <3>2, <3>6, LargerBefore DEF Rank, Before, Precedes
  <2>6. \A e \in Name : Rank(e) \in Nat /\ Rank(e)' \in Nat
    <3>1. View \in SUBSET Name /\ View' \in SUBSET Name
      BY <1>0, <1>1 DEF View, ListingTypeOK
    <3> QED BY <3>1, BeforeIsCounted DEF Rank
  <2>7. \A e \in steady' \intersect wanted : seen[e] = 0 => cursor <= Rank(e)'
    BY <1>0, <2>3, <2>5, <2>6 DEF MissInv, ListingTypeOK
  <2> QED BY <1>0, <2>4, <2>7 DEF MissInv
<1> QED BY <1>1, <1>2, <1>5

LEMMA BackdateStep ==
  ASSUME ListingInv, NEW n \in Name, NEW t \in Times, Backdate(n, t)
  PROVE  ListingInv'
<1> USE DEF ListingInv, Backdate, Changing, Disturb, data, call
<1>1. ListingTypeOK'
  BY LimitAssumption DEF ListingTypeOK
<1>2. CallInv' /\ BucketInv' /\ TableInv' /\ OffsetInv' /\ RepeatInv' /\ MissInv'
  BY DEF CallInv, TableInv, BucketInv, OffsetInv, RepeatInv, MissInv, FollowedPageIsAnswered, CommandUnreadable
<1> QED BY <1>1, <1>2

\* What goes pulls the rest forward.
LEMMA RemoveStep ==
  ASSUME ListingInv, NEW n \in Name, Remove(n)
  PROVE  ListingInv'
<1> USE DEF ListingInv, Disturb, data, call
<1>0. /\ surface = "directory" /\ there /\ walk = "going" /\ changes < MaxChanges
      /\ present' = present \ {n} /\ mtime' = [mtime EXCEPT ![n] = 0]
      /\ Disturb(n, FALSE, TRUE)
  BY DEF Remove, Changing
<1>1. ListingTypeOK'
  BY <1>0, LimitAssumption, TimesAssumption DEF ListingTypeOK
<1>2. CallInv' /\ BucketInv' /\ TableInv' /\ OffsetInv' /\ MissInv'
  BY <1>0 DEF CallInv, TableInv, BucketInv, OffsetInv, MissInv, FollowedPageIsAnswered, CommandUnreadable
<1>3. RepeatInv'
  <2> SUFFICES ASSUME ~ advanced PROVE RepeatInv'
    BY <1>0 DEF RepeatInv
  <2>1. \A m \in Name : mtime'[m] = IF m = n THEN 0 ELSE mtime[m]
    BY <1>0 DEF ListingTypeOK
  <2>2. \A m \in Name : ViewKeys[m] \in Nat /\ ViewKeys'[m] \in Nat
    BY <1>0, <1>1, TimesAssumption DEF ViewKeys, ListingTypeOK
  <2>3. \A m \in Name : ViewKeys'[m] = ViewKeys[m] \/ (m = n /\ ViewKeys'[m] <= ViewKeys[m])
    <3> SUFFICES ASSUME NEW m \in Name
                 PROVE  ViewKeys'[m] = ViewKeys[m] \/ (m = n /\ ViewKeys'[m] <= ViewKeys[m])
      OBVIOUS
    <3>1. ViewKeys[m] = (IF phase = "sorting" /\ m \in stated THEN keys[m] ELSE mtime[m])
      BY DEF ViewKeys
    <3>2. ViewKeys'[m] = (IF phase = "sorting" /\ m \in stated THEN keys[m] ELSE mtime'[m])
      BY <1>0 DEF ViewKeys
    <3> QED BY <2>1, <2>2, <3>1, <3>2
  <2>4. View' \subseteq View /\ View \in SUBSET Name
    BY <1>0 DEF View, ListingTypeOK
  <2>5. ASSUME NEW e \in wanted \intersect present' PROVE Rank(e)' <= Rank(e) /\ e \in wanted \intersect present
    <3>1. e # n /\ e \in Name /\ e \in wanted \intersect present
      BY <1>0 DEF ListingTypeOK
    <3>2. ASSUME NEW m \in Before(View', ViewKeys', e) PROVE m \in Before(View, ViewKeys, e)
      <4>1. m \in View /\ m \in Name /\ m \in View'
        BY <2>4 DEF Before
      <4>2. ViewKeys'[m] > ViewKeys'[e] \/ (ViewKeys'[m] = ViewKeys'[e] /\ m > e)
        BY DEF Before, Precedes
      <4>3. ViewKeys'[e] = ViewKeys[e] /\ ViewKeys'[m] <= ViewKeys[m]
        BY <2>2, <2>3, <3>1, <4>1
      <4>4. ViewKeys[m] > ViewKeys[e] \/ (ViewKeys[m] = ViewKeys[e] /\ m > e)
        BY <2>2, <3>1, <4>1, <4>2, <4>3
      <4> QED BY <4>1, <4>4 DEF Before, Precedes
    <3> QED BY <2>4, <3>1, <3>2, LargerBefore DEF Rank, Before, Precedes
  <2>6. \A e \in Name : Rank(e) \in Nat /\ Rank(e)' \in Nat
    <3>1. View \in SUBSET Name /\ View' \in SUBSET Name
      BY <2>4
    <3> QED BY <3>1, BeforeIsCounted DEF Rank
  <2>7. \A e \in wanted \intersect present' : cursor > 0 /\ seen[e] > 0 => Rank(e)' < cursor
    <3> SUFFICES ASSUME NEW e \in wanted \intersect present', cursor > 0, seen[e] > 0
                 PROVE  Rank(e)' < cursor
      OBVIOUS
    <3>1. Rank(e) < cursor /\ e \in Name /\ cursor \in Nat
      BY <1>0, <2>5 DEF RepeatInv, ListingTypeOK
    <3> QED BY <2>5, <2>6, <3>1
  <2>8. phase = "sorting" =>
          /\ wanted \intersect present' \subseteq listed
          /\ \A m \in stated \intersect present' : keys[m] = mtime'[m]
    BY <1>0, <2>1 DEF RepeatInv, ListingTypeOK
  <2> QED BY <1>0, <2>7, <2>8 DEF RepeatInv
<1> QED BY <1>1, <1>2, <1>3

LEMMA RemoveDirectoryStep ==
  ASSUME ListingInv, RemoveDirectory
  PROVE  ListingInv'
<1> USE DEF ListingInv, RemoveDirectory, Changing, data, call
<1>1. ListingTypeOK'
  <2>1. mtime' \in [Name -> Times]
    BY TimesAssumption
  <2>2. changes' \in 0 .. MaxChanges
    BY LimitAssumption DEF ListingTypeOK
  <2> QED BY <2>1, <2>2 DEF ListingTypeOK
<1>2. CallInv' /\ BucketInv' /\ TableInv' /\ OffsetInv' /\ MissInv'
  BY DEF CallInv, TableInv, BucketInv, OffsetInv, MissInv, FollowedPageIsAnswered, CommandUnreadable
<1>3. RepeatInv'
  BY DEF RepeatInv
<1> QED BY <1>1, <1>2, <1>3

LEMMA NextInv == ListingInv /\ [ListingNext]_listingVars => ListingInv'
<1> SUFFICES ASSUME ListingInv, [ListingNext]_listingVars PROVE ListingInv'
  OBVIOUS
<1>1. CASE Ask
  BY <1>1, ReadStep, RefuseStep DEF Ask
<1>2. CASE NotFound
  BY <1>2, NotFoundStep
<1>3. CASE Adapter
  BY <1>3, StatStep, FailStep, AnswerStep, BucketStep DEF Adapter
<1>4. CASE Environment
  BY <1>4, ComeStep, BackdateStep, RemoveStep, RemoveDirectoryStep DEF Environment
<1>5. CASE UNCHANGED listingVars
  <2>1. UNCHANGED <<View, ViewKeys>>
    BY <1>5 DEF listingVars, data, tree, call, history, View, ViewKeys
  <2>2. \A n \in Name : Rank(n)' = Rank(n)
    BY <2>1 DEF Rank, Before, Precedes
  <2>3. wanted \subseteq Name
    BY DEF ListingInv, ListingTypeOK
  <2> QED BY <1>5, <2>2, <2>3 DEF listingVars, data, tree, call, history, ListingInv, ListingTypeOK,
            CallInv, TableInv, BucketInv, MissInv, RepeatInv, OffsetInv, FollowedPageIsAnswered, CommandUnreadable
<1> QED BY <1>1, <1>2, <1>3, <1>4, <1>5 DEF ListingNext

THEOREM ListingInductive == ListingSpec => []ListingInv
BY InitInv, NextInv, PTL DEF ListingSpec

-----------------------------------------------------------------------------
(* Whatever is created or written while an agent walks through a directory, *)
(* it is shown every entry nobody touched, as long as nothing recedes.      *)
THEOREM NothingIsMissed == ListingSpec => []UntouchedIsNotMissed
<1>1. ListingInv => UntouchedIsNotMissed
  BY DEF ListingInv, MissInv, UntouchedIsNotMissed
<1> QED BY <1>1, ListingInductive, PTL

(* And whatever is removed, it is shown nothing twice, as long as nothing   *)
(* comes or moves.                                                          *)
THEOREM NothingIsRepeated == ListingSpec => []RemovalsDoNotRepeat
<1>1. ListingInv => RemovalsDoNotRepeat
  BY DEF ListingInv, RepeatInv, RemovalsDoNotRepeat
<1> QED BY <1>1, ListingInductive, PTL

(* However long a table is and whatever its filter selects, the offset and  *)
(* the size that an answer names for the next page are accepted; only a     *)
(* filter of two words makes the command unreadable.                        *)
THEOREM OffsetsAreAccepted == ListingSpec => []FollowedPageIsAnswered
<1>1. ListingInv => FollowedPageIsAnswered
  BY DEF ListingInv, OffsetInv
<1> QED BY <1>1, ListingInductive, PTL

=============================================================================
