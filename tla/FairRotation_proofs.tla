-------------------------- MODULE FairRotation_proofs --------------------------
(***************************************************************************)
(* Proofs about FairRotation, for every set of accounts.                   *)
(***************************************************************************)
EXTENDS FairRotation, Integers, FiniteSetTheorems, TLAPS

(* The turns owed have a first: of every set of accounts, somebody whom    *)
(* nobody in the set is owed a turn before.                                *)
NoCircularWait ==
  \A S \in SUBSET Account :
    S # {} => \E c \in S : \A a \in S : <<a, c>> \notin owed

(* Being served puts c last, and leaves a first in every set.              *)
LEMMA ServeKeepsOrder ==
  ASSUME NoCircularWait, NEW c \in Account, NEW skip, Serve(c, skip)
  PROVE  NoCircularWait'
<1> SUFFICES ASSUME NEW S \in SUBSET Account, S # {}
             PROVE  \E d \in S : \A a \in S : <<a, d>> \notin owed'
  BY DEF NoCircularWait
<1>1. \A a, d : <<a, d>> \in owed' =>
        a # c /\ (d = c \/ <<a, d>> \in owed)
  BY DEF Serve
<1>2. CASE S \subseteq {c}
  BY <1>1, <1>2
<1>3. CASE ~(S \subseteq {c})
  <2>1. PICK d \in S \ {c} : \A a \in S \ {c} : <<a, d>> \notin owed
    BY <1>3 DEF NoCircularWait
  <2>2. \A a \in S : <<a, d>> \notin owed'
    BY <1>1, <2>1
  <2> QED
    BY <2>1, <2>2
<1> QED
  BY <1>2, <1>3

(* Whoever comes back is first: nobody is owed a turn before it.           *)
LEMMA FollowKeepsOrder ==
  ASSUME NoCircularWait, NEW listed, Follow(listed)
  PROVE  NoCircularWait'
<1> SUFFICES ASSUME NEW S \in SUBSET Account, S # {}
             PROVE  \E d \in S : \A a \in S : <<a, d>> \notin owed'
  BY DEF NoCircularWait
<1> DEFINE gone == members \ listed
<1>1. \A a, d : <<a, d>> \in owed' =>
        d \notin gone /\ (a \in gone \/ <<a, d>> \in owed)
  BY DEF Follow
<1>2. CASE S \cap gone # {}
  BY <1>1, <1>2
<1>3. CASE S \cap gone = {}
  <2>1. PICK d \in S : \A a \in S : <<a, d>> \notin owed
    BY DEF NoCircularWait
  <2> QED
    BY <1>1, <1>3, <2>1
<1> QED
  BY <1>2, <1>3

LEMMA OrderInit == Init => NoCircularWait
BY DEF Init, NoCircularWait

LEMMA OrderStep == NoCircularWait /\ [Next]_vars => NoCircularWait'
<1> SUFFICES ASSUME NoCircularWait, [Next]_vars
             PROVE  NoCircularWait'
  OBVIOUS
<1>1. ASSUME NEW listed, Fill(listed)
      PROVE  NoCircularWait'
  BY <1>1 DEF Fill, NoCircularWait
<1>2. CASE UNCHANGED owed
  BY <1>2 DEF NoCircularWait
<1> QED
  BY <1>1, <1>2, ServeKeepsOrder, FollowKeepsOrder DEF Next, Favour, Rest, Wake, vars

(* The abstract order always has a first, as the smallest of the numbers  *)
(* in select_skip is; SomebodyIsNext below needs it.                       *)
LEMMA OrderHasAFirst == Spec => []NoCircularWait
BY OrderInit, OrderStep, PTL DEF Spec

-----------------------------------------------------------------------------
(* A caller that refuses skip can be given c.                              *)
MayServe(c, skip) ==
  /\ c \in Ready(skip)
  /\ favourite \in Ready(skip) => c = favourite
  /\ c = favourite \/ \A a \in Ready(skip) : <<a, c>> \notin owed

(* Every caller for whom somebody is ready is given somebody.              *)
SomebodyIsNext ==
  \A skip \in SUBSET Account : Ready(skip) # {} => \E c \in Ready(skip) : MayServe(c, skip)

LEMMA MembersStep == members \subseteq Account /\ [Next]_vars => (members \subseteq Account)'
BY DEF Next, vars, Serve, Follow, Fill, Favour, Rest, Wake

(* select_skip refuses nobody while an account is ready that the caller    *)
(* has not refused: there always is one that may be served next.           *)
THEOREM NobodyIsRefused == Spec => []SomebodyIsNext
<1>1. Init => members \subseteq Account
  BY DEF Init
<1>2. Spec => [](members \subseteq Account)
  BY <1>1, MembersStep, PTL DEF Spec
<1>3. members \subseteq Account /\ NoCircularWait => SomebodyIsNext
  <2> SUFFICES ASSUME members \subseteq Account, NoCircularWait,
                      NEW skip \in SUBSET Account, Ready(skip) # {}
               PROVE  \E c \in Ready(skip) : MayServe(c, skip)
    BY DEF SomebodyIsNext
  <2>1. CASE favourite \in Ready(skip)
    BY <2>1 DEF MayServe
  <2>2. CASE favourite \notin Ready(skip)
    <3>1. Ready(skip) \in SUBSET Account
      BY DEF Ready
    <3> QED
      BY <2>2, <3>1 DEF MayServe, NoCircularWait
  <2> QED
    BY <2>1, <2>2
<1> QED
  BY <1>2, <1>3, OrderHasAFirst, PTL

-----------------------------------------------------------------------------
(* The members that may still be served before a.                          *)
Ahead(a) == {b \in members \ {a} : <<a, b>> \notin owed}

Settled == /\ members \subseteq Account
           /\ ~filled => members = {}

LEMMA SettledStep == Settled /\ [Next]_vars => Settled'
BY DEF Settled, Next, vars, Serve, Follow, Fill, Favour, Rest, Wake, Ready

LEMMA ServeNearer ==
  ASSUME Settled, NEW a \in members, NEW c \in Account, NEW skip, Serve(c, skip)
  PROVE  /\ c # a => Ahead(a)' = Ahead(a) \ {c}
         /\ c # a /\ a \in Ready(skip) /\ favourite \notin Ready(skip) => c \in Ahead(a)
<1>1. c # a => \A b \in members : (<<a, b>> \in owed' <=> <<a, b>> \in owed \/ b = c)
  <2> SUFFICES ASSUME c # a, NEW b \in members
               PROVE  <<a, b>> \in owed' <=> <<a, b>> \in owed \/ b = c
    OBVIOUS
  <2>1. a \in Account
    BY DEF Settled
  <2>2. <<a, b>> \in {p \in owed : p[1] # c} <=> <<a, b>> \in owed
    OBVIOUS
  <2>3. <<a, b>> \in (Account \ {c}) \X {c} <=> b = c
    BY <2>1
  <2> QED
    BY <2>2, <2>3 DEF Serve
<1>2. c # a => Ahead(a)' = Ahead(a) \ {c}
  BY <1>1 DEF Serve, Ahead
<1>3. c # a /\ a \in Ready(skip) /\ favourite \notin Ready(skip) => c \in Ahead(a)
  BY DEF Serve, Ahead, Ready
<1> QED
  BY <1>2, <1>3

(* With the membership settled, nobody gets ahead of a but by a's turn.    *)
LEMMA NobodyCutsIn ==
  ASSUME Settled, [Next]_vars, UNCHANGED members, NEW a \in members
  PROVE  Ahead(a)' \subseteq Ahead(a) \/ \E skip \in SUBSET Account : Serve(a, skip)
<1>1. CASE UNCHANGED owed
  BY <1>1 DEF Ahead
<1>2. ASSUME NEW c \in Account, NEW skip \in SUBSET Account, Serve(c, skip), c # a
      PROVE  Ahead(a)' \subseteq Ahead(a)
  BY <1>2, ServeNearer
<1>3. ASSUME NEW listed, Follow(listed)
      PROVE  owed' = owed
  BY <1>3 DEF Follow
<1>4. ASSUME NEW listed, Fill(listed)
      PROVE  FALSE
  BY <1>4 DEF Fill, Settled
<1> QED
  BY <1>1, <1>2, <1>3, <1>4 DEF Next, vars, Favour, Rest, Wake

(* How long a caller may be made to wait: while the membership is settled, *)
(* no step but a's own turn lets anybody get ahead of a, and every turn    *)
(* that another account is given, with a ready, not refused and nobody     *)
(* pinned, leaves one account fewer ahead of it.  So after fewer turns     *)
(* than there are members it is a's, whatever rests, wakes and is skipped  *)
(* meanwhile; this is what lib.rs:275-285 sorts by the numbers for.        *)
THEOREM OvertakingIsBounded ==
  ASSUME IsFiniteSet(Account)
  PROVE  Spec =>
    /\ [](\A a \in members : Cardinality(Ahead(a)) < Cardinality(members))
    /\ [][members' = members =>
            \A a \in members :
              /\ \/ Ahead(a)' \subseteq Ahead(a)
                 \/ \E skip \in SUBSET Account : Serve(a, skip)
              /\ \A c \in Account \ {a}, skip \in SUBSET Account :
                   Serve(c, skip) /\ a \in Ready(skip) /\ favourite \notin Ready(skip)
                     => Cardinality(Ahead(a)') = Cardinality(Ahead(a)) - 1]_vars
<1> DEFINE Short == \A a \in members : Cardinality(Ahead(a)) < Cardinality(members)
           Nearer ==
             members' = members =>
               \A a \in members :
                 /\ \/ Ahead(a)' \subseteq Ahead(a)
                    \/ \E skip \in SUBSET Account : Serve(a, skip)
                 /\ \A c \in Account \ {a}, skip \in SUBSET Account :
                      Serve(c, skip) /\ a \in Ready(skip) /\ favourite \notin Ready(skip)
                        => Cardinality(Ahead(a)') = Cardinality(Ahead(a)) - 1
<1>1. Init => Settled
  BY DEF Init, Settled
<1>2. Settled => Short
  <2> SUFFICES ASSUME Settled, NEW a \in members
               PROVE  Cardinality(Ahead(a)) < Cardinality(members)
    OBVIOUS
  <2>1. /\ IsFiniteSet(members) /\ IsFiniteSet(members \ {a}) /\ IsFiniteSet(Ahead(a))
        /\ Ahead(a) \subseteq members \ {a}
    BY FS_Subset DEF Settled, Ahead
  <2>2. Cardinality(members \ {a}) = Cardinality(members) - 1
    BY <2>1, FS_RemoveElement
  <2>3. Cardinality(Ahead(a)) <= Cardinality(members \ {a})
    BY <2>1, FS_Subset
  <2>4. Cardinality(Ahead(a)) \in Nat /\ Cardinality(members) \in Nat
    BY <2>1, FS_CardinalityType
  <2> QED
    BY <2>2, <2>3, <2>4
<1>3. Settled /\ [Next]_vars => [Nearer]_vars
  <2> SUFFICES ASSUME Settled, [Next]_vars, members' = members, NEW a \in members
               PROVE  /\ \/ Ahead(a)' \subseteq Ahead(a)
                         \/ \E skip \in SUBSET Account : Serve(a, skip)
                      /\ \A c \in Account \ {a}, skip \in SUBSET Account :
                           Serve(c, skip) /\ a \in Ready(skip) /\ favourite \notin Ready(skip)
                             => Cardinality(Ahead(a)') = Cardinality(Ahead(a)) - 1
    OBVIOUS
  <2>1. IsFiniteSet(Ahead(a))
    BY FS_Subset DEF Settled, Ahead
  <2>2. ASSUME NEW c \in Account \ {a}, NEW skip \in SUBSET Account,
               Serve(c, skip), a \in Ready(skip), favourite \notin Ready(skip)
        PROVE  Cardinality(Ahead(a)') = Cardinality(Ahead(a)) - 1
    <3>1. Ahead(a)' = Ahead(a) \ {c} /\ c \in Ahead(a)
      BY <2>2, ServeNearer
    <3> QED
      BY <2>1, <3>1, FS_RemoveElement
  <2> QED
    BY <2>2, NobodyCutsIn
<1> HIDE DEF Short, Nearer
<1>4. Spec => []Short /\ [][Nearer]_vars
  BY <1>1, <1>2, <1>3, SettledStep, PTL DEF Spec
<1> QED
  BY <1>4 DEF Short, Nearer
=============================================================================
