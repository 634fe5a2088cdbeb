------------------------- MODULE CplTimelineProofs -------------------------
(***************************************************************************)
(* The playlist of CplEditor is a Timeline: every drop, delete, save and   *)
(* opening is one step of it, for every set of segments, sequences,        *)
(* virtual tracks and resources.                                           *)
(***************************************************************************)
EXTENDS CplEditorProofs

-----------------------------------------------------------------------------
(* Sequences with an element put in or taken out.                          *)

LEMMA InsertAtElements ==
    ASSUME NEW S, NEW list \in Seq(S), NEW i \in 1..Len(list) + 1, NEW x \in S
    PROVE  /\ InsertAt(list, i, x) \in Seq(S)
           /\ Len(InsertAt(list, i, x)) = Len(list) + 1
           /\ \A k \in 1..Len(list) + 1 :
                 InsertAt(list, i, x)[k] = IF k < i THEN list[k] ELSE IF k = i THEN x ELSE list[k - 1]
<1> DEFINE a == SubSeq(list, 1, i - 1)
           b == SubSeq(list, i, Len(list))
           ax == a \o <<x>>
<1>1. Len(list) \in Nat /\ \A k \in 1..Len(list) : list[k] \in S
  BY ListElements
<1>2. /\ a \in Seq(S) /\ Len(a) = i - 1
      /\ \A k \in 1..i - 1 : a[k] = list[k]
  <2>1. 1 \in Int /\ i - 1 \in Int /\ \A k \in 1..i - 1 : list[k] \in S
    BY <1>1
  <2>2. /\ a \in Seq(S) /\ Len(a) = (IF 1 <= i - 1 THEN (i - 1) - 1 + 1 ELSE 0)
        /\ \A k \in 1..((i - 1) - 1 + 1) : a[k] = list[1 + k - 1]
    BY <2>1, SubSeqProperties
  <2> QED BY <1>1, <2>2
<1>3. /\ b \in Seq(S) /\ Len(b) = Len(list) + 1 - i
      /\ \A k \in 1..Len(list) + 1 - i : b[k] = list[i + k - 1]
  <2>1. i \in Int /\ Len(list) \in Int /\ \A k \in i..Len(list) : list[k] \in S
    BY <1>1
  <2>2. /\ b \in Seq(S) /\ Len(b) = (IF i <= Len(list) THEN Len(list) - i + 1 ELSE 0)
        /\ \A k \in 1..(Len(list) - i + 1) : b[k] = list[i + k - 1]
    BY <2>1, SubSeqProperties
  <2> QED BY <1>1, <2>2
<1> HIDE DEF a, b
<1>4. <<x>> \in Seq(S) /\ Len(<<x>>) = 1 /\ <<x>>[1] = x
  OBVIOUS
<1>5. /\ ax \in Seq(S) /\ Len(ax) = i
      /\ \A k \in 1..i : ax[k] = IF k < i THEN list[k] ELSE x
  <2>1. /\ ax \in Seq(S) /\ Len(ax) = Len(a) + Len(<<x>>)
        /\ \A k \in 1..Len(a) + Len(<<x>>) : ax[k] = IF k <= Len(a) THEN a[k] ELSE <<x>>[k - Len(a)]
    BY <1>2, <1>4, ConcatProperties
  <2> HIDE DEF ax
  <2>2. Len(ax) = i
    BY <1>1, <1>2, <1>4, <2>1
  <2>3. ASSUME NEW k \in 1..i PROVE ax[k] = IF k < i THEN list[k] ELSE x
    <3>1. ax[k] = IF k <= Len(a) THEN a[k] ELSE <<x>>[k - Len(a)]
      BY <1>1, <1>2, <1>4, <2>1
    <3>2. CASE k < i
      BY <1>1, <1>2, <3>1, <3>2
    <3>3. CASE k = i
      <4>1. k - Len(a) = 1 /\ ~(k <= Len(a))
        BY <1>1, <1>2, <3>3
      <4> QED BY <1>4, <3>1, <3>3, <4>1
    <3> QED BY <1>1, <3>2, <3>3
  <2> QED BY <2>1, <2>2, <2>3
<1> HIDE DEF ax
<1>6. /\ ax \o b \in Seq(S) /\ Len(ax \o b) = Len(ax) + Len(b)
      /\ \A k \in 1..Len(ax) + Len(b) : (ax \o b)[k] = IF k <= Len(ax) THEN ax[k] ELSE b[k - Len(ax)]
  BY <1>3, <1>5, ConcatProperties
<1>7. Len(ax \o b) = Len(list) + 1
  BY <1>1, <1>3, <1>5, <1>6
<1>8. ASSUME NEW k \in 1..Len(list) + 1
      PROVE  (ax \o b)[k] = IF k < i THEN list[k] ELSE IF k = i THEN x ELSE list[k - 1]
  <2>1. (ax \o b)[k] = IF k <= i THEN ax[k] ELSE b[k - i]
    BY <1>1, <1>3, <1>5, <1>6
  <2>2. CASE k <= i
    BY <1>1, <1>5, <2>1, <2>2
  <2>3. CASE ~(k <= i)
    <3>1. k - i \in 1..Len(list) + 1 - i /\ i + (k - i) - 1 = k - 1 /\ ~(k < i) /\ k # i
      BY <1>1, <2>3
    <3>2. b[k - i] = list[i + (k - i) - 1]
      BY <1>3, <3>1, Zenon
    <3> QED BY <2>1, <2>3, <3>1, <3>2
  <2> QED BY <2>2, <2>3
<1>9. InsertAt(list, i, x) = ax \o b
  BY DEF InsertAt, a, b, ax
<1> QED BY <1>6, <1>7, <1>8, <1>9

LEMMA RemoveAtElements ==
    ASSUME NEW S, NEW list \in Seq(S), NEW i \in 1..Len(list)
    PROVE  /\ RemoveAt(list, i) \in Seq(S)
           /\ Len(RemoveAt(list, i)) = Len(list) - 1
           /\ \A k \in 1..Len(list) - 1 : RemoveAt(list, i)[k] = IF k < i THEN list[k] ELSE list[k + 1]
<1> DEFINE a == SubSeq(list, 1, i - 1)
           b == SubSeq(list, i + 1, Len(list))
<1>1. Len(list) \in Nat /\ \A k \in 1..Len(list) : list[k] \in S
  BY ListElements
<1>2. /\ a \in Seq(S) /\ Len(a) = i - 1
      /\ \A k \in 1..i - 1 : a[k] = list[k]
  <2>1. 1 \in Int /\ i - 1 \in Int /\ \A k \in 1..i - 1 : list[k] \in S
    BY <1>1
  <2>2. /\ a \in Seq(S) /\ Len(a) = (IF 1 <= i - 1 THEN (i - 1) - 1 + 1 ELSE 0)
        /\ \A k \in 1..((i - 1) - 1 + 1) : a[k] = list[1 + k - 1]
    BY <2>1, SubSeqProperties
  <2> QED BY <1>1, <2>2
<1>3. /\ b \in Seq(S) /\ Len(b) = Len(list) - i
      /\ \A k \in 1..Len(list) - i : b[k] = list[i + k]
  <2>1. i + 1 \in Int /\ Len(list) \in Int /\ \A k \in (i + 1)..Len(list) : list[k] \in S
    BY <1>1
  <2>2. /\ b \in Seq(S) /\ Len(b) = (IF i + 1 <= Len(list) THEN Len(list) - (i + 1) + 1 ELSE 0)
        /\ \A k \in 1..(Len(list) - (i + 1) + 1) : b[k] = list[(i + 1) + k - 1]
    BY <2>1, SubSeqProperties
  <2>3. ASSUME NEW k \in 1..Len(list) - i PROVE b[k] = list[i + k]
    <3>1. k \in 1..(Len(list) - (i + 1) + 1) /\ (i + 1) + k - 1 = i + k
      BY <1>1
    <3> QED BY <2>2, <3>1
  <2>4. Len(b) = Len(list) - i
    BY <1>1, <2>2
  <2> QED BY <2>2, <2>3, <2>4
<1> HIDE DEF a, b
<1>4. /\ a \o b \in Seq(S) /\ Len(a \o b) = Len(a) + Len(b)
      /\ \A k \in 1..Len(a) + Len(b) : (a \o b)[k] = IF k <= Len(a) THEN a[k] ELSE b[k - Len(a)]
  BY <1>2, <1>3, ConcatProperties
<1>5. Len(a \o b) = Len(list) - 1
  BY <1>1, <1>2, <1>3, <1>4
<1>6. ASSUME NEW k \in 1..Len(list) - 1
      PROVE  (a \o b)[k] = IF k < i THEN list[k] ELSE list[k + 1]
  <2>1. (a \o b)[k] = IF k <= i - 1 THEN a[k] ELSE b[k - (i - 1)]
    BY <1>1, <1>2, <1>3, <1>4
  <2>2. CASE k < i
    BY <1>1, <1>2, <2>1, <2>2
  <2>3. CASE ~(k < i)
    <3>1. k - (i - 1) \in 1..Len(list) - i /\ i + (k - (i - 1)) = k + 1 /\ ~(k <= i - 1)
      BY <1>1, <2>3
    <3>2. b[k - (i - 1)] = list[i + (k - (i - 1))]
      BY <1>3, <3>1, Zenon
    <3> QED BY <2>1, <2>3, <3>1, <3>2
  <2> QED BY <2>2, <2>3
<1>7. RemoveAt(list, i) = a \o b
  BY DEF RemoveAt, a, b
<1> QED BY <1>4, <1>5, <1>6, <1>7

-----------------------------------------------------------------------------
(* What a segment plays in each virtual track; Contents, segment by segment. *)

Played(seqs, trackOf, held) ==
    [v \in TrackIds |->
        LET here == {s \in Range(seqs) : trackOf[s] = v}
        IN  IF here = {} THEN <<>> ELSE held[CHOOSE s \in here : TRUE]]

SegmentContents == [TrackIds -> Seq(ResourceIds)]

Emptied == [w \in TrackIds |-> <<>>]

(* The segments in G play the same, before and after a step.               *)
SamePlayed(G, items, trackOf, held, items2, trackOf2, held2) ==
    \A g \in G : Played(items2[g], trackOf2, held2) = Played(items[g], trackOf, held)

(* No sequence but s changes its track or its resources.                   *)
OnlyChanged(s, trackOf, held, trackOf2, held2) ==
    \A t \in SequenceIds \ {s} : trackOf2[t] = trackOf[t] /\ held2[t] = held[t]

(* What a new segment plays: one resource in one track.                    *)
Single(v, r) == [Emptied EXCEPT ![v] = <<r>>]

(* A track of a segment that plays something else.                         *)
PlayedInstead(old, v, q) == [old EXCEPT ![v] = q]

(* Segment g has the one sequence s, the segments in G keep theirs.        *)
OnlySequence(s, g, G, items, items2) == items2[g] = <<s>> /\ \A h \in G : items2[h] = items[h]

OnePerTrack(seqs, trackOf) == \A s, t \in Range(seqs) : trackOf[s] = trackOf[t] => s = t

LEMMA PlayedTrack ==
    ASSUME NEW seqs, NEW trackOf, NEW held, OnePerTrack(seqs, trackOf),
           NEW s \in Range(seqs), trackOf[s] \in TrackIds
    PROVE  Played(seqs, trackOf, held)[trackOf[s]] = held[s]
<1> DEFINE here == {t \in Range(seqs) : trackOf[t] = trackOf[s]}
<1>1. here = {s}
  BY DEF OnePerTrack
<1>2. Played(seqs, trackOf, held)[trackOf[s]] = IF here = {} THEN <<>> ELSE held[CHOOSE t \in here : TRUE]
  BY DEF Played
<1>3. (CHOOSE t \in here : TRUE) = s
  BY <1>1
<1> QED BY <1>1, <1>2, <1>3

LEMMA SilentTrack ==
    ASSUME NEW seqs, NEW trackOf, NEW held, NEW v \in TrackIds, \A t \in Range(seqs) : trackOf[t] # v
    PROVE  Played(seqs, trackOf, held)[v] = <<>>
BY DEF Played

LEMMA PlayedTyped ==
    ASSUME NEW seqs, NEW trackOf, NEW held, Range(seqs) \subseteq SequenceIds,
           held \in [SequenceIds -> IdLists(ResourceIds)]
    PROVE  Played(seqs, trackOf, held) \in SegmentContents
<1> SUFFICES ASSUME NEW v \in TrackIds PROVE Played(seqs, trackOf, held)[v] \in Seq(ResourceIds)
  BY DEF Played, SegmentContents
<1> DEFINE here == {t \in Range(seqs) : trackOf[t] = v}
<1>1. Played(seqs, trackOf, held)[v] = IF here = {} THEN <<>> ELSE held[CHOOSE t \in here : TRUE]
  BY DEF Played
<1>2. CASE here = {}
  BY <1>1, <1>2, EmptyList DEF IdLists
<1>3. CASE here # {}
  <2>1. (CHOOSE t \in here : TRUE) \in here
    BY <1>3
  <2>2. (CHOOSE t \in here : TRUE) \in SequenceIds
    BY <2>1
  <2>3. held[CHOOSE t \in here : TRUE] \in IdLists(ResourceIds)
    BY <2>2
  <2> QED BY <1>1, <1>3, <2>3 DEF IdLists
<1> QED BY <1>2, <1>3

(* Only the sequences of the segment matter to it.                         *)
LEMMA PlayedSame ==
    ASSUME NEW seqs, NEW trackOf, NEW held, NEW trackOf2, NEW held2,
           \A s \in Range(seqs) : trackOf2[s] = trackOf[s] /\ held2[s] = held[s]
    PROVE  Played(seqs, trackOf2, held2) = Played(seqs, trackOf, held)
<1> SUFFICES ASSUME NEW v \in TrackIds
             PROVE  Played(seqs, trackOf2, held2)[v] = Played(seqs, trackOf, held)[v]
  BY DEF Played
<1> DEFINE here == {t \in Range(seqs) : trackOf[t] = v}
           here2 == {t \in Range(seqs) : trackOf2[t] = v}
<1>1. here2 = here
  OBVIOUS
<1>2. /\ Played(seqs, trackOf, held)[v] = IF here = {} THEN <<>> ELSE held[CHOOSE t \in here : TRUE]
      /\ Played(seqs, trackOf2, held2)[v] = IF here2 = {} THEN <<>> ELSE held2[CHOOSE t \in here2 : TRUE]
  BY DEF Played
<1>3. Played(seqs, trackOf2, held2)[v] = IF here = {} THEN <<>> ELSE held2[CHOOSE t \in here : TRUE]
  BY <1>1, <1>2
<1>4. here # {} => (CHOOSE t \in here : TRUE) \in Range(seqs)
  <2>1. here # {} => (CHOOSE t \in here : TRUE) \in here
    OBVIOUS
  <2> QED BY <2>1
<1> HIDE DEF here, here2
<1> QED BY <1>2, <1>3, <1>4

(* A sequence with other resources.                                        *)
LEMMA PlayedChange ==
    ASSUME NEW seqs, NEW trackOf, NEW held, OnePerTrack(seqs, trackOf), Range(seqs) \subseteq SequenceIds,
           NEW s \in Range(seqs), trackOf[s] \in TrackIds,
           NEW held2, OnlyChanged(s, trackOf, held, trackOf, held2)
    PROVE  Played(seqs, trackOf, held2) = PlayedInstead(Played(seqs, trackOf, held), trackOf[s], held2[s])
<1> DEFINE new == Played(seqs, trackOf, held2)
           old == Played(seqs, trackOf, held)
<1>1. DOMAIN new = TrackIds /\ DOMAIN old = TrackIds /\ new = [v \in TrackIds |-> new[v]]
  BY DEF Played
<1>2. \A t \in Range(seqs) : t # s => held2[t] = held[t]
  BY DEF OnlyChanged
<1>3. new[trackOf[s]] = held2[s]
  BY PlayedTrack
<1>4. ASSUME NEW v \in TrackIds, v # trackOf[s] PROVE new[v] = old[v]
  <2>1. CASE \A t \in Range(seqs) : trackOf[t] # v
    BY <2>1, SilentTrack
  <2>2. CASE \E t \in Range(seqs) : trackOf[t] = v
    <3>1. PICK t \in Range(seqs) : trackOf[t] = v
      BY <2>2
    <3>2. trackOf[t] \in TrackIds
      BY <3>1
    <3>3. Played(seqs, trackOf, held2)[trackOf[t]] = held2[t]
      BY <3>2, PlayedTrack
    <3>4. Played(seqs, trackOf, held)[trackOf[t]] = held[t]
      BY <3>2, PlayedTrack
    <3> QED BY <1>2, <1>4, <3>1, <3>3, <3>4
  <2> QED BY <2>1, <2>2
<1> HIDE DEF new, old
<1>5. new = PlayedInstead(old, trackOf[s], held2[s])
  BY <1>1, <1>3, <1>4 DEF PlayedInstead
<1> QED BY <1>5 DEF new, old

LEMMA ContentsElements ==
    ASSUME NEW list, NEW items, NEW trackOf, NEW held, Sound(list, items, trackOf, held)
    PROVE  /\ Contents(list, items, trackOf, held) \in Seq(SegmentContents)
           /\ Len(Contents(list, items, trackOf, held)) = Len(list)
           /\ \A k \in 1..Len(list) :
                 Contents(list, items, trackOf, held)[k] = Played(items[list[k]], trackOf, held)
<1> DEFINE all == Contents(list, items, trackOf, held)
           n == Len(list)
<1>1. /\ list \in Seq(SegmentIds) /\ n \in Nat
      /\ \A k \in 1..n : list[k] \in SegmentIds
      /\ \A g \in SegmentIds : Range(items[g]) \subseteq SequenceIds
      /\ held \in [SequenceIds -> IdLists(ResourceIds)]
  <2>1. list \in Seq(SegmentIds) /\ held \in [SequenceIds -> IdLists(ResourceIds)]
    BY DEF Sound, ObjectsTyped, IdLists
  <2> QED BY <2>1, SoundFacts, ListElements
<1>2. all = [k \in 1..n |-> Played(items[list[k]], trackOf, held)]
  BY DEF Contents, Played
<1>3. ASSUME NEW k \in 1..n PROVE Played(items[list[k]], trackOf, held) \in SegmentContents
  <2>1. Range(items[list[k]]) \subseteq SequenceIds
    BY <1>1
  <2> QED BY <1>1, <2>1, PlayedTyped
<1> HIDE DEF all, n
<1>4. all \in [1..n -> SegmentContents]
  BY <1>2, <1>3
<1>5. all \in Seq(SegmentContents)
  BY <1>1, <1>4, SeqDef
<1>6. Len(all) \in Nat /\ DOMAIN all = 1..Len(all)
  BY <1>5, LenProperties
<1>7. Len(all) = n
  BY <1>1, <1>4, <1>6
<1> QED BY <1>2, <1>5, <1>7 DEF all, n

(* One segment of the playlist plays something else.                       *)
LEMMA ContentsChange ==
    ASSUME NEW list, NEW items, NEW trackOf, NEW held, Sound(list, items, trackOf, held),
           NEW items2, NEW trackOf2, NEW held2, Sound(list, items2, trackOf2, held2),
           NEW i \in 1..Len(list),
           SamePlayed(Range(list) \ {list[i]}, items, trackOf, held, items2, trackOf2, held2)
    PROVE  Contents(list, items2, trackOf2, held2)
               = [Contents(list, items, trackOf, held) EXCEPT ![i] = Played(items2[list[i]], trackOf2, held2)]
<1> DEFINE old == Contents(list, items, trackOf, held)
           new == Contents(list, items2, trackOf2, held2)
           x == Played(items2[list[i]], trackOf2, held2)
<1>1. /\ list \in Seq(SegmentIds) /\ Len(list) \in Nat
      /\ \A k \in 1..Len(list) : list[k] \in Range(list)
      /\ \A k, l \in 1..Len(list) : list[k] = list[l] => k = l
  <2>1. list \in Seq(SegmentIds) /\ IsInjective(list)
    BY DEF Sound, ObjectsTyped, IdLists
  <2> QED BY <2>1, ListElements DEF IsInjective
<1>2. /\ DOMAIN old = 1..Len(list) /\ new = [k \in 1..Len(list) |-> new[k]]
      /\ \A k \in 1..Len(list) : old[k] = Played(items[list[k]], trackOf, held)
      /\ \A k \in 1..Len(list) : new[k] = Played(items2[list[k]], trackOf2, held2)
  <2>1. /\ \A k \in 1..Len(list) : old[k] = Played(items[list[k]], trackOf, held)
        /\ \A k \in 1..Len(list) : new[k] = Played(items2[list[k]], trackOf2, held2)
    BY ContentsElements
  <2>2. DOMAIN old = 1..Len(list) /\ new = [k \in 1..Len(list) |-> new[k]]
    BY DEF Contents
  <2> QED BY <2>1, <2>2
<1>3. ASSUME NEW k \in 1..Len(list), k # i PROVE new[k] = old[k]
  <2>1. list[k] \in Range(list) \ {list[i]}
    BY <1>1, <1>3
  <2> QED BY <1>2, <2>1 DEF SamePlayed
<1>4. new[i] = x
  BY <1>2
<1> HIDE DEF old, new, x
<1>5. new = [old EXCEPT ![i] = x]
  BY <1>2, <1>3, <1>4
<1> QED BY <1>5 DEF old, new, x

(* A segment comes.                                                        *)
LEMMA ContentsInsert ==
    ASSUME NEW list, NEW items, NEW trackOf, NEW held, Sound(list, items, trackOf, held),
           NEW list2, NEW items2, NEW trackOf2, NEW held2, Sound(list2, items2, trackOf2, held2),
           NEW i \in 1..Len(list) + 1, NEW g \in SegmentIds, list2 = InsertAt(list, i, g),
           SamePlayed(Range(list), items, trackOf, held, items2, trackOf2, held2)
    PROVE  Contents(list2, items2, trackOf2, held2)
               = InsertAt(Contents(list, items, trackOf, held), i, Played(items2[g], trackOf2, held2))
<1> DEFINE old == Contents(list, items, trackOf, held)
           new == Contents(list2, items2, trackOf2, held2)
           mine == Played(items2[g], trackOf2, held2)
           n == Len(list)
<1>1. /\ list \in Seq(SegmentIds) /\ n \in Nat
      /\ \A k \in 1..n : list[k] \in Range(list)
  <2>1. list \in Seq(SegmentIds)
    BY DEF Sound, ObjectsTyped, IdLists
  <2> QED BY <2>1, ListElements
<1>2. /\ Len(list2) = n + 1
      /\ \A k \in 1..n + 1 : list2[k] = IF k < i THEN list[k] ELSE IF k = i THEN g ELSE list[k - 1]
  <2>1. list \in Seq(SegmentIds) /\ i \in 1..Len(list) + 1 /\ g \in SegmentIds
    BY <1>1
  <2>2. Len(InsertAt(list, i, g)) = Len(list) + 1
    BY <2>1, InsertAtElements
  <2>3. ASSUME NEW k \in 1..Len(list) + 1
        PROVE  InsertAt(list, i, g)[k] = IF k < i THEN list[k] ELSE IF k = i THEN g ELSE list[k - 1]
    <3> HIDE DEF old, new, mine, n
    <3> QED BY <2>1, InsertAtElements, SMTT(30)
  <2> QED BY <2>2, <2>3
<1>3. /\ old \in Seq(SegmentContents) /\ Len(old) = n
      /\ \A k \in 1..n : old[k] = Played(items[list[k]], trackOf, held)
  BY ContentsElements
<1>4. /\ new \in Seq(SegmentContents) /\ Len(new) = n + 1
      /\ \A k \in 1..n + 1 : new[k] = Played(items2[list2[k]], trackOf2, held2)
  BY <1>2, ContentsElements
<1>5. new[i] = mine /\ mine \in SegmentContents
  <2>1. new[i] = mine
    BY <1>1, <1>2, <1>4
  <2>2. new[i] \in SegmentContents
    BY <1>1, <1>4, ListElements
  <2> QED BY <2>1, <2>2
<1>6. ASSUME NEW k \in 1..n PROVE Played(items2[list[k]], trackOf2, held2) = old[k]
  BY <1>1, <1>3 DEF SamePlayed
<1> HIDE DEF old, new, mine
<1>7. /\ InsertAt(old, i, mine) \in Seq(SegmentContents) /\ Len(InsertAt(old, i, mine)) = n + 1
      /\ \A k \in 1..n + 1 : InsertAt(old, i, mine)[k] = IF k < i THEN old[k] ELSE IF k = i THEN mine ELSE old[k - 1]
  <2>1. i \in 1..Len(old) + 1
    BY <1>3
  <2>2. InsertAt(old, i, mine) \in Seq(SegmentContents) /\ Len(InsertAt(old, i, mine)) = Len(old) + 1
    BY <1>3, <1>5, <2>1, InsertAtElements
  <2>3. \A k \in 1..Len(old) + 1 :
              InsertAt(old, i, mine)[k] = IF k < i THEN old[k] ELSE IF k = i THEN mine ELSE old[k - 1]
    BY <1>3, <1>5, <2>1, InsertAtElements
  <2> QED BY <1>3, <2>2, <2>3
<1>8. ASSUME NEW k \in 1..n + 1 PROVE new[k] = InsertAt(old, i, mine)[k]
  <2>1. CASE k < i
    <3>1. k \in 1..n
      BY <1>1, <2>1
    <3>2. new[k] = Played(items2[list[k]], trackOf2, held2)
      BY <1>2, <1>4, <2>1
    <3> QED BY <1>6, <1>7, <2>1, <3>1, <3>2
  <2>2. CASE k = i
    BY <1>5, <1>7, <2>2
  <2>3. CASE ~(k < i) /\ k # i
    <3>1. k - 1 \in 1..n
      BY <1>1, <2>3
    <3>2. new[k] = Played(items2[list[k - 1]], trackOf2, held2)
      BY <1>2, <1>4, <2>3
    <3> QED BY <1>6, <1>7, <2>3, <3>1, <3>2
  <2> QED BY <2>1, <2>2, <2>3
<1>9. new = InsertAt(old, i, mine)
  BY <1>4, <1>7, <1>8, SeqEqual
<1> QED BY <1>9 DEF old, new, mine

(* A segment goes.                                                         *)
LEMMA ContentsRemove ==
    ASSUME NEW list, NEW items, NEW trackOf, NEW held, Sound(list, items, trackOf, held),
           NEW list2, NEW items2, NEW trackOf2, NEW held2, Sound(list2, items2, trackOf2, held2),
           NEW i \in 1..Len(list), list2 = RemoveAt(list, i),
           SamePlayed(Range(list) \ {list[i]}, items, trackOf, held, items2, trackOf2, held2)
    PROVE  Contents(list2, items2, trackOf2, held2) = RemoveAt(Contents(list, items, trackOf, held), i)
<1> DEFINE old == Contents(list, items, trackOf, held)
           new == Contents(list2, items2, trackOf2, held2)
           n == Len(list)
<1>1. /\ list \in Seq(SegmentIds) /\ n \in Nat
      /\ \A k \in 1..n : list[k] \in Range(list)
      /\ \A k, l \in 1..n : list[k] = list[l] => k = l
  <2>1. list \in Seq(SegmentIds) /\ IsInjective(list)
    BY DEF Sound, ObjectsTyped, IdLists
  <2> QED BY <2>1, ListElements DEF IsInjective
<1>2. /\ Len(list2) = n - 1
      /\ \A k \in 1..n - 1 : list2[k] = IF k < i THEN list[k] ELSE list[k + 1]
  BY <1>1, RemoveAtElements
<1>3. /\ old \in Seq(SegmentContents) /\ Len(old) = n
      /\ \A k \in 1..n : old[k] = Played(items[list[k]], trackOf, held)
  BY ContentsElements
<1>4. /\ new \in Seq(SegmentContents) /\ Len(new) = n - 1
      /\ \A k \in 1..n - 1 : new[k] = Played(items2[list2[k]], trackOf2, held2)
  BY <1>2, ContentsElements
<1>5. ASSUME NEW k \in 1..n, k # i PROVE Played(items2[list[k]], trackOf2, held2) = old[k]
  <2>1. list[k] \in Range(list) \ {list[i]}
    BY <1>1, <1>5
  <2> QED BY <1>3, <2>1 DEF SamePlayed
<1> HIDE DEF old, new
<1>6. /\ RemoveAt(old, i) \in Seq(SegmentContents) /\ Len(RemoveAt(old, i)) = n - 1
      /\ \A k \in 1..n - 1 : RemoveAt(old, i)[k] = IF k < i THEN old[k] ELSE old[k + 1]
  BY <1>3, RemoveAtElements
<1>7. ASSUME NEW k \in 1..n - 1 PROVE new[k] = RemoveAt(old, i)[k]
  <2>1. CASE k < i
    <3>1. k \in 1..n /\ k # i
      BY <1>1, <2>1
    <3>2. new[k] = Played(items2[list[k]], trackOf2, held2)
      BY <1>2, <1>4, <2>1
    <3> QED BY <1>5, <1>6, <2>1, <3>1, <3>2
  <2>2. CASE ~(k < i)
    <3>1. k + 1 \in 1..n /\ k + 1 # i
      BY <1>1, <2>2
    <3>2. new[k] = Played(items2[list[k + 1]], trackOf2, held2)
      BY <1>2, <1>4, <2>2
    <3> QED BY <1>5, <1>6, <2>2, <3>1, <3>2
  <2> QED BY <2>1, <2>2
<1>8. new = RemoveAt(old, i)
  BY <1>4, <1>6, <1>7, SeqEqual
<1> QED BY <1>8 DEF old, new

(* A segment without the sequence that changes plays what it did.          *)
LEMMA OtherSegment ==
    ASSUME NEW list, NEW items, NEW trackOf, NEW held, Sound(list, items, trackOf, held),
           NEW items2, NEW trackOf2, NEW held2, NEW s, NEW h \in Range(list),
           s \notin Range(items[h]), items2[h] = items[h],
           OnlyChanged(s, trackOf, held, trackOf2, held2)
    PROVE  Played(items2[h], trackOf2, held2) = Played(items[h], trackOf, held)
<1>1. Range(items[h]) \subseteq SequenceIds
  BY SoundFacts
<1>2. \A t \in Range(items[h]) : trackOf2[t] = trackOf[t] /\ held2[t] = held[t]
  BY <1>1 DEF OnlyChanged
<1>3. Played(items[h], trackOf2, held2) = Played(items[h], trackOf, held)
  BY <1>2, PlayedSame
<1> QED BY <1>3

(* A segment with one new sequence of one resource comes.                  *)
LEMMA ContentsNewSegment ==
    ASSUME NEW list, NEW items, NEW trackOf, NEW held, Sound(list, items, trackOf, held),
           NEW items2, NEW trackOf2, NEW held2,
           NEW g \in SegmentIds \ Range(list), NEW s \in SequenceIds \ Plays(list, items),
           NEW v \in TrackIds, NEW r \in ResourceIds, NEW i \in 1..Len(list) + 1,
           Sound(InsertAt(list, i, g), items2, trackOf2, held2), OnlySequence(s, g, Range(list), items, items2),
           trackOf2[s] = v, held2[s] = <<r>>, OnlyChanged(s, trackOf, held, trackOf2, held2)
    PROVE  Contents(InsertAt(list, i, g), items2, trackOf2, held2)
               = InsertAt(Contents(list, items, trackOf, held), i, Single(v, r))
<1>1. \A h \in Range(list) : s \notin Range(items[h])
  BY SoundFacts DEF Plays
<1>2. SamePlayed(Range(list), items, trackOf, held, items2, trackOf2, held2)
  <2> SUFFICES ASSUME NEW h \in Range(list)
               PROVE  Played(items2[h], trackOf2, held2) = Played(items[h], trackOf, held)
    BY DEF SamePlayed
  <2>1. s \notin Range(items[h]) /\ items2[h] = items[h]
    BY <1>1 DEF OnlySequence
  <2> QED BY <2>1, OtherSegment
<1>3. Contents(InsertAt(list, i, g), items2, trackOf2, held2)
          = InsertAt(Contents(list, items, trackOf, held), i, Played(items2[g], trackOf2, held2))
  BY <1>2, ContentsInsert
<1>4. Played(<<s>>, trackOf2, held2) = Single(v, r)
  <2> DEFINE one == Played(<<s>>, trackOf2, held2)
  <2>1. Range(<<s>>) = {s}
    BY SingleList
  <2>2. one[v] = <<r>>
    <3>1. OnePerTrack(<<s>>, trackOf2) /\ s \in Range(<<s>>) /\ trackOf2[s] \in TrackIds
      BY <2>1 DEF OnePerTrack
    <3>2. one[trackOf2[s]] = held2[s]
      BY <3>1, PlayedTrack
    <3> QED BY <3>2
  <2>3. ASSUME NEW w \in TrackIds, w # v PROVE one[w] = <<>>
    <3>1. \A t \in Range(<<s>>) : trackOf2[t] # w
      BY <2>1, <2>3
    <3> QED BY <3>1, SilentTrack
  <2>4. one = [w \in TrackIds |-> one[w]]
    BY DEF Played
  <2> HIDE DEF one
  <2>5. one = Single(v, r)
    BY <2>2, <2>3, <2>4 DEF Emptied, Single
  <2> QED BY <2>5 DEF one
<1> QED BY <1>3, <1>4 DEF OnlySequence

(* One track of one segment of a timeline.                                 *)
Replaced(all, i, v, q) == [all EXCEPT ![i] = [all[i] EXCEPT ![v] = q]]

LEMMA ContentsTrack ==
    ASSUME NEW list, NEW items, NEW trackOf, NEW held, Sound(list, items, trackOf, held),
           NEW items2, NEW trackOf2, NEW held2, Sound(list, items2, trackOf2, held2),
           NEW i \in 1..Len(list), NEW v, NEW q,
           SamePlayed(Range(list) \ {list[i]}, items, trackOf, held, items2, trackOf2, held2),
           Played(items2[list[i]], trackOf2, held2) = PlayedInstead(Played(items[list[i]], trackOf, held), v, q)
    PROVE  Contents(list, items2, trackOf2, held2) = Replaced(Contents(list, items, trackOf, held), i, v, q)
<1> DEFINE old == Contents(list, items, trackOf, held)
           x == Played(items2[list[i]], trackOf2, held2)
<1>1. Contents(list, items2, trackOf2, held2) = [old EXCEPT ![i] = x]
  BY ContentsChange
<1>2. old[i] = Played(items[list[i]], trackOf, held)
  BY ContentsElements
<1>3. x = [old[i] EXCEPT ![v] = q]
  BY <1>2 DEF PlayedInstead
<1> HIDE DEF old, x
<1>4. Contents(list, items2, trackOf2, held2) = Replaced(old, i, v, q)
  BY <1>1, <1>3 DEF Replaced
<1> QED BY <1>4 DEF old

(* Other resources for a sequence.                                         *)
LEMMA ContentsResources ==
    ASSUME NEW list, NEW items, NEW trackOf, NEW held, Sound(list, items, trackOf, held),
           NEW i \in 1..Len(list), NEW s \in Range(items[list[i]]), NEW rest,
           Sound(list, items, trackOf, [held EXCEPT ![s] = rest])
    PROVE  Contents(list, items, trackOf, [held EXCEPT ![s] = rest])
               = Replaced(Contents(list, items, trackOf, held), i, trackOf[s], rest)
<1> DEFINE held2 == [held EXCEPT ![s] = rest]
           g == list[i]
<1>1. /\ list \in Seq(SegmentIds) /\ held \in [SequenceIds -> IdLists(ResourceIds)]
      /\ g \in Range(list) /\ g \in SegmentIds /\ Range(list) \subseteq SegmentIds
  <2>1. list \in Seq(SegmentIds) /\ held \in [SequenceIds -> IdLists(ResourceIds)]
    BY DEF Sound, ObjectsTyped, IdLists
  <2> QED BY <2>1, ListElements
<1>2. s \in SequenceIds /\ s \in Plays(list, items)
  BY <1>1, SoundFacts
<1>3. trackOf[s] \in TrackIds /\ OnePerTrack(items[g], trackOf)
  BY <1>1, <1>2 DEF Sound, OnePerTrack
<1>4. OnlyChanged(s, trackOf, held, trackOf, held2) /\ held2[s] = rest
  BY <1>1, <1>2 DEF OnlyChanged
<1>5. Played(items[g], trackOf, held2) = PlayedInstead(Played(items[g], trackOf, held), trackOf[s], rest)
  <2>1. s \in Range(items[g]) /\ Range(items[g]) \subseteq SequenceIds
    BY <1>1, SoundFacts
  <2> HIDE DEF g, held2
  <2>2. Played(items[g], trackOf, held2)
            = PlayedInstead(Played(items[g], trackOf, held), trackOf[s], held2[s])
    BY <1>3, <1>4, <2>1, PlayedChange
  <2> QED BY <1>4, <2>2
<1>6. \A h \in Range(list) \ {g} : s \notin Range(items[h])
  BY <1>1 DEF Sound
<1> HIDE DEF held2, g
<1>7. SamePlayed(Range(list) \ {g}, items, trackOf, held, items, trackOf, held2)
  BY <1>4, <1>6, OtherSegment DEF SamePlayed
<1>8. Contents(list, items, trackOf, held2) = Replaced(Contents(list, items, trackOf, held), i, trackOf[s], rest)
  BY <1>5, <1>7, ContentsTrack DEF g, held2
<1> QED BY <1>8 DEF held2

(* A new sequence of one resource in a segment, in a track that was silent. *)
LEMMA ContentsNewSequence ==
    ASSUME NEW list, NEW items, NEW trackOf, NEW held, Sound(list, items, trackOf, held),
           NEW items2, NEW trackOf2, NEW held2, Sound(list, items2, trackOf2, held2),
           NEW i \in 1..Len(list), NEW s \in SequenceIds \ Plays(list, items),
           NEW v \in TrackIds, NEW r, \A t \in Range(items[list[i]]) : trackOf[t] # v,
           Range(items2[list[i]]) = Range(items[list[i]]) \cup {s},
           \A h \in Range(list) \ {list[i]} : items2[h] = items[h],
           trackOf2[s] = v, held2[s] = <<r>>, OnlyChanged(s, trackOf, held, trackOf2, held2)
    PROVE  Contents(list, items2, trackOf2, held2) = Replaced(Contents(list, items, trackOf, held), i, v, <<r>>)
<1> DEFINE g == list[i]
           new == Played(items2[g], trackOf2, held2)
           old == Played(items[g], trackOf, held)
<1>1. /\ g \in Range(list) /\ g \in SegmentIds
      /\ \A h \in Range(list) : s \notin Range(items[h])
      /\ Range(items[g]) \subseteq SequenceIds \ {s}
  <2>1. list \in Seq(SegmentIds)
    BY DEF Sound, ObjectsTyped, IdLists
  <2>2. g \in Range(list) /\ g \in SegmentIds
    BY <2>1, ListElements
  <2>3. \A h \in Range(list) : s \notin Range(items[h])
    BY DEF Plays
  <2>4. Range(items[g]) \subseteq SequenceIds
    BY <2>2, SoundFacts
  <2> QED BY <2>2, <2>3, <2>4
<1>2. OnePerTrack(items[g], trackOf) /\ OnePerTrack(items2[g], trackOf2)
  BY <1>1 DEF Sound, OnePerTrack
<1>3. \A t \in Range(items[g]) : trackOf2[t] = trackOf[t] /\ held2[t] = held[t] /\ t \in Range(items2[g])
  BY <1>1 DEF OnlyChanged
<1> HIDE DEF g
<1>4. Played(items2[g], trackOf2, held2)[trackOf2[s]] = held2[s]
  BY <1>2, PlayedTrack DEF g
<1>5. ASSUME NEW w \in TrackIds, w # v
      PROVE  Played(items2[g], trackOf2, held2)[w] = Played(items[g], trackOf, held)[w]
  <2>1. CASE \E t \in Range(items[g]) : trackOf[t] = w
    <3>1. PICK t \in Range(items[g]) : trackOf[t] = w
      BY <2>1
    <3>2. t \in Range(items2[g]) /\ trackOf2[t] = w /\ trackOf[t] \in TrackIds /\ trackOf2[t] \in TrackIds /\ held2[t] = held[t]
      BY <1>3, <3>1
    <3>3. Played(items2[g], trackOf2, held2)[trackOf2[t]] = held2[t]
      BY <1>2, <3>2, PlayedTrack
    <3>4. Played(items[g], trackOf, held)[trackOf[t]] = held[t]
      BY <1>2, <3>2, PlayedTrack
    <3> QED BY <3>1, <3>2, <3>3, <3>4
  <2>2. CASE \A t \in Range(items[g]) : trackOf[t] # w
    <3>1. \A t \in Range(items2[g]) : trackOf2[t] # w
      BY <1>3, <1>5, <2>2 DEF g
    <3> QED BY <2>2, <3>1, SilentTrack
  <2> QED BY <2>1, <2>2
<1>6. new = [w \in TrackIds |-> new[w]] /\ DOMAIN old = TrackIds
  BY DEF Played
<1> HIDE DEF new, old
<1>7. new = PlayedInstead(old, v, <<r>>)
  BY <1>4, <1>5, <1>6 DEF PlayedInstead, new, old
<1>8. SamePlayed(Range(list) \ {g}, items, trackOf, held, items2, trackOf2, held2)
  <2> SUFFICES ASSUME NEW h \in Range(list) \ {g}
               PROVE  Played(items2[h], trackOf2, held2) = Played(items[h], trackOf, held)
    BY DEF SamePlayed
  <2>1. h \in Range(list) /\ s \notin Range(items[h]) /\ items2[h] = items[h]
    BY <1>1 DEF g
  <2> QED BY <2>1, OtherSegment
<1> QED BY <1>7, <1>8, ContentsTrack DEF g, new, old

(* A sequence goes, and the segment stays.                                  *)
LEMMA ContentsDeleteSequence ==
    ASSUME NEW list, NEW items, NEW trackOf, NEW held, Sound(list, items, trackOf, held),
           NEW items2, NEW trackOf2, NEW held2, Sound(list, items2, trackOf2, held2),
           NEW i \in 1..Len(list), NEW s \in Range(items[list[i]]),
           Range(items2[list[i]]) = Range(items[list[i]]) \ {s},
           \A h \in Range(list) \ {list[i]} : items2[h] = items[h],
           OnlyChanged(s, trackOf, held, trackOf2, held2)
    PROVE  Contents(list, items2, trackOf2, held2)
               = Replaced(Contents(list, items, trackOf, held), i, trackOf[s], <<>>)
<1> DEFINE g == list[i]
           v == trackOf[s]
           new == Played(items2[g], trackOf2, held2)
           old == Played(items[g], trackOf, held)
<1>1. /\ g \in Range(list) /\ g \in SegmentIds /\ Range(list) \subseteq SegmentIds
      /\ Range(items[g]) \subseteq SequenceIds
  <2>1. list \in Seq(SegmentIds)
    BY DEF Sound, ObjectsTyped, IdLists
  <2> QED BY <2>1, ListElements, SoundFacts
<1>2. /\ s \in SequenceIds /\ s \in Plays(list, items) /\ trackOf[s] \in TrackIds
      /\ \A h \in Range(list) \ {g} : s \notin Range(items[h])
  <2>1. s \in SequenceIds /\ s \in Plays(list, items)
    BY <1>1 DEF Plays
  <2> QED BY <1>1, <2>1 DEF Sound
<1>3. OnePerTrack(items[g], trackOf) /\ OnePerTrack(items2[g], trackOf2)
  BY <1>1 DEF Sound, OnePerTrack
<1>4. \A t \in Range(items2[g]) : trackOf2[t] = trackOf[t] /\ held2[t] = held[t] /\ t \in Range(items[g]) /\ t # s
  BY <1>1 DEF OnlyChanged
<1>5. \A t \in Range(items[g]) : t # s => t \in Range(items2[g])
  OBVIOUS
<1> HIDE DEF g
<1>6. Played(items2[g], trackOf2, held2)[v] = <<>>
  <2>1. \A t \in Range(items2[g]) : trackOf2[t] # trackOf[s]
    BY <1>3, <1>4 DEF OnePerTrack, g
  <2> QED BY <1>2, <2>1, SilentTrack
<1>7. ASSUME NEW w \in TrackIds, w # v
      PROVE  Played(items2[g], trackOf2, held2)[w] = Played(items[g], trackOf, held)[w]
  <2>1. CASE \E t \in Range(items[g]) : trackOf[t] = w
    <3>1. PICK t \in Range(items[g]) : trackOf[t] = w
      BY <2>1
    <3>2. t \in Range(items2[g])
      BY <1>5, <1>7, <3>1
    <3>3. trackOf2[t] = w /\ trackOf[t] \in TrackIds /\ trackOf2[t] \in TrackIds /\ held2[t] = held[t]
      BY <1>4, <3>1, <3>2
    <3>4. Played(items2[g], trackOf2, held2)[trackOf2[t]] = held2[t]
      BY <1>3, <3>2, <3>3, PlayedTrack
    <3>5. Played(items[g], trackOf, held)[trackOf[t]] = held[t]
      BY <1>3, <3>3, PlayedTrack
    <3> QED BY <3>1, <3>3, <3>4, <3>5
  <2>2. CASE \A t \in Range(items[g]) : trackOf[t] # w
    <3>1. \A t \in Range(items2[g]) : trackOf2[t] # w
      BY <1>4, <2>2
    <3> QED BY <2>2, <3>1, SilentTrack
  <2> QED BY <2>1, <2>2
<1>8. new = [w \in TrackIds |-> new[w]] /\ DOMAIN old = TrackIds
  BY DEF Played
<1> HIDE DEF new, old, v
<1>9. new = PlayedInstead(old, v, <<>>)
  BY <1>6, <1>7, <1>8 DEF PlayedInstead, new, old
<1>10. SamePlayed(Range(list) \ {g}, items, trackOf, held, items2, trackOf2, held2)
  <2> SUFFICES ASSUME NEW h \in Range(list) \ {g}
               PROVE  Played(items2[h], trackOf2, held2) = Played(items[h], trackOf, held)
    BY DEF SamePlayed
  <2>1. h \in Range(list) /\ s \notin Range(items[h]) /\ items2[h] = items[h]
    BY <1>2 DEF g
  <2> QED BY <2>1, OtherSegment
<1>11. Contents(list, items2, trackOf2, held2) = Replaced(Contents(list, items, trackOf, held), i, v, <<>>)
  BY <1>9, <1>10, ContentsTrack DEF g, new, old
<1> QED BY <1>11 DEF v

(* The last sequence of a segment goes, and the segment with it.            *)
LEMMA ContentsDeleteSegment ==
    ASSUME NEW list, NEW items, NEW trackOf, NEW held, Sound(list, items, trackOf, held),
           NEW i \in 1..Len(list), NEW s \in Range(items[list[i]]),
           NEW items2, NEW trackOf2, NEW held2, Sound(RemoveAt(list, i), items2, trackOf2, held2),
           \A h \in Range(list) \ {list[i]} : items2[h] = items[h],
           OnlyChanged(s, trackOf, held, trackOf2, held2)
    PROVE  Contents(RemoveAt(list, i), items2, trackOf2, held2) = RemoveAt(Contents(list, items, trackOf, held), i)
<1>1. list[i] \in SegmentIds /\ Range(list) \subseteq SegmentIds
  <2>1. list \in Seq(SegmentIds)
    BY DEF Sound, ObjectsTyped, IdLists
  <2> QED BY <2>1, ListElements
<1>2. SamePlayed(Range(list) \ {list[i]}, items, trackOf, held, items2, trackOf2, held2)
  <2> SUFFICES ASSUME NEW h \in Range(list) \ {list[i]}
               PROVE  Played(items2[h], trackOf2, held2) = Played(items[h], trackOf, held)
    BY DEF SamePlayed
  <2>1. h \in Range(list) /\ items2[h] = items[h] /\ s \notin Range(items[h])
    BY <1>1 DEF Sound
  <2> QED BY <2>1, OtherSegment
<1> QED BY <1>2, ContentsRemove

-----------------------------------------------------------------------------
(* The steps of the timeline, in the objects of the playlist.              *)

Now == Contents(segments, sequencesOf, virtualTrackId, resources)
InFileNow == Contents(file.segmentList, file.sequenceList, file.trackId, file.resourceList)

LEMMA TimelineOperators ==
    /\ \A list, i, x : TL!InsertAt(list, i, x) = InsertAt(list, i, x)
    /\ \A list, i : TL!RemoveAt(list, i) = RemoveAt(list, i)
BY DEF TL!InsertAt, TL!RemoveAt, InsertAt, RemoveAt

LEMMA TimelineNewSegment ==
    ASSUME NEW i \in 1..Len(Now) + 1, NEW v \in TrackIds, NEW r \in ResourceIds, UNCHANGED file,
           Now' = InsertAt(Now, i, Single(v, r))
    PROVE  TL!Next
<1>1. TL!NewSegment(i, v, r)
  BY TimelineOperators DEF TL!NewSegment, TL!EmptySegment, Single, Emptied, Now
<1> QED BY <1>1 DEF TL!Next, Now

LEMMA TimelinePlace ==
    ASSUME NEW i \in 1..Len(Now), NEW v \in TrackIds, NEW p \in 1..Len(Now[i][v]) + 1, NEW r \in ResourceIds,
           UNCHANGED file, Now' = [Now EXCEPT ![i] = [Now[i] EXCEPT ![v] = InsertAt(Now[i][v], p, r)]]
    PROVE  TL!Next
<1>1. TL!Place(i, v, p, r)
  <2>1. Now' = [Now EXCEPT ![i][v] = InsertAt(@, p, r)]
    OBVIOUS
  <2> QED BY <2>1, TimelineOperators DEF TL!Place, Now
<1> QED BY <1>1 DEF TL!Next, Now

LEMMA TimelineTake ==
    ASSUME NEW i \in 1..Len(Now), NEW v \in TrackIds, NEW p \in 1..Len(Now[i][v]), UNCHANGED file,
           LET left == PlayedInstead(Now[i], v, RemoveAt(Now[i][v], p))
           IN  \/ left = Emptied /\ Now' = RemoveAt(Now, i)
               \/ left # Emptied /\ Now' = [Now EXCEPT ![i] = left]
    PROVE  TL!Next
<1>1. TL!Take(i, v, p)
  BY TimelineOperators DEF TL!Take, TL!EmptySegment, Emptied, PlayedInstead, Now
<1> QED BY <1>1 DEF TL!Next, Now

(* What the invariant says of the segment at a place of the list.          *)
LEMMA SegmentAt ==
    ASSUME EditorInv, NEW g \in Range(segments)
    PROVE  \E i \in 1..Len(segments) :
              /\ segments[i] = g /\ PositionOf(segments, g) = i
              /\ i \in 1..Len(Now)
              /\ Now[i] = Played(sequencesOf[g], virtualTrackId, resources)
              /\ Now[i] \in SegmentContents
<1>1. Sound(segments, sequencesOf, virtualTrackId, resources) /\ segments \in Seq(SegmentIds)
  BY DEF EditorInv, Sound, ObjectsTyped, IdLists
<1>2. PositionOf(segments, g) \in 1..Len(segments) /\ segments[PositionOf(segments, g)] = g
  BY <1>1, PositionFound
<1>3. /\ Now \in Seq(SegmentContents) /\ Len(Now) = Len(segments)
      /\ \A k \in 1..Len(segments) : Now[k] = Played(sequencesOf[segments[k]], virtualTrackId, resources)
  BY <1>1, ContentsElements DEF Now
<1>4. \A k \in 1..Len(Now) : Now[k] \in SegmentContents
  BY <1>3, ListElements
<1> QED BY <1>2, <1>3, <1>4

LEMMA SegmentFacts ==
    ASSUME EditorInv, NEW g \in Range(segments)
    PROVE  /\ g \in SegmentIds /\ Range(sequencesOf[g]) \subseteq SequenceIds
           /\ sequencesOf[g] \in IdLists(SequenceIds)
           /\ OnePerTrack(sequencesOf[g], virtualTrackId)
           /\ \A s \in Range(sequencesOf[g]) :
                 /\ s \in InSegments /\ virtualTrackId[s] \in TrackIds /\ resources[s] # <<>>
                 /\ resources[s] \in IdLists(ResourceIds)
                 /\ Played(sequencesOf[g], virtualTrackId, resources)[virtualTrackId[s]] = resources[s]
           /\ \A h \in Range(segments) \ {g} : Range(sequencesOf[h]) \cap Range(sequencesOf[g]) = {}
<1>1. Sound(segments, sequencesOf, virtualTrackId, resources)
  BY DEF EditorInv
<1>2. /\ g \in SegmentIds /\ Range(segments) \subseteq SegmentIds
      /\ Range(sequencesOf[g]) \subseteq SequenceIds /\ sequencesOf[g] \in IdLists(SequenceIds)
  BY <1>1, SoundFacts
<1>3. OnePerTrack(sequencesOf[g], virtualTrackId)
  BY <1>1, <1>2 DEF Sound, OnePerTrack
<1>4. ASSUME NEW s \in Range(sequencesOf[g])
      PROVE  /\ s \in InSegments /\ virtualTrackId[s] \in TrackIds /\ resources[s] # <<>>
             /\ resources[s] \in IdLists(ResourceIds)
             /\ Played(sequencesOf[g], virtualTrackId, resources)[virtualTrackId[s]] = resources[s]
  <2>1. s \in InSegments
    BY <1>2 DEF InSegments
  <2>2. virtualTrackId[s] \in TrackIds /\ resources[s] # <<>>
    BY <1>1, <2>1, PlayingSequences DEF Sound
  <2>3. resources[s] \in IdLists(ResourceIds)
    BY <1>1, <1>2 DEF Sound, ObjectsTyped
  <2> QED BY <1>3, <2>1, <2>2, <2>3, PlayedTrack
<1>5. \A h \in Range(segments) \ {g} : Range(sequencesOf[h]) \cap Range(sequencesOf[g]) = {}
  BY <1>1, <1>2 DEF Sound
<1> QED BY <1>2, <1>3, <1>4, <1>5

(* InsertSegmentAction and CreateFirstSegmentAction.                       *)
LEMMA NewSegmentRefines ==
    ASSUME EditorInv, EditorInv', NEW g \in FreshSegments, NEW s \in FreshSequences,
           NEW v \in TrackIds, NEW r \in ResourceIds, NEW i \in 1..Len(segments) + 1,
           segments' = InsertAt(segments, i, g), OnlySequence(s, g, Range(segments), sequencesOf, sequencesOf'),
           NewSequence(s, v, r), UNCHANGED file
    PROVE  TL!Next
<1>1. /\ Sound(segments, sequencesOf, virtualTrackId, resources)
      /\ Sound(segments', sequencesOf', virtualTrackId', resources')
  BY DEF EditorInv
<1>2. /\ g \in SegmentIds \ Range(segments) /\ s \in SequenceIds \ Plays(segments, sequencesOf)
      /\ virtualTrackId \in [SequenceIds -> TrackIds \cup {NoTrack}]
      /\ resources \in [SequenceIds -> IdLists(ResourceIds)]
  BY <1>1, PlayingSequences DEF FreshSegments, FreshSequences, Sound, ObjectsTyped
<1>3. /\ virtualTrackId'[s] = v /\ resources'[s] = <<r>>
      /\ OnlyChanged(s, virtualTrackId, resources, virtualTrackId', resources')
  BY <1>2 DEF NewSequence, OnlyChanged
<1>4. Contents(segments', sequencesOf', virtualTrackId', resources')
          = InsertAt(Contents(segments, sequencesOf, virtualTrackId, resources), i, Single(v, r))
  <2>1. Sound(InsertAt(segments, i, g), sequencesOf', virtualTrackId', resources')
    BY <1>1
  <2>2. Contents(InsertAt(segments, i, g), sequencesOf', virtualTrackId', resources')
            = InsertAt(Contents(segments, sequencesOf, virtualTrackId, resources), i, Single(v, r))
    BY <1>1, <1>2, <1>3, <2>1, ContentsNewSegment
  <2> QED BY <2>2
<1>5. Now' = InsertAt(Now, i, Single(v, r))
  BY <1>4 DEF Now
<1>6. i \in 1..Len(Now) + 1
  BY <1>1, ContentsElements DEF Now
<1> QED BY <1>5, <1>6, TimelineNewSegment

LEMMA CreateFirstSegmentRefines ==
    ASSUME EditorInv, EditorInv', NEW r \in FreshResources, CreateFirstSegment(r)
    PROVE  TL!Next
<1>1. PICK g \in FreshSegments, s \in FreshSequences, v \in FreshTracks :
         /\ segments' = Append(segments, g)
         /\ sequencesOf' = [sequencesOf EXCEPT ![g] = <<s>>]
         /\ NewSequence(s, v, r)
  BY DEF CreateFirstSegment
<1>2. /\ UNCHANGED file /\ r \in ResourceIds /\ v \in TrackIds /\ g \in SegmentIds /\ segments = <<>>
      /\ sequencesOf \in [SegmentIds -> IdLists(SequenceIds)]
  BY DEF CreateFirstSegment, FreshResources, FreshTracks, FreshSegments, EditorInv, Sound, ObjectsTyped
<1>3. InsertAt(<<>>, 1, g) = Append(<<>>, g)
  <2>1. /\ <<>> \in Seq(SegmentIds) /\ <<g>> \in Seq(SegmentIds)
        /\ SubSeq(<<>>, 1, 1 - 1) = <<>> /\ SubSeq(<<>>, 1, Len(<<>>)) = <<>>
    BY <1>2, EmptySeq, SubSeqEmpty
  <2>2. Append(<<>>, g) = <<>> \o <<g>> /\ (<<>> \o <<g>>) \o <<>> = <<>> \o <<g>>
    BY <1>2, <2>1, AppendIsConcat, ConcatEmptySeq
  <2> QED BY <2>1, <2>2 DEF InsertAt
<1>4. segments' = InsertAt(segments, 1, g) /\ 1 \in 1..Len(segments) + 1
  BY <1>1, <1>2, <1>3, EmptySeq
<1>5. OnlySequence(s, g, Range(segments), sequencesOf, sequencesOf')
  BY <1>1, <1>2, EmptyList DEF OnlySequence
<1>6. NewSequence(s, v, r)
  BY <1>1
<1> QED BY <1>2, <1>4, <1>5, <1>6, NewSegmentRefines

LEMMA InsertSegmentRefines ==
    ASSUME EditorInv, EditorInv', NEW r \in FreshResources, NEW other \in Range(segments), NEW append \in BOOLEAN,
           NEW row, InsertSegment(other, append, row, r)
    PROVE  TL!Next
<1>1. PICK g \in FreshSegments, s \in FreshSequences, v \in TrackIds :
         /\ segments' = InsertBeside(segments, other, append, g)
         /\ sequencesOf' = [sequencesOf EXCEPT ![g] = <<s>>]
         /\ NewSequence(s, v, r)
  BY DEF InsertSegment
<1>2. /\ UNCHANGED file /\ r \in ResourceIds /\ g \in SegmentIds \ Range(segments)
      /\ sequencesOf \in [SegmentIds -> IdLists(SequenceIds)] /\ segments \in Seq(SegmentIds)
  BY DEF InsertSegment, FreshResources, FreshSegments, EditorInv, Sound, ObjectsTyped, IdLists
<1> DEFINE i == PositionOf(segments, other) + (IF append THEN 1 ELSE 0)
<1>3. i \in 1..Len(segments) + 1
  <2>1. PositionOf(segments, other) \in 1..Len(segments) /\ Len(segments) \in Nat
    BY <1>2, PositionFound, ListElements
  <2> QED BY <2>1
<1>4. segments' = InsertAt(segments, i, g)
  BY <1>1 DEF InsertBeside
<1>5. OnlySequence(s, g, Range(segments), sequencesOf, sequencesOf')
  <2>1. Range(segments) \subseteq SegmentIds \ {g}
    BY <1>2, ListElements
  <2> QED BY <1>1, <1>2, <2>1 DEF OnlySequence
<1>6. NewSequence(s, v, r)
  BY <1>1
<1> HIDE DEF i
<1> QED BY <1>2, <1>3, <1>4, <1>5, <1>6, NewSegmentRefines

LEMMA PlaceRefines ==
    ASSUME EditorInv, NEW i \in 1..Len(Now), NEW v \in TrackIds, NEW p \in 1..Len(Now[i][v]) + 1,
           NEW r \in ResourceIds, UNCHANGED file, Now' = Replaced(Now, i, v, InsertAt(Now[i][v], p, r))
    PROVE  TL!Next
BY TimelinePlace DEF Replaced

(* InsertResourceAction: beside a resource of a sequence.                  *)
LEMMA InsertResourceRefines ==
    ASSUME EditorInv, EditorInv', NEW r \in FreshResources, NEW s \in InSegments,
           NEW other \in Range(resources[s]), NEW append \in BOOLEAN, InsertResource(s, other, append, r)
    PROVE  TL!Next
<1> DEFINE p == PositionOf(resources[s], other) + (IF append THEN 1 ELSE 0)
           rest == InsertAt(resources[s], p, r)
<1>1. PICK g \in Range(segments) : s \in Range(sequencesOf[g])
  BY DEF InSegments
<1>2. PICK i \in 1..Len(segments) : segments[i] = g /\ i \in 1..Len(Now)
                                    /\ Now[i] = Played(sequencesOf[g], virtualTrackId, resources)
  BY SegmentAt
<1>3. /\ virtualTrackId[s] \in TrackIds /\ resources[s] \in Seq(ResourceIds)
      /\ Now[i][virtualTrackId[s]] = resources[s]
  BY <1>1, <1>2, SegmentFacts DEF IdLists
<1>4. p \in 1..Len(resources[s]) + 1
  <2>1. PositionOf(resources[s], other) \in 1..Len(resources[s]) /\ Len(resources[s]) \in Nat
    BY <1>3, PositionFound, ListElements
  <2> QED BY <2>1
<1>5. /\ segments' = segments /\ sequencesOf' = sequencesOf /\ virtualTrackId' = virtualTrackId
      /\ UNCHANGED file /\ r \in ResourceIds
      /\ resources' = [resources EXCEPT ![s] = InsertBeside(resources[s], other, append, r)]
  BY DEF InsertResource, FreshResources
<1>6. resources' = [resources EXCEPT ![s] = rest]
  BY <1>5 DEF InsertBeside
<1> HIDE DEF p, rest
<1>7. Sound(segments, sequencesOf, virtualTrackId, resources)
      /\ Sound(segments, sequencesOf, virtualTrackId, [resources EXCEPT ![s] = rest])
  BY <1>5, <1>6 DEF EditorInv
<1>8. Contents(segments, sequencesOf, virtualTrackId, [resources EXCEPT ![s] = rest])
          = Replaced(Contents(segments, sequencesOf, virtualTrackId, resources), i, virtualTrackId[s], rest)
  BY <1>1, <1>2, <1>7, ContentsResources
<1>9. Now' = Replaced(Now, i, virtualTrackId[s], InsertAt(Now[i][virtualTrackId[s]], p, r))
  BY <1>3, <1>5, <1>6, <1>8 DEF Now, rest
<1>10. p \in 1..Len(Now[i][virtualTrackId[s]]) + 1
  BY <1>3, <1>4
<1> QED BY <1>2, <1>3, <1>5, <1>9, <1>10, PlaceRefines

LEMMA AppendInserts ==
    ASSUME NEW S, NEW list \in Seq(S), NEW x \in S
    PROVE  Append(list, x) = InsertAt(list, Len(list) + 1, x) /\ Len(list) + 1 \in 1..Len(list) + 1
<1>1. Len(list) \in Nat
  BY ListElements
<1>2. Len(list) + 1 \in 1..Len(list) + 1
  BY <1>1
<1>3. /\ Append(list, x) \in Seq(S) /\ Len(Append(list, x)) = Len(list) + 1
      /\ \A k \in 1..Len(list) : Append(list, x)[k] = list[k]
      /\ Append(list, x)[Len(list) + 1] = x
  BY AppendProperties
<1> DEFINE i == Len(list) + 1
           inserted == InsertAt(list, i, x)
<1>4. i \in 1..Len(list) + 1
  BY <1>2
<1> HIDE DEF i
<1>5. inserted \in Seq(S) /\ Len(inserted) = Len(list) + 1
  BY <1>4, InsertAtElements
<1>6. ASSUME NEW k \in 1..Len(list) + 1 PROVE inserted[k] = Append(list, x)[k]
  <2>1. inserted[k] = IF k < i THEN list[k] ELSE IF k = i THEN x ELSE list[k - 1]
    BY <1>4, InsertAtElements
  <2> HIDE DEF inserted
  <2>2. CASE k < Len(list) + 1
    BY <1>1, <1>3, <2>1, <2>2 DEF i
  <2>3. CASE k = Len(list) + 1
    BY <1>1, <1>3, <2>1, <2>3 DEF i
  <2> QED BY <1>1, <2>2, <2>3
<1> HIDE DEF inserted
<1>7. inserted = Append(list, x)
  BY <1>3, <1>5, <1>6, SeqEqual
<1> QED BY <1>2, <1>7 DEF inserted, i

(* AddResourceAction: at the end of a track of a segment.                  *)
LEMMA AddResourceRefines ==
    ASSUME EditorInv, EditorInv', NEW r \in FreshResources, NEW g \in Range(segments),
           NEW row \in 0..Len(virtualTracks), AddResource(g, row, r)
    PROVE  TL!Next
<1>1. PICK v \in TrackIds :
         /\ TrackAtRow(row, v)
         /\ \/ /\ \E s \in SequencesInTrack(g, v) :
                     resources' = [resources EXCEPT ![s] = Append(@, r)]
               /\ UNCHANGED <<sequencesOf, trackItems, virtualTrackId>>
            \/ /\ SequencesInTrack(g, v) = {}
               /\ \E s \in FreshSequences :
                     /\ sequencesOf' = [sequencesOf EXCEPT ![g] = Append(@, s)]
                     /\ NewSequence(s, v, r)
  BY DEF AddResource
<1>2. PICK i \in 1..Len(segments) : segments[i] = g /\ i \in 1..Len(Now)
                                    /\ Now[i] = Played(sequencesOf[g], virtualTrackId, resources)
  BY SegmentAt
<1>3. /\ segments' = segments /\ UNCHANGED file /\ r \in ResourceIds
      /\ Sound(segments, sequencesOf, virtualTrackId, resources)
      /\ Sound(segments', sequencesOf', virtualTrackId', resources')
      /\ Views(virtualTracks, trackItems, InSegments, virtualTrackId)
      /\ virtualTracks \in IdLists(TrackIds)
  BY DEF AddResource, FreshResources, EditorInv, Views
<1>4. /\ sequencesOf \in [SegmentIds -> IdLists(SequenceIds)]
      /\ virtualTrackId \in [SequenceIds -> TrackIds \cup {NoTrack}]
      /\ resources \in [SequenceIds -> IdLists(ResourceIds)]
      /\ Range(segments) \subseteq SegmentIds /\ g \in SegmentIds
  BY <1>3, SoundFacts DEF Sound, ObjectsTyped
<1>5. ASSUME NEW s \in SequencesInTrack(g, v),
             resources' = [resources EXCEPT ![s] = Append(@, r)],
             UNCHANGED <<sequencesOf, trackItems, virtualTrackId>>
      PROVE  TL!Next
  <2> DEFINE p == Len(resources[s]) + 1
             rest == InsertAt(resources[s], p, r)
  <2>1. s \in Range(sequencesOf[g]) /\ s \in trackItems[v]
    BY <1>5 DEF SequencesInTrack
  <2>2. /\ virtualTrackId[s] \in TrackIds /\ resources[s] \in Seq(ResourceIds)
        /\ Now[i][virtualTrackId[s]] = resources[s]
    BY <1>2, <2>1, SegmentFacts DEF IdLists
  <2>3. Append(resources[s], r) = rest /\ p \in 1..Len(resources[s]) + 1
    BY <1>3, <2>2, AppendInserts
  <2>4. resources' = [resources EXCEPT ![s] = rest]
    BY <1>5, <2>3
  <2>5. sequencesOf' = sequencesOf /\ virtualTrackId' = virtualTrackId
    BY <1>5
  <2> HIDE DEF p, rest
  <2>6. Sound(segments, sequencesOf, virtualTrackId, [resources EXCEPT ![s] = rest])
    BY <1>3, <2>4, <2>5
  <2>7. Contents(segments, sequencesOf, virtualTrackId, [resources EXCEPT ![s] = rest])
            = Replaced(Contents(segments, sequencesOf, virtualTrackId, resources), i, virtualTrackId[s], rest)
    BY <1>2, <1>3, <2>1, <2>6, ContentsResources
  <2>8. Now' = Replaced(Now, i, virtualTrackId[s], InsertAt(Now[i][virtualTrackId[s]], p, r))
    BY <1>3, <2>2, <2>4, <2>5, <2>7 DEF Now, rest
  <2>9. p \in 1..Len(Now[i][virtualTrackId[s]]) + 1
    BY <2>2, <2>3
  <2> QED BY <1>2, <1>3, <2>2, <2>8, <2>9, PlaceRefines
<1>6. ASSUME SequencesInTrack(g, v) = {}, NEW s \in FreshSequences,
             sequencesOf' = [sequencesOf EXCEPT ![g] = Append(@, s)], NewSequence(s, v, r)
      PROVE  TL!Next
  <2>1. s \in SequenceIds \ Plays(segments, sequencesOf)
    BY PlayingSequences DEF FreshSequences
  <2>2. \A t \in Range(sequencesOf[g]) : virtualTrackId[t] # v
    <3> SUFFICES ASSUME NEW t \in Range(sequencesOf[g]), virtualTrackId[t] = v PROVE FALSE
      OBVIOUS
    <3>1. t \in InSegments /\ t \in SequenceIds
      BY SegmentFacts
    <3>2. v \in Range(virtualTracks)
      BY <1>1, <1>3, <3>1, RowsTrack, FreshTrackUnused
    <3>3. t \in trackItems[v]
      BY <1>3, <3>1 DEF Views
    <3> QED BY <1>6, <3>2, <3>3 DEF SequencesInTrack
  <2>3. Range(sequencesOf'[g]) = Range(sequencesOf[g]) \cup {s}
    <3>1. sequencesOf[g] \in IdLists(SequenceIds) /\ s \in SequenceIds \ Range(sequencesOf[g])
      BY <1>4, <2>1 DEF Plays
    <3>2. Range(Append(sequencesOf[g], s)) = Range(sequencesOf[g]) \cup {s}
      BY <3>1, AppendList
    <3> QED BY <1>4, <1>6, <3>2
  <2>4. \A h \in Range(segments) \ {g} : sequencesOf'[h] = sequencesOf[h]
    BY <1>4, <1>6
  <2>5. /\ virtualTrackId'[s] = v /\ resources'[s] = <<r>>
        /\ OnlyChanged(s, virtualTrackId, resources, virtualTrackId', resources')
    BY <1>4, <1>6, <2>1 DEF NewSequence, OnlyChanged
  <2>6. Now' = Replaced(Now, i, v, <<r>>)
    <3>1. Contents(segments, sequencesOf', virtualTrackId', resources')
              = Replaced(Contents(segments, sequencesOf, virtualTrackId, resources), i, v, <<r>>)
      BY <1>2, <1>3, <2>1, <2>2, <2>3, <2>4, <2>5, ContentsNewSequence
    <3> QED BY <1>3, <3>1 DEF Now
  <2>7. Now[i][v] = <<>>
    BY <1>2, <2>2, SilentTrack
  <2>8. <<r>> = InsertAt(<<>>, 1, r) /\ 1 \in 1..Len(<<>>) + 1
    <3>1. <<>> \in Seq(ResourceIds) /\ Len(<<>>) = 0
      BY EmptySeq
    <3>2. Append(<<>>, r) = InsertAt(<<>>, 0 + 1, r) /\ 0 + 1 \in 1..0 + 1
      BY <1>3, <3>1, AppendInserts
    <3>3. Append(<<>>, r) = <<r>>
      BY <1>3, <3>1, AppendIsConcat, ConcatEmptySeq
    <3> QED BY <3>1, <3>2, <3>3
  <2> QED BY <1>2, <1>3, <2>6, <2>7, <2>8, PlaceRefines
<1> QED BY <1>1, <1>5, <1>6

(* DeleteResourceAction: the resource, and its segment if it was its last. *)
LEMMA DeleteResourceRefines ==
    ASSUME EditorInv, EditorInv', NEW g \in Range(segments), NEW s \in Range(sequencesOf[g]),
           NEW r \in Range(resources[s]), DeleteResource(g, s, r)
    PROVE  TL!Next
<1> DEFINE rest == DeleteItem(resources[s], r)
           restOfSegment == DeleteItem(sequencesOf[g], s)
           v == virtualTrackId[s]
           p == PositionOf(resources[s], r)
<1>1. PICK i \in 1..Len(segments) :
         /\ segments[i] = g /\ PositionOf(segments, g) = i /\ i \in 1..Len(Now)
         /\ Now[i] = Played(sequencesOf[g], virtualTrackId, resources)
         /\ Now[i] \in SegmentContents
  BY SegmentAt
<1>2. /\ UNCHANGED file
      /\ Sound(segments, sequencesOf, virtualTrackId, resources)
      /\ Sound(segments', sequencesOf', virtualTrackId', resources')
      /\ virtualTrackId \in [SequenceIds -> TrackIds \cup {NoTrack}]
      /\ resources \in [SequenceIds -> IdLists(ResourceIds)]
      /\ sequencesOf \in [SegmentIds -> IdLists(SequenceIds)]
  BY DEF DeleteResource, EditorInv, Sound, ObjectsTyped
<1>3. /\ v \in TrackIds /\ s \in SequenceIds /\ g \in SegmentIds /\ Range(segments) \subseteq SegmentIds
      /\ resources[s] \in Seq(ResourceIds) /\ Now[i][v] = resources[s]
      /\ sequencesOf[g] \in IdLists(SequenceIds) /\ OnePerTrack(sequencesOf[g], virtualTrackId)
      /\ \A t \in Range(sequencesOf[g]) : /\ resources[t] # <<>> /\ virtualTrackId[t] \in TrackIds
                                          /\ Now[i][virtualTrackId[t]] = resources[t]
  <2>1. Range(segments) \subseteq SegmentIds
    BY <1>2, SoundFacts
  <2> QED BY <1>1, <2>1, SegmentFacts DEF IdLists
<1>4. p \in 1..Len(Now[i][v]) /\ rest = RemoveAt(Now[i][v], p)
  BY <1>3, PositionFound DEF DeleteItem
<1>5. Range(restOfSegment) = Range(sequencesOf[g]) \ {s} /\ restOfSegment \in IdLists(SequenceIds)
  BY <1>3, DeleteList
<1>6. /\ resources' = [resources EXCEPT ![s] = rest]
      /\ rest # <<>> => segments' = segments /\ sequencesOf' = sequencesOf /\ virtualTrackId' = virtualTrackId
      /\ rest = <<>> => /\ sequencesOf' = [sequencesOf EXCEPT ![g] = restOfSegment]
                        /\ segments' = DeleteEmpty(segments, g, restOfSegment = <<>>)
                        /\ virtualTrackId' = [virtualTrackId EXCEPT ![s] = NoTrack]
  BY DEF DeleteResource
<1> DEFINE left == PlayedInstead(Now[i], v, rest)
<1>7. /\ left[v] = rest /\ DOMAIN left = TrackIds
      /\ \A w \in TrackIds \ {v} : left[w] = Now[i][w]
      /\ left = [w \in TrackIds |-> left[w]]
  BY <1>1, <1>3 DEF SegmentContents, PlayedInstead
<1> HIDE DEF rest, restOfSegment, v, p, left
<1>8. CASE rest # <<>>
  <2>1. left # Emptied
    BY <1>3, <1>7, <1>8 DEF Emptied
  <2>2. Sound(segments, sequencesOf, virtualTrackId, [resources EXCEPT ![s] = rest])
    BY <1>2, <1>6, <1>8
  <2>3. Contents(segments, sequencesOf, virtualTrackId, [resources EXCEPT ![s] = rest])
            = Replaced(Contents(segments, sequencesOf, virtualTrackId, resources), i, virtualTrackId[s], rest)
    <3>1. s \in Range(sequencesOf[segments[i]])
      BY <1>1
    <3>2. Sound(segments, sequencesOf, virtualTrackId, resources)
      BY <1>2
    <3> QED BY <2>2, <3>1, <3>2, ContentsResources
  <2>4. Now' = [Now EXCEPT ![i] = left]
    BY <1>6, <1>8, <2>3 DEF Now, Replaced, PlayedInstead, left, v
  <2> QED BY <1>1, <1>2, <1>3, <1>4, <2>1, <2>4, TimelineTake DEF left
<1>9. CASE rest = <<>>
  <2>1. /\ \A h \in Range(segments) \ {segments[i]} : sequencesOf'[h] = sequencesOf[h]
        /\ sequencesOf'[g] = restOfSegment
        /\ OnlyChanged(s, virtualTrackId, resources, virtualTrackId', resources')
    BY <1>1, <1>2, <1>3, <1>6, <1>9 DEF OnlyChanged
  <2>2. CASE restOfSegment = <<>>
    <3>1. Range(sequencesOf[g]) = {s}
      BY <1>5, <2>2, EmptyList
    <3>2. segments' = RemoveAt(segments, i)
      BY <1>1, <1>6, <1>9, <2>2 DEF DeleteEmpty, DeleteItem
    <3>3. left = Emptied
      <4>1. ASSUME NEW w \in TrackIds, w # v PROVE left[w] = <<>>
        <5>1. \A t \in Range(sequencesOf[g]) : virtualTrackId[t] # w
          BY <3>1, <4>1 DEF v
        <5>2. Played(sequencesOf[g], virtualTrackId, resources)[w] = <<>>
          BY <5>1, SilentTrack
        <5> QED BY <1>1, <1>7, <4>1, <5>2
      <4> QED BY <1>7, <1>9, <4>1 DEF Emptied
    <3>4. Now' = RemoveAt(Now, i)
      <4>1. Sound(RemoveAt(segments, i), sequencesOf', virtualTrackId', resources')
        BY <1>2, <3>2
      <4>2. Contents(RemoveAt(segments, i), sequencesOf', virtualTrackId', resources')
                = RemoveAt(Contents(segments, sequencesOf, virtualTrackId, resources), i)
        BY <1>1, <1>2, <2>1, <4>1, ContentsDeleteSegment
      <4> QED BY <3>2, <4>2 DEF Now
    <3> QED BY <1>1, <1>2, <1>3, <1>4, <3>3, <3>4, TimelineTake DEF left
  <2>3. CASE restOfSegment # <<>>
    <3>1. PICK t \in Range(sequencesOf[g]) : t # s
      <4>1. Range(restOfSegment) # {}
        BY <1>5, <2>3, NonemptyList DEF IdLists
      <4> QED BY <1>5, <4>1
    <3>2. segments' = segments
      BY <1>6, <1>9, <2>3 DEF DeleteEmpty
    <3>3. left # Emptied
      <4>1. virtualTrackId[t] \in TrackIds \ {v}
        BY <1>3, <3>1 DEF OnePerTrack, v
      <4>2. left[virtualTrackId[t]] = resources[t] /\ resources[t] # <<>>
        BY <1>3, <1>7, <3>1, <4>1
      <4> QED BY <4>1, <4>2 DEF Emptied
    <3>4. Now' = [Now EXCEPT ![i] = left]
      <4>1. Range(sequencesOf'[segments[i]]) = Range(sequencesOf[segments[i]]) \ {s}
        BY <1>1, <1>5, <2>1
      <4>2. Sound(segments, sequencesOf', virtualTrackId', resources')
        BY <1>2, <3>2
      <4>3. Contents(segments, sequencesOf', virtualTrackId', resources')
                = Replaced(Contents(segments, sequencesOf, virtualTrackId, resources), i, virtualTrackId[s], <<>>)
        BY <1>1, <1>2, <2>1, <4>1, <4>2, ContentsDeleteSequence
      <4> QED BY <1>9, <3>2, <4>3 DEF Now, Replaced, PlayedInstead, left, v
    <3> QED BY <1>1, <1>2, <1>3, <1>4, <3>3, <3>4, TimelineTake DEF left
  <2> QED BY <2>2, <2>3
<1> QED BY <1>8, <1>9

LEMMA WriteRefines ==
    ASSUME EditorInv, Write
    PROVE  TL!Next
<1>1. /\ Sound(segments, sequencesOf, virtualTrackId, resources)
      /\ sequencesOf \in [SegmentIds -> IdLists(SequenceIds)]
  BY DEF EditorInv, Sound, ObjectsTyped
<1>2. ASSUME NEW g \in SegmentIds PROVE WrittenSequences(g) = sequencesOf[g]
  <2>1. \A s \in Range(sequencesOf[g]) : s \in Plays(segments, sequencesOf)
    BY <1>1, SoundFacts
  <2>2. \A s \in Range(sequencesOf[g]) : resources[s] # <<>>
    BY <1>1, <2>1 DEF Sound
  <2> QED BY <2>2 DEF WrittenSequences
<1>3. [g \in SegmentIds |-> WrittenSequences(g)] = sequencesOf
  BY <1>1, <1>2
<1>4. /\ file'.segmentList = segments /\ file'.sequenceList = sequencesOf
      /\ file'.trackId = virtualTrackId /\ file'.resourceList = resources
  BY <1>3 DEF Write
<1>5. /\ segments' = segments /\ sequencesOf' = sequencesOf
      /\ virtualTrackId' = virtualTrackId /\ resources' = resources
  BY DEF Write, playlistVars
<1>6. TL!Save
  BY <1>4, <1>5 DEF TL!Save
<1> QED BY <1>6 DEF TL!Next

LEMMA LoadRefines ==
    ASSUME Load
    PROVE  TL!Next
<1>1. /\ segments' = file.segmentList /\ sequencesOf' = file.sequenceList
      /\ resources' = file.resourceList /\ virtualTrackId' = file.trackId /\ file' = file
  BY DEF Load
<1>2. TL!Reopen
  BY <1>1 DEF TL!Reopen
<1> QED BY <1>2 DEF TL!Next

LEMMA TimelineInit == Init => TL!Init
<1> SUFFICES ASSUME Init PROVE TL!Init
  OBVIOUS
<1>1. /\ segments = <<>> /\ file.segmentList = <<>>
  BY DEF Init, EmptyFile
<1>2. \A items, trackOf, held : Contents(<<>>, items, trackOf, held) = <<>>
  <2> SUFFICES ASSUME NEW items, NEW trackOf, NEW held
               PROVE  Contents(<<>>, items, trackOf, held) = <<>>
    OBVIOUS
  <2>1. Len(<<>>) = 0 /\ DOMAIN Contents(<<>>, items, trackOf, held) = 1..Len(<<>>)
    BY EmptySeq DEF Contents
  <2>2. Contents(<<>>, items, trackOf, held) \in [1..0 -> {}]
    BY <2>1 DEF Contents
  <2>3. <<>> \in [1..0 -> {}]
    BY EmptySeq, SeqDef
  <2> QED BY <2>2, <2>3
<1> QED BY <1>1, <1>2 DEF TL!Init

(***************************************************************************)
(* The playlist behaves as a timeline: a drop puts one resource at one     *)
(* place of one track of one segment, or makes a segment for it; a delete  *)
(* takes one out, and its segment if nothing is left in it; all else stays *)
(* as it was, and opening brings back what was saved last (dropEvent,      *)
(* DeleteResourceAction, IMFCompositionPlaylist::Write and Load).          *)
(***************************************************************************)
THEOREM PlaylistIsTimeline == Spec => EditsTimeline
<1>1. Init => TL!Init
  BY TimelineInit
<1>2. EditorInv /\ EditorInv' /\ [Next]_vars => [TL!Next]_(TL!vars)
  <2> SUFFICES ASSUME EditorInv, EditorInv', [Next]_vars PROVE [TL!Next]_(TL!vars)
    OBVIOUS
  <2>1. CASE UNCHANGED vars
    BY <2>1 DEF vars, playlistVars, TL!vars
  <2>2. ASSUME NEW r \in FreshResources, Drop(r) PROVE TL!Next
    <3>1. CASE CreateFirstSegment(r)
      BY <3>1, CreateFirstSegmentRefines
    <3>2. ASSUME NEW g \in Range(segments), NEW row \in 0..Len(virtualTracks), NEW append \in BOOLEAN,
                 InsertSegment(g, append, row, r)
          PROVE  TL!Next
      BY <3>2, InsertSegmentRefines
    <3>3. ASSUME NEW g \in Range(segments), NEW row \in 0..Len(virtualTracks), AddResource(g, row, r)
          PROVE  TL!Next
      BY <3>3, AddResourceRefines
    <3>4. ASSUME NEW s \in InSegments, NEW other \in Range(resources[s]), NEW append \in BOOLEAN,
                 InsertResource(s, other, append, r)
          PROVE  TL!Next
      BY <3>4, InsertResourceRefines
    <3> QED BY <2>2, <3>1, <3>2, <3>3, <3>4 DEF Drop
  <2>3. ASSUME NEW g \in Range(segments), NEW s \in Range(sequencesOf[g]), NEW r \in Range(resources[s]),
               DeleteResource(g, s, r)
        PROVE  TL!Next
    BY <2>3, DeleteResourceRefines
  <2>4. CASE Write
    BY <2>4, WriteRefines
  <2>5. CASE Load
    BY <2>5, LoadRefines
  <2> QED BY <2>1, <2>2, <2>3, <2>4, <2>5 DEF Next, Edit
<1>3. Spec => []EditorInv
  BY EditorCorrect
<1> QED BY <1>1, <1>2, <1>3, PTL DEF Spec, EditsTimeline, TL!Spec
=============================================================================
