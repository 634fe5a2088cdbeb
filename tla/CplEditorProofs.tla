-------------------------- MODULE CplEditorProofs --------------------------
(***************************************************************************)
(* Proofs about CplEditor, for every set of segments, sequences, virtual   *)
(* tracks and resources.                                                   *)
(***************************************************************************)
EXTENDS CplEditor, SequenceTheorems, TLAPS

-----------------------------------------------------------------------------
(* The lists of the model: no element twice. *)

LEMMA ListElements ==
    ASSUME NEW S, NEW list \in Seq(S)
    PROVE  /\ Len(list) \in Nat /\ DOMAIN list = 1..Len(list)
           /\ \A k \in 1..Len(list) : list[k] \in S /\ list[k] \in Range(list)
           /\ Range(list) \subseteq S
           /\ \A x \in Range(list) : \E k \in 1..Len(list) : x = list[k]
BY LenProperties DEF Range

LEMMA EmptyList ==
    ASSUME NEW S
    PROVE  <<>> \in IdLists(S) /\ Range(<<>>) = {}
<1>1. DOMAIN <<>> = {} /\ <<>> \in Seq(S)
  BY EmptySeq, LenProperties
<1> QED BY <1>1 DEF IdLists, IsInjective, Range

LEMMA NonemptyList ==
    ASSUME NEW S, NEW list \in Seq(S)
    PROVE  list = <<>> <=> Range(list) = {}
<1>1. list # <<>> => Len(list) # 0
  BY EmptySeq
<1>2. list # <<>> => 1 \in 1..Len(list)
  BY <1>1, ListElements
<1> QED BY <1>2, ListElements, EmptyList

LEMMA SingleList ==
    ASSUME NEW S, NEW x \in S
    PROVE  <<x>> \in IdLists(S) /\ Range(<<x>>) = {x} /\ <<x>> # <<>>
<1>1. <<x>> \in Seq(S) /\ Len(<<x>>) = 1 /\ <<x>>[1] = x
  OBVIOUS
<1>2. DOMAIN <<x>> = {1}
  BY <1>1, LenProperties
<1>3. <<x>> # <<>>
  BY <1>1, EmptySeq
<1> QED BY <1>1, <1>2, <1>3 DEF IdLists, IsInjective, Range

LEMMA PositionFound ==
    ASSUME NEW S, NEW list \in Seq(S), NEW x \in Range(list)
    PROVE  PositionOf(list, x) \in 1..Len(list) /\ list[PositionOf(list, x)] = x
<1>1. \E k \in 1..Len(list) : list[k] = x
  BY ListElements
<1> QED BY <1>1 DEF PositionOf

LEMMA SliceList ==
    ASSUME NEW S, NEW list \in IdLists(S), NEW m \in Int, NEW n \in Int, m >= 1, n <= Len(list)
    PROVE  /\ SubSeq(list, m, n) \in IdLists(S)
           /\ \A x : x \in Range(SubSeq(list, m, n)) <=> \E k \in m..n : x = list[k]
<1> DEFINE t == SubSeq(list, m, n)
<1>1. /\ list \in Seq(S) /\ Len(list) \in Nat /\ DOMAIN list = 1..Len(list)
      /\ \A i, j \in 1..Len(list) : list[i] = list[j] => i = j
  BY ListElements DEF IdLists, IsInjective
<1>2. \A k \in m..n : list[k] \in S
  BY <1>1, ListElements
<1>3. /\ t \in Seq(S) /\ Len(t) = (IF m <= n THEN n - m + 1 ELSE 0)
      /\ \A k \in 1..(n - m + 1) : t[k] = list[m + k - 1]
  BY <1>2, SubSeqProperties
<1>4. DOMAIN t = 1..Len(t) /\ Len(t) \in Nat
  BY <1>3, ListElements
<1> HIDE DEF t
<1>5. IsInjective(t)
  <2> SUFFICES ASSUME NEW k \in 1..Len(t), NEW l \in 1..Len(t), t[k] = t[l] PROVE k = l
    BY <1>4 DEF IsInjective
  <2>1. k \in 1..(n - m + 1) /\ l \in 1..(n - m + 1)
    BY <1>3
  <2>2. m + k - 1 \in 1..Len(list) /\ m + l - 1 \in 1..Len(list)
    BY <1>1, <2>1
  <2>3. list[m + k - 1] = list[m + l - 1]
    BY <1>3, <2>1
  <2>4. m + k - 1 = m + l - 1
    BY <1>1, <2>2, <2>3
  <2> QED BY <2>4
<1>6. ASSUME NEW x PROVE x \in Range(t) <=> \E k \in m..n : x = list[k]
  <2>1. ASSUME NEW k \in 1..Len(t), x = t[k] PROVE \E l \in m..n : x = list[l]
    <3>1. m + k - 1 \in m..n /\ t[k] = list[m + k - 1]
      BY <1>3
    <3> QED BY <2>1, <3>1
  <2>2. ASSUME NEW k \in m..n, x = list[k] PROVE \E l \in 1..Len(t) : x = t[l]
    <3>1. k - m + 1 \in 1..(n - m + 1) /\ m + (k - m + 1) - 1 = k /\ Len(t) = n - m + 1
      BY <1>3
    <3>2. k - m + 1 \in 1..Len(t) /\ t[k - m + 1] = list[k]
      BY <1>3, <3>1
    <3> QED BY <2>2, <3>2
  <2> QED BY <1>4, <2>1, <2>2 DEF Range
<1> QED BY <1>3, <1>5, <1>6 DEF t, IdLists

LEMMA ConcatList ==
    ASSUME NEW S, NEW s \in IdLists(S), NEW t \in IdLists(S), Range(s) \cap Range(t) = {}
    PROVE  s \o t \in IdLists(S) /\ Range(s \o t) = Range(s) \cup Range(t)
<1> DEFINE u == s \o t
<1>1. /\ s \in Seq(S) /\ t \in Seq(S) /\ IsInjective(s) /\ IsInjective(t)
  BY DEF IdLists
<1>2. /\ u \in Seq(S) /\ Len(u) = Len(s) + Len(t)
      /\ \A k \in 1..Len(s) + Len(t) : u[k] = IF k <= Len(s) THEN s[k] ELSE t[k - Len(s)]
  BY <1>1, ConcatProperties
<1>3. /\ Len(s) \in Nat /\ Len(t) \in Nat
      /\ DOMAIN s = 1..Len(s) /\ DOMAIN t = 1..Len(t) /\ DOMAIN u = 1..Len(s) + Len(t)
      /\ \A k \in 1..Len(s) : s[k] \in Range(s)
      /\ \A k \in 1..Len(t) : t[k] \in Range(t)
  BY <1>1, <1>2, ListElements
<1> HIDE DEF u
<1>4. /\ \A k \in 1..Len(s) : k \in 1..Len(s) + Len(t) /\ u[k] = s[k]
      /\ \A k \in 1..Len(t) : k + Len(s) \in 1..Len(s) + Len(t) /\ u[k + Len(s)] = t[k]
  <2>1. ASSUME NEW k \in 1..Len(s) PROVE k \in 1..Len(s) + Len(t) /\ u[k] = s[k]
    BY <1>2, <1>3
  <2>2. ASSUME NEW k \in 1..Len(t) PROVE k + Len(s) \in 1..Len(s) + Len(t) /\ u[k + Len(s)] = t[k]
    <3>1. /\ k + Len(s) \in 1..Len(s) + Len(t) /\ ~(k + Len(s) <= Len(s))
          /\ (k + Len(s)) - Len(s) = k
      BY <1>3
    <3> QED BY <1>2, <3>1
  <2> QED BY <2>1, <2>2
<1>5. ASSUME NEW k \in 1..Len(s) + Len(t)
      PROVE  \/ k \in 1..Len(s) /\ u[k] = s[k]
             \/ k - Len(s) \in 1..Len(t) /\ u[k] = t[k - Len(s)]
  BY <1>2, <1>3
<1>6. IsInjective(u)
  <2> SUFFICES ASSUME NEW k \in 1..Len(s) + Len(t), NEW l \in 1..Len(s) + Len(t), u[k] = u[l] PROVE k = l
    BY <1>3 DEF IsInjective
  <2>1. CASE k \in 1..Len(s) /\ l \in 1..Len(s)
    BY <1>1, <1>3, <1>4, <2>1 DEF IsInjective
  <2>2. CASE k \notin 1..Len(s) /\ l \notin 1..Len(s)
    <3>1. /\ k - Len(s) \in 1..Len(t) /\ l - Len(s) \in 1..Len(t)
          /\ t[k - Len(s)] = t[l - Len(s)]
      BY <1>5, <2>2
    <3>2. k - Len(s) = l - Len(s)
      BY <1>1, <1>3, <3>1 DEF IsInjective
    <3> QED BY <1>3, <3>2
  <2>3. CASE k \in 1..Len(s) /\ l \notin 1..Len(s)
    BY <1>3, <1>4, <1>5, <2>3
  <2>4. CASE k \notin 1..Len(s) /\ l \in 1..Len(s)
    BY <1>3, <1>4, <1>5, <2>4
  <2> QED BY <2>1, <2>2, <2>3, <2>4
<1>7. Range(u) = Range(s) \cup Range(t)
  <2>1. Range(u) \subseteq Range(s) \cup Range(t)
    BY <1>3, <1>5 DEF Range
  <2>2. Range(s) \subseteq Range(u)
    BY <1>3, <1>4 DEF Range
  <2>3. Range(t) \subseteq Range(u)
    <3> SUFFICES ASSUME NEW k \in 1..Len(t) PROVE t[k] \in Range(u)
      BY <1>3 DEF Range
    <3>1. k + Len(s) \in DOMAIN u /\ u[k + Len(s)] = t[k]
      BY <1>3, <1>4
    <3> QED BY <3>1 DEF Range
  <2> QED BY <2>1, <2>2, <2>3
<1> QED BY <1>2, <1>6, <1>7 DEF u, IdLists

LEMMA AppendList ==
    ASSUME NEW S, NEW list \in IdLists(S), NEW x \in S \ Range(list)
    PROVE  Append(list, x) \in IdLists(S) /\ Range(Append(list, x)) = Range(list) \cup {x}
<1>1. Append(list, x) = list \o <<x>>
  BY AppendIsConcat DEF IdLists
<1>2. <<x>> \in IdLists(S) /\ Range(<<x>>) = {x}
  BY SingleList
<1> QED BY <1>1, <1>2, ConcatList

(* InsertItemAfter and InsertItemBefore add the item and nothing else. *)
LEMMA InsertList ==
    ASSUME NEW S, NEW list \in IdLists(S), NEW other \in Range(list), NEW append \in BOOLEAN,
           NEW x \in S \ Range(list)
    PROVE  /\ InsertBeside(list, other, append, x) \in IdLists(S)
           /\ Range(InsertBeside(list, other, append, x)) = Range(list) \cup {x}
<1> DEFINE i == PositionOf(list, other) + (IF append THEN 1 ELSE 0)
           a == SubSeq(list, 1, i - 1)
           b == SubSeq(list, i, Len(list))
<1>1. /\ list \in Seq(S) /\ Len(list) \in Nat
      /\ \A k, l \in 1..Len(list) : list[k] = list[l] => k = l
      /\ \A k \in 1..Len(list) : list[k] \in Range(list)
      /\ \A y \in Range(list) : \E k \in 1..Len(list) : y = list[k]
  BY ListElements DEF IdLists, IsInjective
<1>2. i \in 1..Len(list) + 1
  BY <1>1, PositionFound
<1> HIDE DEF i
<1>3. /\ a \in IdLists(S) /\ \A y : y \in Range(a) <=> \E k \in 1..(i - 1) : y = list[k]
  <2>1. 1 \in Int /\ i - 1 \in Int /\ 1 >= 1 /\ i - 1 <= Len(list)
    BY <1>1, <1>2
  <2> QED BY <2>1, SliceList, Zenon
<1>4. /\ b \in IdLists(S) /\ \A y : y \in Range(b) <=> \E k \in i..Len(list) : y = list[k]
  <2>1. i \in Int /\ Len(list) \in Int /\ i >= 1 /\ Len(list) <= Len(list)
    BY <1>1, <1>2
  <2> QED BY <2>1, SliceList, Zenon
<1> HIDE DEF a, b
<1>5. Range(a) \cap Range(b) = {}
  <2> SUFFICES ASSUME NEW k \in 1..(i - 1), NEW l \in i..Len(list), list[k] = list[l] PROVE FALSE
    BY <1>3, <1>4
  <2>1. k \in 1..Len(list) /\ l \in 1..Len(list) /\ k # l
    BY <1>1, <1>2
  <2> QED BY <1>1, <2>1
<1>6. Range(a) \cup Range(b) = Range(list)
  <2>1. ASSUME NEW k \in 1..(i - 1) PROVE list[k] \in Range(list)
    BY <1>1, <1>2
  <2>2. ASSUME NEW k \in i..Len(list) PROVE list[k] \in Range(list)
    BY <1>1, <1>2
  <2>3. ASSUME NEW k \in 1..Len(list) PROVE k \in 1..(i - 1) \/ k \in i..Len(list)
    BY <1>1, <1>2
  <2>4. Range(list) \subseteq Range(a) \cup Range(b)
    BY <1>1, <1>3, <1>4, <2>3
  <2> QED BY <1>3, <1>4, <2>1, <2>2, <2>4
<1>7. <<x>> \in IdLists(S) /\ Range(<<x>>) = {x}
  BY SingleList
<1>8. a \o <<x>> \in IdLists(S) /\ Range(a \o <<x>>) = Range(a) \cup {x}
  BY <1>3, <1>6, <1>7, ConcatList
<1>9. (a \o <<x>>) \o b \in IdLists(S) /\ Range((a \o <<x>>) \o b) = (Range(a) \cup {x}) \cup Range(b)
  BY <1>4, <1>5, <1>6, <1>8, ConcatList
<1>10. InsertBeside(list, other, append, x) = (a \o <<x>>) \o b
  BY DEF InsertBeside, InsertAt, a, b, i
<1> QED BY <1>6, <1>9, <1>10

(* DeleteItem takes the item out and nothing else. *)
LEMMA DeleteList ==
    ASSUME NEW S, NEW list \in IdLists(S), NEW x
    PROVE  DeleteItem(list, x) \in IdLists(S) /\ Range(DeleteItem(list, x)) = Range(list) \ {x}
<1>1. CASE x \notin Range(list)
  BY <1>1 DEF DeleteItem
<1>2. CASE x \in Range(list)
  <2> DEFINE i == PositionOf(list, x)
             a == SubSeq(list, 1, i - 1)
             b == SubSeq(list, i + 1, Len(list))
  <2>1. /\ list \in Seq(S) /\ Len(list) \in Nat
        /\ \A k, l \in 1..Len(list) : list[k] = list[l] => k = l
        /\ \A k \in 1..Len(list) : list[k] \in Range(list)
        /\ \A y \in Range(list) : \E k \in 1..Len(list) : y = list[k]
    BY ListElements DEF IdLists, IsInjective
  <2>2. i \in 1..Len(list) /\ list[i] = x
    BY <1>2, <2>1, PositionFound
  <2> HIDE DEF i
  <2>3. /\ a \in IdLists(S) /\ \A y : y \in Range(a) <=> \E k \in 1..(i - 1) : y = list[k]
    <3>1. 1 \in Int /\ i - 1 \in Int /\ 1 >= 1 /\ i - 1 <= Len(list)
      BY <2>1, <2>2
    <3> QED BY <3>1, SliceList, Zenon
  <2>4. /\ b \in IdLists(S) /\ \A y : y \in Range(b) <=> \E k \in (i + 1)..Len(list) : y = list[k]
    <3>1. i + 1 \in Int /\ Len(list) \in Int /\ i + 1 >= 1 /\ Len(list) <= Len(list)
      BY <2>1, <2>2
    <3> QED BY <3>1, SliceList, Zenon
  <2> HIDE DEF a, b
  <2>5. Range(a) \cap Range(b) = {}
    <3> SUFFICES ASSUME NEW k \in 1..(i - 1), NEW l \in (i + 1)..Len(list), list[k] = list[l] PROVE FALSE
      BY <2>3, <2>4
    <3>1. k \in 1..Len(list) /\ l \in 1..Len(list) /\ k # l
      BY <2>1, <2>2
    <3> QED BY <2>1, <3>1
  <2>6. Range(a) \cup Range(b) = Range(list) \ {x}
    <3>1. ASSUME NEW k \in 1..(i - 1) PROVE list[k] \in Range(list) \ {x}
      <4>1. k \in 1..Len(list) /\ k # i
        BY <2>1, <2>2
      <4> QED BY <2>1, <2>2, <4>1
    <3>2. ASSUME NEW k \in (i + 1)..Len(list) PROVE list[k] \in Range(list) \ {x}
      <4>1. k \in 1..Len(list) /\ k # i
        BY <2>1, <2>2
      <4> QED BY <2>1, <2>2, <4>1
    <3>3. ASSUME NEW k \in 1..Len(list) PROVE k \in 1..(i - 1) \/ k \in (i + 1)..Len(list) \/ k = i
      BY <2>1, <2>2
    <3>4. Range(list) \ {x} \subseteq Range(a) \cup Range(b)
      BY <2>1, <2>2, <2>3, <2>4, <3>3
    <3> QED BY <2>3, <2>4, <3>1, <3>2, <3>4
  <2>7. a \o b \in IdLists(S) /\ Range(a \o b) = Range(a) \cup Range(b)
    BY <2>3, <2>4, <2>5, ConcatList
  <2>8. DeleteItem(list, x) = a \o b
    BY <1>2 DEF DeleteItem, RemoveAt, a, b, i
  <2> QED BY <2>6, <2>7, <2>8
<1> QED BY <1>1, <1>2

-----------------------------------------------------------------------------
(* The playlist as objects, in memory or in the file: its list of segments, *)
(* the sequences of each, and the track and resources of each sequence.     *)

Plays(list, items) == {s \in SequenceIds : \E g \in Range(list) : s \in Range(items[g])}

ObjectsTyped(list, items, trackOf, held) ==
    /\ list \in IdLists(SegmentIds)
    /\ items \in [SegmentIds -> IdLists(SequenceIds)]
    /\ trackOf \in [SequenceIds -> TrackIds \cup {NoTrack}]
    /\ held \in [SequenceIds -> IdLists(ResourceIds)]

(* A segment has sequences exactly if it is in the playlist, no two share   *)
(* one, and a sequence that plays has resources and a virtual track, which  *)
(* is that of no other sequence of its segment.                             *)
Sound(list, items, trackOf, held) ==
    /\ ObjectsTyped(list, items, trackOf, held)
    /\ \A g \in SegmentIds : g \in Range(list) <=> items[g] # <<>>
    /\ \A g, k \in SegmentIds : g # k => Range(items[g]) \cap Range(items[k]) = {}
    /\ \A s \in Plays(list, items) : held[s] # <<>> /\ trackOf[s] \in TrackIds
    /\ \A g \in SegmentIds : \A s, t \in Range(items[g]) : trackOf[s] = trackOf[t] => s = t

(* The same, and P are the sequences that play. *)
SoundPlaying(list, items, trackOf, held, P) ==
    Sound(list, items, trackOf, held) /\ Plays(list, items) = P

LEMMA SoundFacts ==
    ASSUME NEW list, NEW items, NEW trackOf, NEW held, Sound(list, items, trackOf, held)
    PROVE  /\ list \in IdLists(SegmentIds) /\ Range(list) \subseteq SegmentIds
           /\ \A g \in SegmentIds : items[g] \in IdLists(SequenceIds) /\ Range(items[g]) \subseteq SequenceIds
           /\ \A g \in SegmentIds : g \notin Range(list) => Range(items[g]) = {}
           /\ \A s : s \in Plays(list, items) <=> \E g \in SegmentIds : s \in Range(items[g])
<1>1. list \in IdLists(SegmentIds) /\ items \in [SegmentIds -> IdLists(SequenceIds)]
  BY DEF Sound, ObjectsTyped
<1>2. Range(list) \subseteq SegmentIds
  BY <1>1, ListElements DEF IdLists
<1>3. \A g \in SegmentIds : items[g] \in IdLists(SequenceIds) /\ Range(items[g]) \subseteq SequenceIds
  BY <1>1, ListElements DEF IdLists
<1>4. ASSUME NEW g \in SegmentIds, g \notin Range(list) PROVE Range(items[g]) = {}
  <2>1. items[g] = <<>>
    BY <1>4 DEF Sound
  <2> QED BY <2>1, EmptyList
<1>5. \A s : s \in Plays(list, items) <=> \E g \in SegmentIds : s \in Range(items[g])
  BY <1>2, <1>3, <1>4 DEF Plays
<1> QED BY <1>1, <1>2, <1>3, <1>4, <1>5

LEMMA SoundEmpty ==
    ASSUME NEW trackOf \in [SequenceIds -> TrackIds \cup {NoTrack}]
    PROVE  LET items == [g \in SegmentIds |-> <<>>]
               held == [s \in SequenceIds |-> <<>>]
           IN  Sound(<<>>, items, trackOf, held) /\ Plays(<<>>, items) = {}
BY EmptyList DEF Sound, ObjectsTyped, Plays

(* A new segment with one new sequence of one resource. *)
LEMMA SoundAddSegment ==
    ASSUME NEW list, NEW items, NEW trackOf, NEW held, Sound(list, items, trackOf, held),
           NEW g \in SegmentIds \ Range(list), NEW s \in SequenceIds \ Plays(list, items),
           NEW v \in TrackIds, NEW r \in ResourceIds,
           NEW list2 \in IdLists(SegmentIds), Range(list2) = Range(list) \cup {g}
    PROVE  LET items2 == [items EXCEPT ![g] = <<s>>]
               trackOf2 == [trackOf EXCEPT ![s] = v]
               held2 == [held EXCEPT ![s] = <<r>>]
           IN  SoundPlaying(list2, items2, trackOf2, held2, Plays(list, items) \cup {s})
<1> DEFINE items2 == [items EXCEPT ![g] = <<s>>]
           trackOf2 == [trackOf EXCEPT ![s] = v]
           held2 == [held EXCEPT ![s] = <<r>>]
<1>1. /\ <<s>> \in IdLists(SequenceIds) /\ Range(<<s>>) = {s} /\ <<s>> # <<>>
      /\ <<r>> \in IdLists(ResourceIds) /\ <<r>> # <<>>
  BY SingleList
<1>2. ObjectsTyped(list2, items2, trackOf2, held2)
  BY <1>1 DEF Sound, ObjectsTyped
<1>3. /\ items2[g] = <<s>> /\ \A k \in SegmentIds \ {g} : items2[k] = items[k]
      /\ trackOf2[s] = v /\ \A t \in SequenceIds \ {s} : trackOf2[t] = trackOf[t]
      /\ held2[s] = <<r>> /\ \A t \in SequenceIds \ {s} : held2[t] = held[t]
  BY DEF Sound, ObjectsTyped
<1>4. \A k \in SegmentIds : s \notin Range(items[k]) /\ Range(items[k]) \subseteq SequenceIds
  BY SoundFacts
<1>5. \A k \in SegmentIds : k # g => Range(items2[k]) = Range(items[k])
  BY <1>3
<1>6. Range(items2[g]) = {s}
  BY <1>1, <1>3
<1>7. Plays(list2, items2) = Plays(list, items) \cup {s}
  BY <1>5, <1>6, SoundFacts DEF Plays
<1>8. \A k \in SegmentIds : k \in Range(list2) <=> items2[k] # <<>>
  BY <1>1, <1>3 DEF Sound
<1>9. \A k, l \in SegmentIds : k # l => Range(items2[k]) \cap Range(items2[l]) = {}
  BY <1>4, <1>5, <1>6 DEF Sound
<1>10. \A t \in Plays(list2, items2) : held2[t] # <<>> /\ trackOf2[t] \in TrackIds
  BY <1>1, <1>3, <1>7 DEF Sound, Plays
<1>11. \A k \in SegmentIds : \A t, u \in Range(items2[k]) : trackOf2[t] = trackOf2[u] => t = u
  <2> SUFFICES ASSUME NEW k \in SegmentIds, NEW t \in Range(items2[k]), NEW u \in Range(items2[k]),
                      trackOf2[t] = trackOf2[u]
               PROVE  t = u
    OBVIOUS
  <2>1. CASE k = g
    BY <1>6, <2>1
  <2>2. CASE k # g
    BY <1>3, <1>4, <1>5, <2>2 DEF Sound
  <2> QED BY <2>1, <2>2
<1> QED BY <1>2, <1>7, <1>8, <1>9, <1>10, <1>11 DEF Sound, SoundPlaying

(* A new sequence in a segment that has none of its track. *)
LEMMA SoundAddSequence ==
    ASSUME NEW list, NEW items, NEW trackOf, NEW held, Sound(list, items, trackOf, held),
           NEW g \in Range(list), NEW s \in SequenceIds \ Plays(list, items),
           NEW v \in TrackIds, \A t \in Range(items[g]) : trackOf[t] # v, NEW r \in ResourceIds
    PROVE  LET items2 == [items EXCEPT ![g] = Append(@, s)]
               trackOf2 == [trackOf EXCEPT ![s] = v]
               held2 == [held EXCEPT ![s] = <<r>>]
           IN  SoundPlaying(list, items2, trackOf2, held2, Plays(list, items) \cup {s})
<1> DEFINE items2 == [items EXCEPT ![g] = Append(@, s)]
           trackOf2 == [trackOf EXCEPT ![s] = v]
           held2 == [held EXCEPT ![s] = <<r>>]
<1>1. /\ g \in SegmentIds /\ items[g] \in IdLists(SequenceIds)
      /\ \A k \in SegmentIds : s \notin Range(items[k]) /\ Range(items[k]) \subseteq SequenceIds
  BY SoundFacts
<1>2. /\ Append(items[g], s) \in IdLists(SequenceIds)
      /\ Range(Append(items[g], s)) = Range(items[g]) \cup {s}
      /\ Append(items[g], s) # <<>>
  <2>1. s \in SequenceIds \ Range(items[g])
    BY <1>1
  <2>2. /\ Append(items[g], s) \in IdLists(SequenceIds)
        /\ Range(Append(items[g], s)) = Range(items[g]) \cup {s}
    BY <1>1, <2>1, AppendList
  <2> QED BY <2>2, EmptyList
<1>3. <<r>> \in IdLists(ResourceIds) /\ <<r>> # <<>>
  BY SingleList
<1>4. ObjectsTyped(list, items2, trackOf2, held2)
  BY <1>1, <1>2, <1>3 DEF Sound, ObjectsTyped
<1>5. /\ items2[g] = Append(items[g], s) /\ \A k \in SegmentIds \ {g} : items2[k] = items[k]
      /\ trackOf2[s] = v /\ \A t \in SequenceIds \ {s} : trackOf2[t] = trackOf[t]
      /\ held2[s] = <<r>> /\ \A t \in SequenceIds \ {s} : held2[t] = held[t]
  BY <1>1 DEF Sound, ObjectsTyped
<1>6. \A k \in SegmentIds : k # g => Range(items2[k]) = Range(items[k])
  BY <1>5
<1>7. Range(items2[g]) = Range(items[g]) \cup {s}
  BY <1>2, <1>5
<1>8. Plays(list, items2) = Plays(list, items) \cup {s}
  BY <1>1, <1>6, <1>7, SoundFacts DEF Plays
<1>9. \A k \in SegmentIds : k \in Range(list) <=> items2[k] # <<>>
  BY <1>2, <1>5 DEF Sound
<1>10. \A k, l \in SegmentIds : k # l => Range(items2[k]) \cap Range(items2[l]) = {}
  BY <1>1, <1>6, <1>7 DEF Sound
<1>11. \A t \in Plays(list, items2) : held2[t] # <<>> /\ trackOf2[t] \in TrackIds
  BY <1>3, <1>5, <1>8 DEF Sound, Plays
<1>12. \A k \in SegmentIds : \A t, u \in Range(items2[k]) : trackOf2[t] = trackOf2[u] => t = u
  <2> SUFFICES ASSUME NEW k \in SegmentIds, NEW t \in Range(items2[k]), NEW u \in Range(items2[k]),
                      trackOf2[t] = trackOf2[u]
               PROVE  t = u
    OBVIOUS
  <2>1. CASE k = g
    BY <1>1, <1>5, <1>7, <2>1 DEF Sound
  <2>2. CASE k # g
    BY <1>1, <1>5, <1>6, <2>2 DEF Sound
  <2> QED BY <2>1, <2>2
<1> QED BY <1>4, <1>8, <1>9, <1>10, <1>11, <1>12 DEF Sound, SoundPlaying

(* A sequence gets other resources, but not none. *)
LEMMA SoundChangeResources ==
    ASSUME NEW list, NEW items, NEW trackOf, NEW held, Sound(list, items, trackOf, held),
           NEW s \in SequenceIds, NEW rest \in IdLists(ResourceIds), rest # <<>>,
           NEW held2, held2 = [held EXCEPT ![s] = rest]
    PROVE  Sound(list, items, trackOf, held2)
<1>1. held2 \in [SequenceIds -> IdLists(ResourceIds)] /\ held2[s] = rest
      /\ \A t \in SequenceIds \ {s} : held2[t] = held[t]
  BY DEF Sound, ObjectsTyped
<1>2. \A t \in Plays(list, items) : held2[t] # <<>>
  BY <1>1 DEF Sound, Plays
<1> QED BY <1>1, <1>2 DEF Sound, ObjectsTyped

(* A sequence goes, and its segment with it when it was the last one. *)
LEMMA SoundDeleteSequence ==
    ASSUME NEW list, NEW items, NEW trackOf, NEW held, Sound(list, items, trackOf, held),
           NEW g \in Range(list), NEW s \in Range(items[g]),
           NEW rest \in IdLists(SequenceIds), Range(rest) = Range(items[g]) \ {s},
           NEW list2 \in IdLists(SegmentIds),
           Range(list2) = IF rest = <<>> THEN Range(list) \ {g} ELSE Range(list)
    PROVE  LET items2 == [items EXCEPT ![g] = rest]
               trackOf2 == [trackOf EXCEPT ![s] = NoTrack]
               held2 == [held EXCEPT ![s] = <<>>]
           IN  SoundPlaying(list2, items2, trackOf2, held2, Plays(list, items) \ {s})
<1> DEFINE items2 == [items EXCEPT ![g] = rest]
           trackOf2 == [trackOf EXCEPT ![s] = NoTrack]
           held2 == [held EXCEPT ![s] = <<>>]
<1>1. /\ g \in SegmentIds /\ items[g] \in IdLists(SequenceIds) /\ s \in SequenceIds
      /\ \A k \in SegmentIds : Range(items[k]) \subseteq SequenceIds
      /\ \A k \in SegmentIds : k # g => s \notin Range(items[k])
  <2>1. g \in SegmentIds
    BY SoundFacts
  <2>2. \A k \in SegmentIds : Range(items[k]) \subseteq SequenceIds /\ items[k] \in IdLists(SequenceIds)
    BY SoundFacts
  <2>3. \A k \in SegmentIds : k # g => Range(items[k]) \cap Range(items[g]) = {}
    BY <2>1 DEF Sound
  <2> QED BY <2>1, <2>2, <2>3
<1>2. ObjectsTyped(list2, items2, trackOf2, held2)
  BY <1>1, EmptyList DEF Sound, ObjectsTyped
<1>3. /\ items2[g] = rest /\ \A k \in SegmentIds \ {g} : items2[k] = items[k]
      /\ \A t \in SequenceIds \ {s} : trackOf2[t] = trackOf[t] /\ held2[t] = held[t]
  BY <1>1 DEF Sound, ObjectsTyped
<1>4. \A k \in SegmentIds : k # g => Range(items2[k]) = Range(items[k])
  BY <1>3
<1>5. Range(items2[g]) = Range(items[g]) \ {s}
  BY <1>3
<1>6. \A k \in SegmentIds : k \in Range(list2) <=> items2[k] # <<>>
  <2>1. ASSUME NEW k \in SegmentIds PROVE k \in Range(list) <=> items[k] # <<>>
    BY DEF Sound
  <2> QED BY <1>3, <2>1
<1>7. Plays(list2, items2) = Plays(list, items) \ {s}
  <2>1. \A t : t \in Plays(list, items) <=> \E k \in SegmentIds : t \in Range(items[k])
    BY SoundFacts
  <2>2. \A k \in SegmentIds : k \notin Range(list2) => Range(items2[k]) = {}
    BY <1>6, EmptyList
  <2>3. Range(list2) \subseteq SegmentIds
    BY ListElements DEF IdLists
  <2>4. \A t : t \in Plays(list2, items2) <=> \E k \in SegmentIds : t \in Range(items2[k])
    BY <1>1, <1>4, <1>5, <2>2, <2>3 DEF Plays
  <2>5. \A k \in SegmentIds : Range(items2[k]) = Range(items[k]) \ {s}
    BY <1>1, <1>4, <1>5
  <2>6. ASSUME NEW t PROVE t \in Plays(list2, items2) <=> t \in Plays(list, items) \ {s}
    <3>1. ASSUME NEW k \in SegmentIds PROVE t \in Range(items2[k]) <=> t \in Range(items[k]) /\ t # s
      BY <2>5
    <3> QED BY <2>1, <2>4, <3>1, Zenon
  <2> QED BY <2>6, Zenon
<1>8. \A k, l \in SegmentIds : k # l => Range(items2[k]) \cap Range(items2[l]) = {}
  BY <1>4, <1>5 DEF Sound
<1>9. \A t \in Plays(list2, items2) : held2[t] # <<>> /\ trackOf2[t] \in TrackIds
  BY <1>3, <1>7 DEF Sound, Plays
<1>10. \A k \in SegmentIds : \A t, u \in Range(items2[k]) : trackOf2[t] = trackOf2[u] => t = u
  <2> SUFFICES ASSUME NEW k \in SegmentIds, NEW t \in Range(items2[k]), NEW u \in Range(items2[k]),
                      trackOf2[t] = trackOf2[u]
               PROVE  t = u
    OBVIOUS
  <2>1. t \in Range(items[k]) \ {s} /\ u \in Range(items[k]) \ {s}
    BY <1>1, <1>4, <1>5
  <2>2. trackOf[t] = trackOf[u]
    BY <1>1, <1>3, <2>1
  <2> QED BY <2>1, <2>2 DEF Sound
<1> QED BY <1>2, <1>6, <1>7, <1>8, <1>9, <1>10 DEF Sound, SoundPlaying

-----------------------------------------------------------------------------
(* The virtual tracks: each lists the sequences that name it, and every     *)
(* track of the playlist lists one.  P are the sequences that play.         *)

Views(tracks, listed, P, trackOf) ==
    /\ tracks \in IdLists(TrackIds)
    /\ listed \in [TrackIds -> SUBSET SequenceIds]
    /\ \A s \in SequenceIds, v \in TrackIds : s \in listed[v] <=> s \in P /\ trackOf[s] = v
    /\ \A s \in P : trackOf[s] \in Range(tracks)
    /\ \A v \in Range(tracks) : listed[v] # {}

LEMMA ViewsAddSequence ==
    ASSUME NEW tracks, NEW listed, NEW P \in SUBSET SequenceIds, NEW trackOf, Views(tracks, listed, P, trackOf),
           trackOf \in [SequenceIds -> TrackIds \cup {NoTrack}],
           NEW s \in SequenceIds \ P, NEW v \in TrackIds,
           NEW tracks2 \in IdLists(TrackIds), Range(tracks2) = Range(tracks) \cup {v}
    PROVE  Views(tracks2, [listed EXCEPT ![v] = @ \cup {s}], P \cup {s}, [trackOf EXCEPT ![s] = v])
<1> DEFINE listed2 == [listed EXCEPT ![v] = @ \cup {s}]
           trackOf2 == [trackOf EXCEPT ![s] = v]
<1>1. /\ listed \in [TrackIds -> SUBSET SequenceIds]
      /\ listed2[v] = listed[v] \cup {s} /\ \A w \in TrackIds \ {v} : listed2[w] = listed[w]
      /\ trackOf2[s] = v /\ \A t \in SequenceIds \ {s} : trackOf2[t] = trackOf[t]
  BY DEF Views
<1>2. listed2 \in [TrackIds -> SUBSET SequenceIds]
  BY DEF Views
<1>3. \A t \in SequenceIds, w \in TrackIds : t \in listed2[w] <=> t \in P \cup {s} /\ trackOf2[t] = w
  <2> SUFFICES ASSUME NEW t \in SequenceIds, NEW w \in TrackIds
               PROVE  t \in listed2[w] <=> t \in P \cup {s} /\ trackOf2[t] = w
    OBVIOUS
  <2>1. t \in listed[w] <=> t \in P /\ trackOf[t] = w
    BY DEF Views
  <2>2. CASE t = s
    BY <1>1, <2>1, <2>2
  <2>3. CASE t # s
    BY <1>1, <2>1, <2>3
  <2> QED BY <2>2, <2>3
<1>4. \A t \in P \cup {s} : trackOf2[t] \in Range(tracks2)
  BY <1>1 DEF Views
<1>5. \A w \in Range(tracks2) : listed2[w] # {}
  <2>1. Range(tracks) \subseteq TrackIds
    BY ListElements DEF Views, IdLists
  <2> QED BY <1>1, <2>1 DEF Views
<1> QED BY <1>2, <1>3, <1>4, <1>5 DEF Views

LEMMA ViewsDeleteSequence ==
    ASSUME NEW tracks, NEW listed, NEW P \in SUBSET SequenceIds, NEW trackOf, Views(tracks, listed, P, trackOf),
           trackOf \in [SequenceIds -> TrackIds \cup {NoTrack}],
           NEW s \in P, NEW v \in TrackIds, v = trackOf[s],
           NEW tracks2 \in IdLists(TrackIds),
           Range(tracks2) = IF listed[v] \ {s} = {} THEN Range(tracks) \ {v} ELSE Range(tracks)
    PROVE  Views(tracks2, [listed EXCEPT ![v] = listed[v] \ {s}], P \ {s}, [trackOf EXCEPT ![s] = NoTrack])
<1> DEFINE listed2 == [listed EXCEPT ![v] = listed[v] \ {s}]
           trackOf2 == [trackOf EXCEPT ![s] = NoTrack]
<1>1. /\ listed \in [TrackIds -> SUBSET SequenceIds]
      /\ listed2[v] = listed[v] \ {s} /\ \A w \in TrackIds \ {v} : listed2[w] = listed[w]
      /\ \A t \in SequenceIds \ {s} : trackOf2[t] = trackOf[t]
  BY DEF Views
<1>2. listed2 \in [TrackIds -> SUBSET SequenceIds]
  BY DEF Views
<1>3. \A t \in SequenceIds, w \in TrackIds : t \in listed[w] <=> t \in P /\ trackOf[t] = w
  BY DEF Views
<1>4. \A t \in SequenceIds, w \in TrackIds : t \in listed2[w] <=> t \in P \ {s} /\ trackOf2[t] = w
  <2> SUFFICES ASSUME NEW t \in SequenceIds, NEW w \in TrackIds
               PROVE  t \in listed2[w] <=> t \in P \ {s} /\ trackOf2[t] = w
    OBVIOUS
  <2>1. CASE t = s
    BY <1>1, <1>3, <2>1
  <2>2. CASE t # s
    BY <1>1, <1>3, <2>2
  <2> QED BY <2>1, <2>2
<1>5. \A t \in P \ {s} : trackOf2[t] \in Range(tracks2)
  <2> SUFFICES ASSUME NEW t \in P \ {s} PROVE trackOf[t] \in Range(tracks2)
    BY <1>1
  <2>1. trackOf[t] \in Range(tracks)
    BY DEF Views
  <2>2. trackOf[t] = v => t \in listed[v] \ {s}
    BY <1>3
  <2> QED BY <2>1, <2>2
<1>6. \A w \in Range(tracks2) : listed2[w] # {}
  <2>1. Range(tracks) \subseteq TrackIds
    BY ListElements DEF Views, IdLists
  <2> QED BY <1>1, <2>1 DEF Views
<1> QED BY <1>2, <1>4, <1>5, <1>6 DEF Views

(* The scene, repainted for the playlist as it is now. *)
Painted(tracks, P, trackOf, map, index) ==
    /\ map \in [TrackIds -> Nat]
    /\ index \in [SequenceIds -> Nat \cup {NoRow}]
    /\ \A s \in P : /\ index[s] \in 0..Len(tracks) - 1
                    /\ tracks[index[s] + 1] = trackOf[s]

EditorInv ==
    /\ Sound(segments, sequencesOf, virtualTrackId, resources)
    /\ Sound(file.segmentList, file.sequenceList, file.trackId, file.resourceList)
    /\ Views(virtualTracks, trackItems, InSegments, virtualTrackId)
    /\ Painted(virtualTracks, InSegments, virtualTrackId, trackMap, trackIndex)

LEMMA RepaintPaints ==
    ASSUME trackMap \in [TrackIds -> Nat], Repaint,
           Views(virtualTracks, trackItems, InSegments, virtualTrackId)'
    PROVE  Painted(virtualTracks, InSegments, virtualTrackId, trackMap, trackIndex)'
<1> DEFINE tracks == virtualTracks'
<1>1. /\ tracks \in Seq(TrackIds) /\ Len(tracks) \in Nat /\ Range(tracks) \subseteq TrackIds
      /\ \A v \in Range(tracks) : PositionOf(tracks, v) \in 1..Len(tracks) /\ tracks[PositionOf(tracks, v)] = v
  BY ListElements, PositionFound DEF Views, IdLists
<1>2. trackMap' = [v \in TrackIds |-> IF v \in Range(tracks) THEN PositionOf(tracks, v) - 1 ELSE trackMap[v]]
  BY DEF Repaint
<1>3. trackIndex' = [s \in SequenceIds |-> IF s \in InSegments' THEN trackMap'[virtualTrackId'[s]] ELSE NoRow]
  BY DEF Repaint
<1>4. \A s \in InSegments' : s \in SequenceIds /\ virtualTrackId'[s] \in Range(tracks)
  BY DEF Views, InSegments
<1> HIDE DEF tracks
<1>5. \A v \in TrackIds : trackMap'[v] \in Nat
  <2> SUFFICES ASSUME NEW v \in TrackIds PROVE trackMap'[v] \in Nat
    OBVIOUS
  <2>1. CASE v \in Range(tracks)
    BY <1>1, <1>2, <2>1
  <2>2. CASE v \notin Range(tracks)
    BY <1>2, <2>2
  <2> QED BY <2>1, <2>2
<1>6. trackMap' \in [TrackIds -> Nat]
  BY <1>2, <1>5
<1>7. ASSUME NEW s \in InSegments'
      PROVE  trackIndex'[s] \in 0..Len(tracks) - 1 /\ tracks[trackIndex'[s] + 1] = virtualTrackId'[s]
  <2> DEFINE v == virtualTrackId'[s]
  <2>1. v \in Range(tracks) /\ v \in TrackIds /\ s \in SequenceIds
    BY <1>1, <1>4
  <2>2. trackIndex'[s] = trackMap'[v]
    BY <1>3, <2>1
  <2> HIDE DEF v
  <2>3. trackMap'[v] = PositionOf(tracks, v) - 1
    BY <1>2, <2>1
  <2>4. PositionOf(tracks, v) \in 1..Len(tracks) /\ tracks[PositionOf(tracks, v)] = v
    BY <1>1, <2>1
  <2>5. trackIndex'[s] + 1 = PositionOf(tracks, v)
    BY <1>1, <2>2, <2>3, <2>4
  <2> QED BY <1>1, <2>2, <2>3, <2>4, <2>5 DEF v
<1>8. trackIndex' \in [SequenceIds -> Nat \cup {NoRow}]
  <2>1. \A s \in SequenceIds : s \in InSegments' => trackIndex'[s] \in Nat
    BY <1>1, <1>7
  <2> QED BY <1>3, <2>1
<1> QED BY <1>6, <1>7, <1>8 DEF Painted, tracks

-----------------------------------------------------------------------------
(* The steps. *)

LEMMA EditorInit == Init => EditorInv
<1> SUFFICES ASSUME Init PROVE EditorInv
  OBVIOUS
<1>1. /\ Sound(segments, sequencesOf, virtualTrackId, resources)
      /\ Sound(file.segmentList, file.sequenceList, file.trackId, file.resourceList)
  BY SoundEmpty DEF Init, EmptyFile
<1>2. InSegments = {}
  BY EmptyList DEF Init, InSegments
<1>3. Views(virtualTracks, trackItems, InSegments, virtualTrackId)
  BY <1>2, EmptyList DEF Init, Views
<1>4. Painted(virtualTracks, InSegments, virtualTrackId, trackMap, trackIndex)
  BY <1>2 DEF Init, Painted
<1> QED BY <1>1, <1>3, <1>4 DEF EditorInv

LEMMA PlayingSequences ==
    /\ InSegments = Plays(segments, sequencesOf)
    /\ InSegments' = Plays(segments', sequencesOf')
    /\ InSegments \in SUBSET SequenceIds
BY DEF InSegments, Plays

(* The row of the pointer gives a track of the playlist, an old or a new.  *)
LEMMA RowsTrack ==
    ASSUME virtualTracks \in IdLists(TrackIds), NEW row \in 0..Len(virtualTracks),
           NEW v \in TrackIds, TrackAtRow(row, v)
    PROVE  /\ virtualTracks' \in IdLists(TrackIds)
           /\ Range(virtualTracks') = Range(virtualTracks) \cup {v}
           /\ v \in Range(virtualTracks) \/ v \in FreshTracks
<1>1. virtualTracks \in Seq(TrackIds) /\ Len(virtualTracks) \in Nat
      /\ \A k \in 1..Len(virtualTracks) : virtualTracks[k] \in Range(virtualTracks)
  BY ListElements DEF IdLists
<1>2. CASE row < Len(virtualTracks)
  <2>1. v = virtualTracks[row + 1] /\ virtualTracks' = virtualTracks /\ row + 1 \in 1..Len(virtualTracks)
    BY <1>1, <1>2 DEF TrackAtRow
  <2>2. v \in Range(virtualTracks)
    BY <1>1, <2>1
  <2> QED BY <2>1, <2>2
<1>3. CASE ~(row < Len(virtualTracks))
  <2>1. v \in FreshTracks /\ virtualTracks' = Append(virtualTracks, v)
    BY <1>3 DEF TrackAtRow
  <2>2. v \in TrackIds \ Range(virtualTracks)
    BY <2>1 DEF FreshTracks
  <2> QED BY <2>1, <2>2, AppendList
<1> QED BY <1>2, <1>3

(* What every step that leaves the file alone and repaints has to show.    *)
LEMMA StepEnds ==
    ASSUME EditorInv, Repaint, UNCHANGED file,
           Sound(segments, sequencesOf, virtualTrackId, resources)',
           Views(virtualTracks, trackItems, InSegments, virtualTrackId)'
    PROVE  EditorInv'
<1>1. trackMap \in [TrackIds -> Nat]
  BY DEF EditorInv, Painted
<1>2. Painted(virtualTracks, InSegments, virtualTrackId, trackMap, trackIndex)'
  BY <1>1, RepaintPaints
<1> QED BY <1>2 DEF EditorInv

LEMMA NewSegmentStep ==
    ASSUME EditorInv, NEW g \in FreshSegments, NEW s \in FreshSequences, NEW v \in TrackIds, NEW r \in ResourceIds,
           segments' \in IdLists(SegmentIds), Range(segments') = Range(segments) \cup {g},
           virtualTracks' \in IdLists(TrackIds), Range(virtualTracks') = Range(virtualTracks) \cup {v},
           sequencesOf' = [sequencesOf EXCEPT ![g] = <<s>>], NewSequence(s, v, r),
           Repaint, UNCHANGED file
    PROVE  EditorInv'
<1>1. /\ Sound(segments, sequencesOf, virtualTrackId, resources)
      /\ Views(virtualTracks, trackItems, InSegments, virtualTrackId)
      /\ virtualTrackId \in [SequenceIds -> TrackIds \cup {NoTrack}]
  BY DEF EditorInv, Sound, ObjectsTyped
<1>2. g \in SegmentIds \ Range(segments) /\ s \in SequenceIds \ InSegments
  BY DEF FreshSegments, FreshSequences
<1>3. /\ trackItems' = [trackItems EXCEPT ![v] = @ \cup {s}]
      /\ virtualTrackId' = [virtualTrackId EXCEPT ![s] = v]
      /\ resources' = [resources EXCEPT ![s] = <<r>>]
  BY DEF NewSequence
<1>4. /\ Sound(segments', sequencesOf', virtualTrackId', resources')
      /\ Plays(segments', sequencesOf') = Plays(segments, sequencesOf) \cup {s}
  <2>1. s \in SequenceIds \ Plays(segments, sequencesOf)
    BY <1>2, PlayingSequences
  <2>2. SoundPlaying(segments', sequencesOf', virtualTrackId', resources', Plays(segments, sequencesOf) \cup {s})
    BY <1>1, <1>2, <1>3, <2>1, SoundAddSegment
  <2> QED BY <2>2 DEF SoundPlaying
<1>5. Views(virtualTracks', trackItems', InSegments \cup {s}, virtualTrackId')
  BY <1>1, <1>2, <1>3, PlayingSequences, ViewsAddSequence
<1>6. InSegments' = InSegments \cup {s}
  BY <1>4, PlayingSequences
<1>7. Views(virtualTracks, trackItems, InSegments, virtualTrackId)'
  BY <1>5, <1>6
<1> QED BY <1>4, <1>7, StepEnds

LEMMA CreateFirstSegmentStep ==
    ASSUME EditorInv, NEW r \in FreshResources, CreateFirstSegment(r)
    PROVE  EditorInv'
<1>1. PICK g \in FreshSegments, s \in FreshSequences, v \in FreshTracks :
         /\ segments' = Append(segments, g)
         /\ virtualTracks' = Append(virtualTracks, v)
         /\ sequencesOf' = [sequencesOf EXCEPT ![g] = <<s>>]
         /\ NewSequence(s, v, r)
  BY DEF CreateFirstSegment
<1>2. /\ Repaint /\ UNCHANGED file /\ r \in ResourceIds
      /\ segments \in IdLists(SegmentIds) /\ virtualTracks \in IdLists(TrackIds)
  BY DEF CreateFirstSegment, FreshResources, EditorInv, Sound, ObjectsTyped, Views
<1>3. g \in SegmentIds \ Range(segments) /\ v \in TrackIds \ Range(virtualTracks)
  BY DEF FreshSegments, FreshTracks
<1>4. /\ segments' \in IdLists(SegmentIds) /\ Range(segments') = Range(segments) \cup {g}
      /\ virtualTracks' \in IdLists(TrackIds) /\ Range(virtualTracks') = Range(virtualTracks) \cup {v}
  BY <1>1, <1>2, <1>3, AppendList
<1> QED BY <1>1, <1>2, <1>3, <1>4, NewSegmentStep

LEMMA InsertSegmentStep ==
    ASSUME EditorInv, NEW r \in FreshResources, NEW other \in Range(segments), NEW append \in BOOLEAN,
           NEW row \in 0..Len(virtualTracks), InsertSegment(other, append, row, r)
    PROVE  EditorInv'
<1>1. PICK g \in FreshSegments, s \in FreshSequences, v \in TrackIds :
         /\ TrackAtRow(row, v)
         /\ segments' = InsertBeside(segments, other, append, g)
         /\ sequencesOf' = [sequencesOf EXCEPT ![g] = <<s>>]
         /\ NewSequence(s, v, r)
  BY DEF InsertSegment
<1>2. /\ Repaint /\ UNCHANGED file /\ r \in ResourceIds
      /\ segments \in IdLists(SegmentIds) /\ virtualTracks \in IdLists(TrackIds)
  BY DEF InsertSegment, FreshResources, EditorInv, Sound, ObjectsTyped, Views
<1>3. g \in SegmentIds \ Range(segments)
  BY DEF FreshSegments
<1>4. segments' \in IdLists(SegmentIds) /\ Range(segments') = Range(segments) \cup {g}
  BY <1>1, <1>2, <1>3, InsertList
<1>5. virtualTracks' \in IdLists(TrackIds) /\ Range(virtualTracks') = Range(virtualTracks) \cup {v}
  BY <1>1, <1>2, RowsTrack
<1> QED BY <1>1, <1>2, <1>4, <1>5, NewSegmentStep

(* The resources of a sequence change, and nothing else. *)
LEMMA ResourcesStep ==
    ASSUME EditorInv, NEW s \in InSegments, NEW rest \in IdLists(ResourceIds), rest # <<>>,
           resources' = [resources EXCEPT ![s] = rest],
           UNCHANGED <<segments, sequencesOf, trackItems, virtualTrackId, file>>,
           virtualTracks' = virtualTracks, Repaint
    PROVE  EditorInv'
<1>1. Sound(segments, sequencesOf, virtualTrackId, resources) /\ s \in SequenceIds
      /\ Views(virtualTracks, trackItems, InSegments, virtualTrackId)
  BY PlayingSequences DEF EditorInv
<1>2. Sound(segments, sequencesOf, virtualTrackId, resources')
  BY <1>1, SoundChangeResources
<1>3. InSegments' = InSegments
  BY PlayingSequences
<1>4. Views(virtualTracks, trackItems, InSegments, virtualTrackId)'
  BY <1>1, <1>3
<1> QED BY <1>2, <1>4, StepEnds

LEMMA InsertResourceStep ==
    ASSUME EditorInv, NEW r \in FreshResources, NEW s \in InSegments, NEW other \in Range(resources[s]),
           NEW append \in BOOLEAN, InsertResource(s, other, append, r)
    PROVE  EditorInv'
<1>1. /\ resources[s] \in IdLists(ResourceIds) /\ resources \in [SequenceIds -> IdLists(ResourceIds)]
      /\ s \in SequenceIds /\ r \in ResourceIds \ Range(resources[s])
  BY PlayingSequences DEF EditorInv, Sound, ObjectsTyped, FreshResources
<1> DEFINE rest == InsertBeside(resources[s], other, append, r)
<1>2. rest \in IdLists(ResourceIds) /\ Range(rest) = Range(resources[s]) \cup {r}
  BY <1>1, InsertList
<1>3. rest # <<>>
  BY <1>2, EmptyList
<1>4. /\ resources' = [resources EXCEPT ![s] = rest]
      /\ UNCHANGED <<segments, virtualTracks, sequencesOf, trackItems, virtualTrackId, file>> /\ Repaint
  BY DEF InsertResource
<1> HIDE DEF rest
<1> QED BY <1>2, <1>3, <1>4, ResourcesStep

(* A track made at this drop has no sequence yet. *)
LEMMA FreshTrackUnused ==
    ASSUME EditorInv, NEW v \in FreshTracks
    PROVE  v \notin Range(virtualTracks) /\ \A s \in InSegments : virtualTrackId[s] # v
BY DEF EditorInv, Views, FreshTracks

LEMMA AddResourceStep ==
    ASSUME EditorInv, NEW r \in FreshResources, NEW g \in Range(segments), NEW row \in 0..Len(virtualTracks),
           AddResource(g, row, r)
    PROVE  EditorInv'
<1>1. PICK v \in TrackIds :
         /\ TrackAtRow(row, v)
         /\ \/ /\ \E s \in SequencesInTrack(g, v) :
                     resources' = [resources EXCEPT ![s] = Append(@, r)]
               /\ UNCHANGED <<sequencesOf, trackItems, virtualTrackId>>
            \/ /\ SequencesInTrack(g, v) = {}
               /\ \E s \in FreshSequences :
                     /\ sequencesOf' = [sequencesOf EXCEPT ![g] = Append(@, s)]
                     /\ NewSequence(s, v, r)
  BY DEF AddResource
<1>2. /\ Repaint /\ segments' = segments /\ file' = file /\ r \in ResourceIds
      /\ Sound(segments, sequencesOf, virtualTrackId, resources)
      /\ Views(virtualTracks, trackItems, InSegments, virtualTrackId)
      /\ virtualTracks \in IdLists(TrackIds)
      /\ virtualTrackId \in [SequenceIds -> TrackIds \cup {NoTrack}]
      /\ resources \in [SequenceIds -> IdLists(ResourceIds)]
  BY DEF AddResource, FreshResources, EditorInv, Views, Sound, ObjectsTyped
<1>3. /\ virtualTracks' \in IdLists(TrackIds)
      /\ Range(virtualTracks') = Range(virtualTracks) \cup {v}
      /\ v \in Range(virtualTracks) \/ v \in FreshTracks
  BY <1>1, <1>2, RowsTrack
<1>4. g \in SegmentIds /\ \A s \in Range(sequencesOf[g]) : s \in InSegments /\ s \in SequenceIds
  <2>1. g \in SegmentIds /\ Range(sequencesOf[g]) \subseteq SequenceIds
    BY <1>2, SoundFacts
  <2> QED BY <2>1 DEF InSegments
<1>5. ASSUME NEW s \in SequencesInTrack(g, v),
             resources' = [resources EXCEPT ![s] = Append(@, r)],
             UNCHANGED <<sequencesOf, trackItems, virtualTrackId>>
      PROVE  EditorInv'
  <2>1. v \in Range(virtualTracks) /\ s \in Range(sequencesOf[g])
    BY <1>5 DEF SequencesInTrack
  <2>2. s \in InSegments /\ s \in SequenceIds
    BY <1>4, <2>1
  <2>3. r \in ResourceIds \ Range(resources[s]) /\ resources[s] \in IdLists(ResourceIds)
    BY <1>2, <2>2 DEF FreshResources
  <2>4. Append(resources[s], r) \in IdLists(ResourceIds) /\ r \in Range(Append(resources[s], r))
    BY <2>3, AppendList
  <2>5. Append(resources[s], r) # <<>>
    BY <2>4, EmptyList
  <2>6. virtualTracks' = virtualTracks
    BY <1>1, <2>1 DEF TrackAtRow, FreshTracks
  <2>7. resources' = [resources EXCEPT ![s] = Append(resources[s], r)]
    BY <1>5
  <2> QED BY <1>2, <1>5, <2>2, <2>4, <2>5, <2>6, <2>7, ResourcesStep
<1>6. ASSUME SequencesInTrack(g, v) = {}, NEW s \in FreshSequences,
             sequencesOf' = [sequencesOf EXCEPT ![g] = Append(@, s)], NewSequence(s, v, r)
      PROVE  EditorInv'
  <2>1. /\ trackItems' = [trackItems EXCEPT ![v] = @ \cup {s}]
        /\ virtualTrackId' = [virtualTrackId EXCEPT ![s] = v]
        /\ resources' = [resources EXCEPT ![s] = <<r>>]
    BY <1>6 DEF NewSequence
  <2>2. s \in SequenceIds \ InSegments /\ s \in SequenceIds \ Plays(segments, sequencesOf)
    BY PlayingSequences DEF FreshSequences
  <2>3. \A t \in Range(sequencesOf[g]) : virtualTrackId[t] # v
    <3> SUFFICES ASSUME NEW t \in Range(sequencesOf[g]), virtualTrackId[t] = v PROVE FALSE
      OBVIOUS
    <3>1. t \in InSegments /\ t \in SequenceIds
      BY <1>4
    <3>2. v \in Range(virtualTracks)
      BY <1>3, <3>1, FreshTrackUnused
    <3>3. t \in trackItems[v]
      BY <1>2, <3>1 DEF Views
    <3> QED BY <1>6, <3>2, <3>3 DEF SequencesInTrack
  <2>4. /\ Sound(segments, sequencesOf', virtualTrackId', resources')
        /\ Plays(segments, sequencesOf') = Plays(segments, sequencesOf) \cup {s}
    <3>1. SoundPlaying(segments, sequencesOf', virtualTrackId', resources', Plays(segments, sequencesOf) \cup {s})
      BY <1>2, <1>6, <2>1, <2>2, <2>3, SoundAddSequence
    <3> QED BY <3>1 DEF SoundPlaying
  <2>5. Views(virtualTracks', trackItems', InSegments \cup {s}, virtualTrackId')
    BY <1>2, <1>3, <2>1, <2>2, PlayingSequences, ViewsAddSequence
  <2>6. InSegments' = InSegments \cup {s}
    BY <1>2, <2>4, PlayingSequences
  <2>7. Views(virtualTracks, trackItems, InSegments, virtualTrackId)'
    BY <2>5, <2>6
  <2> QED BY <1>2, <2>4, <2>7, StepEnds
<1> QED BY <1>1, <1>5, <1>6

LEMMA DeleteResourceStep ==
    ASSUME EditorInv, NEW g \in Range(segments), NEW s \in Range(sequencesOf[g]), NEW r \in Range(resources[s]),
           DeleteResource(g, s, r)
    PROVE  EditorInv'
<1> DEFINE rest == DeleteItem(resources[s], r)
           v == virtualTracks[trackIndex[s] + 1]
           restOfSegment == DeleteItem(sequencesOf[g], s)
           restOfTrack == trackItems[v] \ {s}
<1>1. /\ Repaint /\ UNCHANGED file
      /\ Sound(segments, sequencesOf, virtualTrackId, resources)
      /\ Views(virtualTracks, trackItems, InSegments, virtualTrackId)
      /\ segments \in IdLists(SegmentIds)
      /\ virtualTracks \in IdLists(TrackIds)
      /\ virtualTrackId \in [SequenceIds -> TrackIds \cup {NoTrack}]
      /\ resources \in [SequenceIds -> IdLists(ResourceIds)]
  BY DEF DeleteResource, EditorInv, Views, Sound, ObjectsTyped
<1>2. /\ g \in SegmentIds /\ sequencesOf[g] \in IdLists(SequenceIds)
      /\ s \in SequenceIds /\ s \in InSegments
  <2>1. g \in SegmentIds /\ sequencesOf[g] \in IdLists(SequenceIds) /\ Range(sequencesOf[g]) \subseteq SequenceIds
    BY <1>1, SoundFacts
  <2> QED BY <2>1 DEF InSegments
<1>3. v = virtualTrackId[s] /\ v \in TrackIds
  <2>1. v = virtualTrackId[s]
    BY <1>2 DEF EditorInv, Painted
  <2>2. virtualTrackId[s] \in TrackIds
    BY <1>1, <1>2, PlayingSequences DEF Sound
  <2> QED BY <2>1, <2>2
<1>4. rest \in IdLists(ResourceIds)
  <2>1. resources[s] \in IdLists(ResourceIds)
    BY <1>1, <1>2
  <2> QED BY <2>1, DeleteList
<1>5. /\ restOfSegment \in IdLists(SequenceIds)
      /\ Range(restOfSegment) = Range(sequencesOf[g]) \ {s}
  BY <1>2, DeleteList
<1>6. /\ resources' = [resources EXCEPT ![s] = rest]
      /\ IF rest # <<>>
         THEN UNCHANGED <<segments, virtualTracks, sequencesOf, trackItems, virtualTrackId>>
         ELSE /\ sequencesOf' = [sequencesOf EXCEPT ![g] = restOfSegment]
              /\ trackItems' = [trackItems EXCEPT ![v] = restOfTrack]
              /\ segments' = DeleteEmpty(segments, g, restOfSegment = <<>>)
              /\ virtualTracks' = DeleteEmpty(virtualTracks, v, restOfTrack = {})
              /\ virtualTrackId' = [virtualTrackId EXCEPT ![s] = NoTrack]
  BY DEF DeleteResource
<1> HIDE DEF rest, v, restOfSegment
<1>7. CASE rest # <<>>
  BY <1>1, <1>2, <1>4, <1>6, <1>7, ResourcesStep
<1>8. CASE rest = <<>>
  <2>1. /\ segments' \in IdLists(SegmentIds)
        /\ Range(segments') = IF restOfSegment = <<>> THEN Range(segments) \ {g} ELSE Range(segments)
    <3>1. CASE restOfSegment = <<>>
      <4>1. segments' = DeleteItem(segments, g)
        BY <1>6, <1>8, <3>1 DEF DeleteEmpty
      <4> QED BY <1>1, <3>1, <4>1, DeleteList
    <3>2. CASE restOfSegment # <<>>
      BY <1>1, <1>6, <1>8, <3>2 DEF DeleteEmpty
    <3> QED BY <3>1, <3>2
  <2>2. /\ virtualTracks' \in IdLists(TrackIds)
        /\ Range(virtualTracks') = IF trackItems[v] \ {s} = {} THEN Range(virtualTracks) \ {v}
                                                              ELSE Range(virtualTracks)
    <3>1. CASE restOfTrack = {}
      <4>1. virtualTracks' = DeleteItem(virtualTracks, v)
        BY <1>6, <1>8, <3>1 DEF DeleteEmpty
      <4> QED BY <1>1, <3>1, <4>1, DeleteList
    <3>2. CASE restOfTrack # {}
      BY <1>1, <1>6, <1>8, <3>2 DEF DeleteEmpty
    <3> QED BY <3>1, <3>2
  <2>3. /\ sequencesOf' = [sequencesOf EXCEPT ![g] = restOfSegment]
        /\ virtualTrackId' = [virtualTrackId EXCEPT ![s] = NoTrack]
        /\ resources' = [resources EXCEPT ![s] = <<>>]
        /\ trackItems' = [trackItems EXCEPT ![v] = trackItems[v] \ {s}]
    BY <1>6, <1>8
  <2>4. /\ Sound(segments', sequencesOf', virtualTrackId', resources')
        /\ Plays(segments', sequencesOf') = Plays(segments, sequencesOf) \ {s}
    <3>1. SoundPlaying(segments', sequencesOf', virtualTrackId', resources', Plays(segments, sequencesOf) \ {s})
      BY <1>1, <1>5, <2>1, <2>3, SoundDeleteSequence
    <3> QED BY <3>1 DEF SoundPlaying
  <2>5. Views(virtualTracks', trackItems', InSegments \ {s}, virtualTrackId')
    BY <1>1, <1>2, <1>3, <2>2, <2>3, PlayingSequences, ViewsDeleteSequence
  <2>6. InSegments' = InSegments \ {s}
    BY <2>4, PlayingSequences
  <2>7. Views(virtualTracks, trackItems, InSegments, virtualTrackId)'
    BY <2>5, <2>6
  <2> QED BY <1>1, <2>4, <2>7, StepEnds
<1> QED BY <1>7, <1>8

LEMMA WriteStep ==
    ASSUME EditorInv, Write
    PROVE  EditorInv'
<1>1. /\ Sound(segments, sequencesOf, virtualTrackId, resources)
      /\ sequencesOf \in [SegmentIds -> IdLists(SequenceIds)]
  BY DEF EditorInv, Sound, ObjectsTyped
<1>2. ASSUME NEW g \in SegmentIds PROVE WrittenSequences(g) = sequencesOf[g]
  <2>1. \A s \in Range(sequencesOf[g]) : s \in Plays(segments, sequencesOf)
    BY <1>1, SoundFacts
  <2>2. \A s \in Range(sequencesOf[g]) : resources[s] # <<>>
    BY <1>1, <2>1 DEF Sound
  <2> QED BY <2>2 DEF WrittenSequences
<1>3. [g \in SegmentIds |-> WrittenSequences(g)] = sequencesOf
  BY <1>1, <1>2
<1>4. file' = [segmentList  |-> segments,
               sequenceList |-> sequencesOf,
               trackId      |-> virtualTrackId,
               resourceList |-> resources]
  BY <1>3 DEF Write
<1>5. /\ segments' = segments /\ sequencesOf' = sequencesOf /\ virtualTrackId' = virtualTrackId
      /\ resources' = resources /\ virtualTracks' = virtualTracks /\ trackItems' = trackItems
      /\ trackMap' = trackMap /\ trackIndex' = trackIndex
  BY DEF Write, playlistVars, sceneVars
<1>6. InSegments' = InSegments
  BY <1>5, PlayingSequences
<1>7. Sound(file.segmentList, file.sequenceList, file.trackId, file.resourceList)'
  BY <1>1, <1>4
<1> QED BY <1>5, <1>6, <1>7 DEF EditorInv

LEMMA OrderingLists ==
    ASSUME NEW S, NEW f \in Orderings(S)
    PROVE  f \in IdLists(S) /\ Range(f) = S
<1>1. PICK n \in 0..Cardinality(S) : f \in [1..n -> S]
  BY DEF Orderings
<1>2. Range(f) = S /\ IsInjective(f)
  BY DEF Orderings
<1>3. n \in Nat
  OBVIOUS
<1>4. f \in Seq(S)
  BY <1>1, <1>3, SeqDef
<1> QED BY <1>2, <1>4 DEF IdLists

(* The tracks a file mentions are those of the sequences that play in it.  *)
LEMMA MentionedTracks ==
    ASSUME Sound(file.segmentList, file.sequenceList, file.trackId, file.resourceList), NEW v
    PROVE  Mentions(v) # {} <=> \E s \in Plays(file.segmentList, file.sequenceList) : file.trackId[s] = v
<1> DEFINE list == file.segmentList
           items == file.sequenceList
<1>1. /\ list \in Seq(SegmentIds) /\ DOMAIN list = 1..Len(list)
      /\ \A k \in DOMAIN list : list[k] \in SegmentIds /\ list[k] \in Range(list)
      /\ \A g \in Range(list) : \E k \in DOMAIN list : g = list[k]
  <2>1. list \in Seq(SegmentIds)
    BY DEF Sound, ObjectsTyped, IdLists
  <2> QED BY <2>1, ListElements
<1>2. ASSUME NEW g \in SegmentIds
      PROVE  /\ \A k \in DOMAIN items[g] : items[g][k] \in SequenceIds /\ items[g][k] \in Range(items[g])
             /\ \A s \in Range(items[g]) : \E k \in DOMAIN items[g] : s = items[g][k]
  <2>1. items[g] \in Seq(SequenceIds)
    BY SoundFacts DEF IdLists
  <2> QED BY <2>1, ListElements
<1>3. ASSUME NEW m \in Mentions(v)
      PROVE  \E s \in Plays(list, items) : file.trackId[s] = v
  <2>1. PICK i \in DOMAIN list : \E k \in DOMAIN Written(i) : file.trackId[Written(i)[k]] = v
    BY <1>3 DEF Mentions
  <2>2. PICK k \in DOMAIN Written(i) : file.trackId[Written(i)[k]] = v
    BY <2>1
  <2>3. Written(i) = items[list[i]] /\ list[i] \in Range(list) /\ list[i] \in SegmentIds
    BY <1>1 DEF Written
  <2>4. Written(i)[k] \in SequenceIds /\ Written(i)[k] \in Range(items[list[i]])
    BY <1>2, <2>3
  <2>5. Written(i)[k] \in Plays(list, items)
    BY <2>3, <2>4 DEF Plays
  <2> QED BY <2>2, <2>5
<1>4. ASSUME NEW s \in Plays(list, items), file.trackId[s] = v
      PROVE  Mentions(v) # {}
  <2>1. PICK g \in Range(list) : s \in Range(items[g])
    BY DEF Plays
  <2>2. PICK i \in DOMAIN list : g = list[i]
    BY <1>1
  <2>3. Written(i) = items[g] /\ g \in SegmentIds
    BY <1>1, <2>2 DEF Written
  <2>4. PICK k \in DOMAIN items[g] : s = items[g][k]
    BY <1>2, <2>1, <2>3
  <2>5. <<i, k>> \in {<<i, j>> : j \in {l \in DOMAIN Written(i) : file.trackId[Written(i)[l]] = v}}
    BY <1>4, <2>3, <2>4
  <2>6. i \in DOMAIN file.segmentList
    BY <2>2
  <2>7. <<i, k>> \in Mentions(v)
    BY <2>5, <2>6, Zenon DEF Mentions
  <2> QED BY <2>7
<1> QED BY <1>3, <1>4

LEMMA LoadStep ==
    ASSUME EditorInv, Load
    PROVE  EditorInv'
<1> DEFINE P == Plays(file.segmentList, file.sequenceList)
           named == {v \in TrackIds : Mentions(v) # {}}
<1>1. Sound(file.segmentList, file.sequenceList, file.trackId, file.resourceList)
  BY DEF EditorInv
<1>2. /\ segments' = file.segmentList /\ sequencesOf' = file.sequenceList
      /\ resources' = file.resourceList /\ virtualTrackId' = file.trackId
      /\ trackItems' = [v \in TrackIds |-> {s \in SequenceIds : InFile(s) /\ file.trackId[s] = v}]
      /\ virtualTracks' \in Orderings(named)
      /\ Repaint /\ UNCHANGED file
  BY DEF Load
<1>3. InSegments' = P
  BY <1>2, PlayingSequences
<1>4. Sound(segments, sequencesOf, virtualTrackId, resources)'
  BY <1>1, <1>2
<1>5. virtualTracks' \in IdLists(TrackIds) /\ Range(virtualTracks') = named
  <2>1. virtualTracks' \in IdLists(named) /\ Range(virtualTracks') = named
    BY <1>2, OrderingLists
  <2>2. virtualTracks' \in Seq(named) /\ IsInjective(virtualTracks')
    BY <2>1 DEF IdLists
  <2>3. virtualTracks' \in Seq(TrackIds)
    BY <2>2, SeqDef
  <2> QED BY <2>1, <2>2, <2>3 DEF IdLists
<1>6. \A s \in SequenceIds : InFile(s) <=> s \in P
  BY DEF InFile, Plays
<1>7. \A v \in TrackIds : v \in named <=> \E s \in P : file.trackId[s] = v
  BY <1>1, MentionedTracks
<1>8. \A s \in P : s \in SequenceIds /\ file.trackId[s] \in TrackIds
  BY <1>1 DEF Sound, Plays
<1> HIDE DEF P, named
<1>9. Views(virtualTracks', trackItems', P, virtualTrackId')
  <2>1. trackItems' \in [TrackIds -> SUBSET SequenceIds]
    BY <1>2
  <2>2. \A s \in SequenceIds, v \in TrackIds : s \in trackItems'[v] <=> s \in P /\ virtualTrackId'[s] = v
    BY <1>2, <1>6
  <2>3. \A s \in P : virtualTrackId'[s] \in Range(virtualTracks')
    BY <1>2, <1>5, <1>7, <1>8
  <2>4. \A v \in Range(virtualTracks') : trackItems'[v] # {}
    <3> SUFFICES ASSUME NEW v \in named PROVE trackItems'[v] # {}
      BY <1>5
    <3>1. v \in TrackIds
      BY DEF named
    <3>2. PICK s \in P : file.trackId[s] = v
      BY <1>7, <3>1
    <3>3. s \in trackItems'[v]
      BY <1>2, <1>8, <2>2, <3>1, <3>2
    <3> QED BY <3>3
  <2> QED BY <1>5, <2>1, <2>2, <2>3, <2>4 DEF Views
<1>10. Views(virtualTracks, trackItems, InSegments, virtualTrackId)'
  BY <1>3, <1>9
<1> QED BY <1>2, <1>4, <1>10, StepEnds

LEMMA EditorStutter ==
    ASSUME EditorInv, UNCHANGED vars
    PROVE  EditorInv'
BY DEF EditorInv, vars, playlistVars, sceneVars, InSegments

LEMMA EditorNext == EditorInv /\ [Next]_vars => EditorInv'
<1> SUFFICES ASSUME EditorInv, [Next]_vars PROVE EditorInv'
  OBVIOUS
<1>1. ASSUME NEW r \in FreshResources, Drop(r) PROVE EditorInv'
  <2>1. CASE CreateFirstSegment(r)
    BY <2>1, CreateFirstSegmentStep
  <2>2. ASSUME NEW g \in Range(segments), NEW row \in 0..Len(virtualTracks), NEW append \in BOOLEAN,
               InsertSegment(g, append, row, r)
        PROVE  EditorInv'
    BY <2>2, InsertSegmentStep
  <2>3. ASSUME NEW g \in Range(segments), NEW row \in 0..Len(virtualTracks), AddResource(g, row, r)
        PROVE  EditorInv'
    BY <2>3, AddResourceStep
  <2>4. ASSUME NEW s \in InSegments, NEW other \in Range(resources[s]), NEW append \in BOOLEAN,
               InsertResource(s, other, append, r)
        PROVE  EditorInv'
    BY <2>4, InsertResourceStep
  <2> QED BY <1>1, <2>1, <2>2, <2>3, <2>4 DEF Drop
<1>2. ASSUME NEW g \in Range(segments), NEW s \in Range(sequencesOf[g]), NEW r \in Range(resources[s]),
             DeleteResource(g, s, r)
      PROVE  EditorInv'
  BY <1>2, DeleteResourceStep
<1>3. CASE Write
  BY <1>3, WriteStep
<1>4. CASE Load
  BY <1>4, LoadStep
<1>5. CASE UNCHANGED vars
  BY <1>5, EditorStutter
<1> QED BY <1>1, <1>2, <1>3, <1>4, <1>5 DEF Next, Edit

(* The invariant of the editor, after every sequence of drops, deletes,     *)
(* saves and openings.                                                      *)
THEOREM EditorCorrect == Spec => []EditorInv
<1> QED BY EditorInit, EditorNext, PTL DEF Spec

(* What the invariant says of the editor. *)
LEMMA InvImpliesType == EditorInv => TypeOK
<1> SUFFICES ASSUME EditorInv PROVE TypeOK
  OBVIOUS
<1>1. /\ ObjectsTyped(segments, sequencesOf, virtualTrackId, resources)
      /\ Views(virtualTracks, trackItems, InSegments, virtualTrackId)
      /\ Painted(virtualTracks, InSegments, virtualTrackId, trackMap, trackIndex)
  BY DEF EditorInv, Sound
<1> QED BY <1>1 DEF ObjectsTyped, Views, Painted, TypeOK

LEMMA InvImpliesViews == EditorInv => ViewsAgree
<1> SUFFICES ASSUME EditorInv PROVE ViewsAgree
  OBVIOUS
<1>1. /\ Sound(segments, sequencesOf, virtualTrackId, resources)
      /\ Views(virtualTracks, trackItems, InSegments, virtualTrackId)
  BY DEF EditorInv
<1>2. \A g, h \in Range(segments) :
        g # h => Range(sequencesOf[g]) \cap Range(sequencesOf[h]) = {}
  <2>1. Range(segments) \subseteq SegmentIds
    BY <1>1, SoundFacts
  <2> QED BY <1>1, <2>1 DEF Sound
<1> QED BY <1>1, <1>2 DEF Views, ViewsAgree

LEMMA InvImpliesNonempty == EditorInv => NothingEmpty
<1> SUFFICES ASSUME EditorInv PROVE NothingEmpty
  OBVIOUS
<1>1. /\ Sound(segments, sequencesOf, virtualTrackId, resources)
      /\ Views(virtualTracks, trackItems, InSegments, virtualTrackId)
  BY DEF EditorInv
<1>2. \A g \in Range(segments) : sequencesOf[g] # <<>>
  <2>1. Range(segments) \subseteq SegmentIds
    BY <1>1, SoundFacts
  <2> QED BY <1>1, <2>1 DEF Sound
<1> QED BY <1>1, <1>2, PlayingSequences DEF Sound, Views, NothingEmpty

LEMMA InvImpliesRows == EditorInv => TrackIndexCurrent
<1> SUFFICES ASSUME EditorInv, NEW s \in InSegments
             PROVE  /\ trackIndex[s] < Len(virtualTracks)
                    /\ virtualTracks[trackIndex[s] + 1] = virtualTrackId[s]
  BY DEF TrackIndexCurrent
<1>1. Len(virtualTracks) \in Nat
  BY ListElements DEF EditorInv, Views, IdLists
<1>2. /\ trackIndex[s] \in 0..Len(virtualTracks) - 1
      /\ virtualTracks[trackIndex[s] + 1] = virtualTrackId[s]
  BY DEF EditorInv, Painted
<1> QED BY <1>1, <1>2

LEMMA InvImpliesOneSequence == EditorInv => OneSequencePerTrack
<1> SUFFICES ASSUME EditorInv PROVE OneSequencePerTrack
  OBVIOUS
<1>1. Sound(segments, sequencesOf, virtualTrackId, resources)
  BY DEF EditorInv
<1>2. Range(segments) \subseteq SegmentIds
  BY <1>1, SoundFacts
<1> QED BY <1>1, <1>2 DEF Sound, OneSequencePerTrack

(* The variables keep their types, and no list ever names an object twice. *)
THEOREM TypeCorrect == Spec => []TypeOK
<1> QED BY EditorCorrect, InvImpliesType, PTL

(* A sequence is always reached through one segment and through the one     *)
(* virtual track it names, or through neither.                              *)
THEOREM ViewsStayInStep == Spec => []ViewsAgree
<1> QED BY EditorCorrect, InvImpliesViews, PTL

(* Neither an edit nor opening a file leaves a segment, a sequence or a     *)
(* virtual track empty.                                                     *)
THEOREM NothingStaysEmpty == Spec => []NothingEmpty
<1> QED BY EditorCorrect, InvImpliesNonempty, PTL

(* A rectangle's row is always that of its sequence's track: a delete never *)
(* indexes past the list of tracks and never takes the wrong one.           *)
THEOREM RowsCurrent == Spec => []TrackIndexCurrent
<1> QED BY EditorCorrect, InvImpliesRows, PTL

(* Two sequences of a segment are never of the same virtual track. *)
THEOREM NoOverlap == Spec => []OneSequencePerTrack
<1> QED BY EditorCorrect, InvImpliesOneSequence, PTL

============================================================================
