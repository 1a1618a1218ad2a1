-------------------------- MODULE ReviewPagesProofs -------------------------
(***************************************************************************)
(* What the ReviewPages run checks, proved for any number of reviews,      *)
(* exports, cameras and objects: the pages agree with what the server has. *)
(***************************************************************************)
EXTENDS MCReviewPages, Sequences, FiniteSetTheorems, TLAPS

(***************************************************************************)
(* The review page                                                         *)
(***************************************************************************)
SegStatus == {"none", "open", "ended", "deleted"}
Flags == UNION {[S -> BOOLEAN] : S \in SUBSET Segs}
ItemSets == (SUBSET Segs) \cup {Null}
Posts == {p \in [kind : Review!Kinds, ids : SUBSET Segs, value : BOOLEAN, done : BOOLEAN, stale : BOOLEAN] :
             /\ p.kind \in {"one", "many", "card"} => p.value
             /\ p.kind \in {"one", "card"} => \E s \in Segs : p.ids = {s}}

ReviewTypes ==
    /\ db \in [Segs -> [status : SegStatus, viewed : BOOLEAN]] /\ ends \in Seq(Segs)
    /\ list \in Review!Lists \cup {Null} /\ load \in Review!Load \cup {Null} /\ items \in ItemSets
    /\ endedReviews \in Flags /\ own \subseteq Segs
    /\ severity \in Review!Severities /\ showReviewed \in BOOLEAN /\ dated \in BOOLEAN
    /\ selected \subseteq Segs /\ posts \subseteq Posts /\ doubt \subseteq Segs /\ stuck \in BOOLEAN

Begun(s) == db[s].status # "none"
Kept(s) == db[s].status \in {"open", "ended"}
Ending(s) == \E i \in DOMAIN ends : ends[i] = s
Busy(s) == \E p \in posts : s \in p.ids
Answered == load # Null /\ load.data # Null
ManyUnderWay == \E p \in posts : p.kind = "many"
Filtered == dated /\ \E p \in posts : p.kind \notin {"one", "card"}

\* A list that is missing is on its way; only a page of fixed dates loads one over another.
ListKept ==
    /\ list = Null <=> items = Null
    /\ list = Null => (load # Null /\ ~load.lost) \/ stuck
    /\ list # Null /\ load # Null => Segs \subseteq doubt
    /\ Filtered => Segs \subseteq doubt

\* What is listed or asked about has begun.
OnlyBegun ==
    /\ list # Null => \A s \in DOMAIN list : Begun(s)
    /\ Answered => \A s \in DOMAIN load.data : Begun(s)
    /\ \A s \in Segs : Busy(s) => Begun(s)

\* One request at a time is about the segment, and what it did is what was asked for.
PostsFit(s) ==
    /\ \A p \in posts, q \in posts : s \in p.ids /\ s \in q.ids => p = q
    /\ \A p \in posts : s \in p.ids /\ p.done /\ p.kind # "delete" /\ Kept(s) => db[s].viewed = p.value
    /\ \A p \in posts : s \in p.ids /\ p.kind = "card" => ~p.stale /\ ~Answered

\* An end on its way finds the segment as it was.
EndFits(s) == Ending(s) => db[s].status = "ended" /\ ~db[s].viewed /\ ~Busy(s)

RowAgrees(l, s) == s \in DOMAIN l /\ Kept(s) /\ ~Busy(s) => l[s].viewed = db[s].viewed

OnScreen(s) ==
    s \in DOMAIN list /\ Review!SeverityOf(s) = severity /\ (showReviewed \/ ~list[s].viewed) => s \in items

ListFits(s) == list # Null /\ ~ManyUnderWay => RowAgrees(list, s) /\ OnScreen(s)

AnswerFits(s) == Answered /\ ~load.lost => RowAgrees(load.data, s)

Sound(s) == PostsFit(s) /\ EndFits(s) /\ ListFits(s) /\ AnswerFits(s)

ReviewInv == ReviewTypes /\ ListKept /\ OnlyBegun /\ \A s \in Segs \ doubt : Sound(s)

LEMMA RevNone ==
    /\ Null \notin Review!Lists /\ Null \notin Review!Load /\ \A S \in SUBSET Segs : S # Null
    /\ Review!Asked \in Review!Load /\ Review!Asked.data = Null /\ ~Review!Asked.lost
  BY NullAssumption DEF Review!Asked, Review!Load

LEMMA RevLists ==
    /\ \A S \in SUBSET Segs : \A f \in [S -> Review!Row] : f \in Review!Lists
    /\ \A f \in Review!Lists : DOMAIN f \in SUBSET Segs /\ f \in [DOMAIN f -> Review!Row]
  BY DEF Review!Lists

LEMMA RevFlags ==
    /\ \A S \in SUBSET Segs : \A f \in [S -> BOOLEAN] : f \in Flags
    /\ \A f \in Flags : DOMAIN f \in SUBSET Segs /\ f \in [DOMAIN f -> BOOLEAN]
  BY DEF Flags

LEMMA RevCounts == \A S : Review!Cardinality(S) = Cardinality(S)
  BY DEF Review!Cardinality, Cardinality

LEMMA RevLengths ==
    /\ Review!Length(Null) = -1
    /\ \A f \in Review!Lists : Review!Length(f) \in Nat
    /\ \A f, g \in Review!Lists : DOMAIN f = DOMAIN g => Review!Length(f) = Review!Length(g)
<1>1. \A f \in Review!Lists : Cardinality(DOMAIN f) \in Nat
  BY RevLists, SegsAssumption, FS_Subset, FS_CardinalityType
<1>2. Review!Length(Null) = -1
  BY DEF Review!Length
<1>3. ASSUME NEW f \in Review!Lists PROVE Review!Length(f) = Cardinality(DOMAIN f)
  <2>1. f # Null
    BY RevNone
  <2> QED BY <2>1, RevCounts DEF Review!Length
<1> QED BY <1>1, <1>2, <1>3

LEMMA BusyIs == \A s : s \in Review!InFlight <=> Busy(s)
  BY DEF Review!InFlight, Busy

LEMMA KeptIs == \A s \in Segs : s \in Review!Stored <=> Kept(s)
  BY DEF Review!Stored, Kept

LEMMA ItemsOf ==
    ASSUME NEW l \in Review!Lists, NEW sev \in Review!Severities, NEW all \in BOOLEAN
    PROVE  /\ Review!currentItems(l, sev, all) \in SUBSET Segs
           /\ \A s \in DOMAIN l : Review!SeverityOf(s) = sev /\ (all \/ ~l[s].viewed)
                 => s \in Review!currentItems(l, sev, all)
  BY RevLists, RevNone DEF Review!currentItems

\* The memo is only computed again when the number of cached segments changes.
LEMMA ListSet ==
    ASSUME ReviewTypes, list = Null <=> items = Null, NEW l \in Review!Lists, Review!SetList(l)
    PROVE  /\ list' = l /\ items' \in SUBSET Segs /\ items' # Null
           /\ list # Null /\ DOMAIN list = DOMAIN l => items' = items
           /\ list = Null => items' = Review!currentItems(l, severity, showReviewed)
<1>1. list' = l /\ items' = IF Review!Length(l) = Review!Length(list) THEN items
                           ELSE Review!currentItems(l, severity, showReviewed)
  BY DEF Review!SetList
<1>2. Review!currentItems(l, severity, showReviewed) \in SUBSET Segs
  BY ItemsOf DEF ReviewTypes
<1>3. list = Null => Review!Length(l) # Review!Length(list)
  <2>1. Review!Length(l) \in Nat /\ Review!Length(Null) = -1
    BY RevLengths
  <2> QED BY <2>1
<1>4. list # Null => list \in Review!Lists /\ items \in SUBSET Segs
  BY DEF ReviewTypes, ItemSets
<1>5. list # Null /\ DOMAIN list = DOMAIN l => Review!Length(l) = Review!Length(list)
  BY <1>4, RevLengths
<1> QED BY <1>1, <1>2, <1>3, <1>4, <1>5, RevNone

LEMMA NullSet == ASSUME Review!SetList(Null), list = Null PROVE list' = Null /\ items' = items
  BY DEF Review!SetList

LEMMA ReviewInvInit == ASSUME Review!Init PROVE ReviewInv
<1>1. ReviewTypes
  <2>1. db \in [Segs -> [status : SegStatus, viewed : BOOLEAN]]
    BY DEF Review!Init, SegStatus
  <2>2. endedReviews \in Flags
    BY RevFlags DEF Review!Init
  <2>3. ends \in Seq(Segs) /\ load \in Review!Load /\ items \in ItemSets
    BY RevNone DEF Review!Init, ItemSets
  <2>4. own \subseteq Segs /\ severity \in Review!Severities /\ showReviewed \in BOOLEAN /\ dated \in BOOLEAN
        /\ selected \subseteq Segs /\ posts \subseteq Posts /\ doubt \subseteq Segs /\ stuck \in BOOLEAN
        /\ list = Null
    BY DEF Review!Init, Review!Severities
  <2> QED BY <2>1, <2>2, <2>3, <2>4 DEF ReviewTypes
<1>2. ListKept /\ OnlyBegun
  BY RevNone DEF Review!Init, ListKept, OnlyBegun, Filtered, Answered, Busy
<1>3. ASSUME NEW s \in Segs PROVE Sound(s)
  BY RevNone DEF Review!Init, Sound, PostsFit, EndFits, ListFits, AnswerFits, Answered, Ending
<1> QED BY <1>1, <1>2, <1>3 DEF ReviewInv

(***************************************************************************)
(* The server, and what arrives from it                                    *)
(***************************************************************************)
LEMMA SoundKept ==
    ASSUME NEW s \in Segs, Sound(s), db'[s] = db[s],
           UNCHANGED <<ends, list, load, items, posts, severity, showReviewed>>
    PROVE  Sound(s)'
<1>1. PostsFit(s)'
  BY DEF Sound, PostsFit, Kept, Answered
<1>2. EndFits(s)'
  BY DEF Sound, EndFits, Ending, Busy
<1>3. ListFits(s)'
  BY DEF Sound, ListFits, ManyUnderWay, RowAgrees, OnScreen, Kept, Busy
<1>4. AnswerFits(s)'
  BY DEF Sound, AnswerFits, RowAgrees, Kept, Busy, Answered
<1> QED BY <1>1, <1>2, <1>3, <1>4 DEF Sound

LEMMA StartSegmentKeeps == ASSUME ReviewInv, NEW x \in Segs, Review!StartSegment(x) PROVE ReviewInv'
<1>1. /\ db[x].status = "none" /\ db' = [db EXCEPT ![x].status = "open"]
      /\ UNCHANGED <<ends, list, load, items, endedReviews, own, severity, showReviewed, dated, selected,
                     posts, doubt, stuck>>
  BY DEF Review!StartSegment, Review!cache, Review!page
<1>2. ReviewTypes'
  BY <1>1 DEF ReviewInv, ReviewTypes, SegStatus
<1>3. ListKept'
  BY <1>1 DEF ReviewInv, ListKept, Filtered
<1>4. \A s \in Segs : Begun(s) => Begun(s)'
  BY <1>1 DEF ReviewInv, ReviewTypes, Begun
<1>5. \A s \in Segs : Busy(s)' <=> Busy(s)
  BY <1>1 DEF Busy
<1>6. OnlyBegun'
  <2>1. list # Null => DOMAIN list \subseteq Segs
    BY RevLists DEF ReviewInv, ReviewTypes
  <2>2. Answered => DOMAIN load.data \subseteq Segs
    BY RevLists DEF ReviewInv, ReviewTypes, Answered, Review!Load
  <2>3. Answered' <=> Answered
    BY <1>1 DEF Answered
  <2> QED BY <1>1, <1>4, <1>5, <2>1, <2>2, <2>3 DEF ReviewInv, OnlyBegun
<1>7. ASSUME NEW s \in Segs \ doubt' PROVE Sound(s)'
  <2>1. Sound(s)
    BY <1>1, <1>7 DEF ReviewInv
  <2>2. CASE s # x
    <3>1. db'[s] = db[s]
      BY <1>1, <2>2 DEF ReviewInv, ReviewTypes
    <3> QED BY <1>1, <2>1, <3>1, SoundKept
  <2>3. CASE s = x
    <3>1. ~Begun(s) /\ ~Busy(s) /\ (list # Null => s \notin DOMAIN list) /\ (Answered => s \notin DOMAIN load.data)
      BY <1>1, <2>3 DEF ReviewInv, OnlyBegun, Begun
    <3>2. ~Ending(s)
      BY <1>1, <2>1, <2>3 DEF Sound, EndFits
    <3>3. PostsFit(s)' /\ EndFits(s)'
      BY <1>1, <3>1, <3>2 DEF PostsFit, EndFits, Busy, Ending
    <3>4. ListFits(s)' /\ AnswerFits(s)'
      BY <1>1, <3>1 DEF ListFits, AnswerFits, RowAgrees, OnScreen, Answered
    <3> QED BY <3>3, <3>4 DEF Sound
  <2> QED BY <2>2, <2>3
<1> QED BY <1>2, <1>3, <1>6, <1>7 DEF ReviewInv

LEMMA EndSegmentKeeps == ASSUME ReviewInv, NEW x \in Segs, Review!EndSegment(x) PROVE ReviewInv'
<1>1. /\ db[x].status = "open" /\ db' = [db EXCEPT ![x].status = "ended"] /\ ends' = Append(ends, x)
      /\ doubt' = (IF db[x].viewed \/ Busy(x) THEN doubt \cup {x} ELSE doubt)
      /\ UNCHANGED <<list, load, items, endedReviews, own, severity, showReviewed, dated, selected,
                     posts, stuck>>
  BY BusyIs DEF Review!EndSegment, Review!cache, Review!page
<1>2. ReviewTypes'
  BY <1>1 DEF ReviewInv, ReviewTypes, SegStatus
<1>3. ListKept'
  BY <1>1 DEF ReviewInv, ListKept, Filtered
<1>4. \A s \in Segs : (Begun(s) => Begun(s)') /\ (Kept(s)' <=> Kept(s)) /\ db'[s].viewed = db[s].viewed
  BY <1>1 DEF ReviewInv, ReviewTypes, Begun, Kept
<1>5. \A s \in Segs : Busy(s)' <=> Busy(s)
  BY <1>1 DEF Busy
<1>6. OnlyBegun'
  <2>1. list # Null => DOMAIN list \subseteq Segs
    BY RevLists DEF ReviewInv, ReviewTypes
  <2>2. Answered => DOMAIN load.data \subseteq Segs
    BY RevLists DEF ReviewInv, ReviewTypes, Answered, Review!Load
  <2>3. Answered' <=> Answered
    BY <1>1 DEF Answered
  <2> QED BY <1>1, <1>4, <1>5, <2>1, <2>2, <2>3 DEF ReviewInv, OnlyBegun
<1>7. \A s : Ending(s)' => Ending(s) \/ s = x
  <2>1. ends \in Seq(Segs)
    BY DEF ReviewInv, ReviewTypes
  <2>2. Len(ends') = Len(ends) + 1 /\ \A i \in 1 .. Len(ends') : ends'[i] = IF i = Len(ends) + 1 THEN x ELSE ends[i]
    BY <1>1, <2>1
  <2>3. DOMAIN ends = 1 .. Len(ends) /\ DOMAIN ends' = 1 .. Len(ends') /\ Len(ends) \in Nat
    BY <1>1, <2>1
  <2> QED BY <2>2, <2>3 DEF Ending
<1>8. ASSUME NEW s \in Segs \ doubt' PROVE Sound(s)'
  <2>1. Sound(s)
    BY <1>1, <1>8 DEF ReviewInv
  <2>2. PostsFit(s)'
    BY <1>1, <1>4, <2>1 DEF Sound, PostsFit, Answered
  <2>3. EndFits(s)'
    <3>1. s # x => db'[s] = db[s]
      BY <1>1 DEF ReviewInv, ReviewTypes
    <3>2. s = x => ~db[s].viewed /\ ~Busy(s) /\ db'[s].status = "ended"
      BY <1>1, <1>8 DEF ReviewInv, ReviewTypes
    <3> QED BY <1>4, <1>5, <1>7, <2>1, <3>1, <3>2 DEF Sound, EndFits
  <2>4. ListFits(s)'
    BY <1>1, <1>4, <1>5, <2>1 DEF Sound, ListFits, ManyUnderWay, RowAgrees, OnScreen
  <2>5. AnswerFits(s)'
    BY <1>1, <1>4, <1>5, <2>1 DEF Sound, AnswerFits, RowAgrees, Answered
  <2> QED BY <2>2, <2>3, <2>4, <2>5 DEF Sound
<1> QED BY <1>2, <1>3, <1>6, <1>8 DEF ReviewInv

\* What leaves the list, the requests and the server alone keeps everything.
LEMMA AsideKeeps ==
    ASSUME ReviewInv, selected' \in SUBSET Segs,
           UNCHANGED <<db, ends, list, load, items, endedReviews, own, severity, showReviewed, dated,
                       posts, doubt, stuck>>
    PROVE  ReviewInv'
<1>1. ReviewTypes'
  BY DEF ReviewInv, ReviewTypes
<1>2. ListKept' /\ OnlyBegun'
  BY DEF ReviewInv, ListKept, OnlyBegun, Filtered, Answered, Busy, Begun
<1>3. \A s \in Segs \ doubt' : Sound(s)'
  BY SoundKept DEF ReviewInv
<1> QED BY <1>1, <1>2, <1>3 DEF ReviewInv

LEMMA AsidesKeep ==
    ASSUME ReviewInv,
           Review!SummaryAnswer \/ Review!CloseRecording \/ \E S \in SUBSET Segs : Review!SelectReviews(S)
    PROVE  ReviewInv'
<1>1. selected' \in SUBSET Segs
  BY DEF ReviewInv, ReviewTypes, Review!SummaryAnswer, Review!CloseRecording, Review!SelectReviews, Review!page
<1>2. UNCHANGED <<db, ends, list, load, items, endedReviews, own, severity, showReviewed, dated,
                  posts, doubt, stuck>>
  BY DEF Review!SummaryAnswer, Review!CloseRecording, Review!SelectReviews, Review!page, Review!cache
<1> QED BY <1>1, <1>2, AsideKeeps

LEMMA LoadReadKeeps == ASSUME ReviewInv, Review!LoadRead PROVE ReviewInv'
<1>1. /\ load \in Review!Load /\ load # Null /\ ~Answered
      /\ load' = [load EXCEPT !.data = Review!ServerRows] /\ doubt' = doubt \cup Review!Cards
      /\ UNCHANGED <<db, ends, list, items, endedReviews, own, severity, showReviewed, dated, selected,
                     posts, stuck>>
  BY DEF Review!LoadRead, Review!page, ReviewInv, ReviewTypes, Answered
<1>2. Review!ServerRows \in Review!Lists /\ \A s \in DOMAIN Review!ServerRows :
         s \in Segs /\ Kept(s) /\ Review!ServerRows[s].viewed = db[s].viewed
  <2>1. \A s \in Review!Stored : s \in Segs /\ Kept(s) /\ db[s].viewed \in BOOLEAN
    BY DEF ReviewInv, ReviewTypes, Review!Stored, Kept
  <2>2. Review!ServerRows \in [Review!Stored -> Review!Row]
    BY <2>1 DEF Review!ServerRows, Review!Row
  <2> QED BY <2>1, <2>2, RevLists DEF Review!ServerRows
<1>3. \A s : s \in Review!Cards <=> \E p \in posts : p.kind = "card" /\ s \in p.ids
  BY DEF Review!Cards
<1>4. load' \in Review!Load /\ load'.data = Review!ServerRows /\ load'.lost = load.lost /\ load' # Null /\ Answered'
  BY <1>1, <1>2, RevNone DEF Review!Load, Answered
<1>5. doubt' \in SUBSET Segs /\ doubt \subseteq doubt'
  BY <1>1, <1>3 DEF ReviewInv, ReviewTypes, Posts
<1>6. ReviewTypes'
  BY <1>1, <1>4, <1>5 DEF ReviewInv, ReviewTypes
<1>7. ListKept'
  BY <1>1, <1>4, <1>5 DEF ReviewInv, ListKept, Filtered
<1>8. OnlyBegun'
  <2>1. \A s : Begun(s)' <=> Begun(s)
    BY <1>1 DEF Begun
  <2>2. \A s : Busy(s)' <=> Busy(s)
    BY <1>1 DEF Busy
  <2> QED BY <1>1, <1>2, <1>4, <2>1, <2>2 DEF ReviewInv, OnlyBegun, Kept, Begun
<1>9. ASSUME NEW s \in Segs \ doubt' PROVE Sound(s)'
  <2>1. Sound(s) /\ \A p \in posts : s \in p.ids => p.kind # "card"
    BY <1>1, <1>3, <1>5, <1>9 DEF ReviewInv
  <2>2. PostsFit(s)'
    BY <1>1, <2>1 DEF Sound, PostsFit, Kept
  <2>3. EndFits(s)' /\ ListFits(s)'
    BY <1>1, <2>1 DEF Sound, EndFits, ListFits, Ending, Busy, ManyUnderWay, RowAgrees, OnScreen, Kept
  <2>4. AnswerFits(s)'
    BY <1>1, <1>2, <1>4 DEF AnswerFits, RowAgrees
  <2> QED BY <2>2, <2>3, <2>4 DEF Sound
<1> QED BY <1>6, <1>7, <1>8, <1>9 DEF ReviewInv

\* The cards that lose their object are still the same requests.
LEMMA CardsLost ==
    ASSUME ReviewTypes, NEW S \in SUBSET Segs, posts' = Review!CardsLose(S)
    PROVE  /\ posts' \subseteq Posts
           /\ \A s : Busy(s)' <=> Busy(s)
           /\ ManyUnderWay' <=> ManyUnderWay
           /\ (\E p \in posts' : p.kind \notin {"one", "card"}) <=> \E p \in posts : p.kind \notin {"one", "card"}
           /\ \A s \in Segs : (\A p \in posts : p.kind = "card" /\ p.ids \subseteq S => s \notin p.ids)
                 => \A p \in posts' : s \in p.ids => p \in posts
<1> DEFINE lose(p) == IF p.kind = "card" /\ p.ids \subseteq S THEN [p EXCEPT !.stale = TRUE] ELSE p
<1>1. posts' = {lose(p) : p \in posts}
  BY DEF Review!CardsLose
<1>2. ASSUME NEW p \in posts
      PROVE  lose(p) \in Posts /\ lose(p).kind = p.kind /\ lose(p).ids = p.ids
             /\ (~(p.kind = "card" /\ p.ids \subseteq S) => lose(p) = p)
  BY DEF ReviewTypes, Posts
<1> HIDE DEF lose
<1>3. posts' \subseteq Posts
  BY <1>1, <1>2
<1>4. \A s : Busy(s)' <=> Busy(s)
  BY <1>1, <1>2 DEF Busy
<1>5. ManyUnderWay' <=> ManyUnderWay
  BY <1>1, <1>2 DEF ManyUnderWay
<1>6. (\E p \in posts' : p.kind \notin {"one", "card"}) <=> \E p \in posts : p.kind \notin {"one", "card"}
  BY <1>1, <1>2
<1>7. ASSUME NEW s \in Segs, \A p \in posts : p.kind = "card" /\ p.ids \subseteq S => s \notin p.ids,
             NEW q \in posts', s \in q.ids
      PROVE  q \in posts
  <2>1. PICK p \in posts : q = lose(p)
    BY <1>1
  <2>2. s \in p.ids
    BY <1>7, <1>2, <2>1
  <2> QED BY <1>7, <1>2, <2>1, <2>2
<1> QED BY <1>3, <1>4, <1>5, <1>6, <1>7

\* An answer that is what the server has, with nothing else under way, fits every segment.
LEMMA ClearedUp ==
    ASSUME ReviewInv, Review!LoadAnswer, Review!ClearsUp PROVE ReviewInv'
<1>1. /\ load # Null /\ load.data = Review!ServerRows /\ load' = Null /\ doubt' = {} /\ list = Null
      /\ Review!SetList(load.data) /\ own' = {} /\ posts' = Review!CardsLose(Segs) /\ posts = {} /\ ends = <<>>
      /\ UNCHANGED <<db, ends, endedReviews, severity, showReviewed, dated, selected, stuck>>
  BY DEF Review!LoadAnswer, Review!page, Review!ClearsUp
<1>2. load.data \in Review!Lists /\ load.data # Null
  BY <1>1 DEF Review!LoadAnswer, ReviewInv, ReviewTypes, Review!Load
<1>3. /\ list' = load.data /\ items' \in SUBSET Segs /\ items' # Null
      /\ items' = Review!currentItems(load.data, severity, showReviewed)
  BY <1>1, <1>2, ListSet DEF ReviewInv, ListKept
<1>4. posts' = {}
  BY <1>1 DEF Review!CardsLose
<1>5. ReviewTypes'
  BY <1>1, <1>2, <1>3, <1>4 DEF ReviewInv, ReviewTypes, ItemSets
<1>6. \A s \in DOMAIN list' : s \in Segs /\ Kept(s) /\ list'[s].viewed = db[s].viewed
  BY <1>1, <1>3 DEF Review!ServerRows, Review!Stored, Kept
<1>7. ListKept' /\ OnlyBegun'
  BY <1>1, <1>2, <1>3, <1>4, <1>6 DEF ListKept, OnlyBegun, Filtered, Answered, Busy, Begun, Kept
<1>8. ASSUME NEW s \in Segs PROVE Sound(s)'
  <2>1. PostsFit(s)' /\ EndFits(s)' /\ AnswerFits(s)'
    BY <1>1, <1>4 DEF PostsFit, EndFits, AnswerFits, Answered, Ending
  <2>2. RowAgrees(list, s)'
    BY <1>1, <1>6 DEF RowAgrees
  <2>3. OnScreen(s)'
    BY <1>1, <1>2, <1>3, ItemsOf DEF OnScreen, ReviewInv, ReviewTypes
  <2> QED BY <2>1, <2>2, <2>3 DEF Sound, ListFits
<1> QED BY <1>5, <1>7, <1>8 DEF ReviewInv

LEMMA LoadAnswerKeeps == ASSUME ReviewInv, Review!LoadAnswer PROVE ReviewInv'
<1> SUFFICES ASSUME ~Review!ClearsUp PROVE ReviewInv'
  BY ClearedUp
<1>1. /\ load \in Review!Load /\ load # Null /\ load.data \in Review!Lists /\ load.data # Null /\ Answered
      /\ load' = Null
      /\ UNCHANGED <<db, ends, endedReviews, severity, showReviewed, dated, selected, doubt, stuck>>
  BY DEF Review!LoadAnswer, Review!page, ReviewInv, ReviewTypes, Review!Load, Answered
<1>2. ~Answered' /\ \A s : (Begun(s)' <=> Begun(s)) /\ (Kept(s)' <=> Kept(s)) /\ (Ending(s)' <=> Ending(s))
  BY <1>1 DEF Answered, Begun, Kept, Ending
<1>3. CASE load.lost
  <2>1. UNCHANGED <<list, items, own, posts>>
    BY <1>3 DEF Review!LoadAnswer
  <2>2. ReviewTypes'
    BY <1>1, <2>1 DEF ReviewInv, ReviewTypes
  <2>3. ListKept' /\ OnlyBegun'
    BY <1>1, <1>2, <1>3, <2>1 DEF ReviewInv, ListKept, OnlyBegun, Filtered, Busy
  <2>4. ASSUME NEW s \in Segs \ doubt' PROVE Sound(s)'
    <3>1. Sound(s)
      BY <1>1, <2>4 DEF ReviewInv
    <3>2. PostsFit(s)' /\ EndFits(s)'
      BY <1>1, <1>2, <2>1, <3>1 DEF Sound, PostsFit, EndFits, Busy
    <3>3. ListFits(s)' /\ AnswerFits(s)'
      BY <1>1, <1>2, <2>1, <3>1 DEF Sound, ListFits, AnswerFits, Busy, ManyUnderWay, RowAgrees, OnScreen
    <3> QED BY <3>2, <3>3 DEF Sound
  <2> QED BY <2>2, <2>3, <2>4 DEF ReviewInv
<1>4. CASE ~load.lost
  <2>1. Review!SetList(load.data) /\ own' = {} /\ posts' = Review!CardsLose(Segs)
    BY <1>4 DEF Review!LoadAnswer
  <2>2. /\ list' = load.data /\ items' \in SUBSET Segs /\ items' # Null
        /\ list = Null => items' = Review!currentItems(load.data, severity, showReviewed)
    BY <1>1, <2>1, ListSet DEF ReviewInv, ListKept
  <2>3. posts' \subseteq Posts /\ (\A s : Busy(s)' <=> Busy(s))
        /\ ((\E p \in posts' : p.kind \notin {"one", "card"}) <=> \E p \in posts : p.kind \notin {"one", "card"})
    BY <2>1, CardsLost DEF ReviewInv
  <2>4. ReviewTypes'
    BY <1>1, <2>1, <2>2, <2>3 DEF ReviewInv, ReviewTypes, ItemSets
  <2>5. ListKept' /\ OnlyBegun'
    BY <1>1, <1>2, <2>2, <2>3, RevNone DEF ReviewInv, ListKept, OnlyBegun, Filtered
  <2>6. ASSUME NEW s \in Segs \ doubt' PROVE Sound(s)'
    <3>1. Sound(s) /\ list = Null
      BY <1>1, <2>6 DEF ReviewInv, ListKept
    <3>2. \A p \in posts : s \in p.ids => p.kind # "card"
      BY <1>1, <3>1 DEF Sound, PostsFit
    <3>3. \A p \in posts' : s \in p.ids => p \in posts
      BY <2>1, <3>2, CardsLost DEF ReviewInv
    <3>4. PostsFit(s)' /\ EndFits(s)'
      BY <1>1, <1>2, <2>3, <3>1, <3>2, <3>3 DEF Sound, PostsFit, EndFits
    <3>5. RowAgrees(list, s)'
      BY <1>1, <1>2, <1>4, <2>2, <2>3, <3>1 DEF Sound, AnswerFits, RowAgrees
    <3>6. OnScreen(s)'
      BY <1>1, <2>2, <3>1, ItemsOf DEF OnScreen, ReviewInv, ReviewTypes
    <3> QED BY <1>2, <3>4, <3>5, <3>6 DEF Sound, ListFits, AnswerFits
  <2> QED BY <2>4, <2>5, <2>6 DEF ReviewInv
<1> QED BY <1>3, <1>4

LEMMA PostApplyKeeps == ASSUME ReviewInv, NEW p \in posts, Review!PostApply(p) PROVE ReviewInv'
<1> DEFINE q == [p EXCEPT !.done = TRUE]
           after(s) == IF s \notin p.ids \cap Review!Stored THEN db[s]
                       ELSE IF p.kind = "delete" THEN [status |-> "deleted", viewed |-> FALSE]
                       ELSE [db[s] EXCEPT !.viewed = p.value]
<1>1. /\ ~p.done /\ posts' = (posts \ {p}) \cup {q} /\ db' = [s \in Segs |-> after(s)]
      /\ UNCHANGED <<ends, list, load, items, endedReviews, own, severity, showReviewed, dated, selected,
                     doubt, stuck>>
  BY DEF Review!PostApply, Review!cache, Review!page
<1>2. p \in Posts /\ q \in Posts /\ q.kind = p.kind /\ q.ids = p.ids /\ q.value = p.value /\ q.stale = p.stale
  BY DEF ReviewInv, ReviewTypes, Posts
<1>3. ASSUME NEW s \in Segs
      PROVE  /\ db'[s] \in [status : SegStatus, viewed : BOOLEAN]
             /\ s \notin p.ids => db'[s] = db[s]
             /\ Begun(s) => Begun(s)'
             /\ s \in p.ids /\ p.kind # "delete" /\ Kept(s)' => db'[s].viewed = p.value
  <2>1. db'[s] = after(s) /\ db[s] \in [status : SegStatus, viewed : BOOLEAN] /\ p.value \in BOOLEAN
    BY <1>1, <1>2 DEF ReviewInv, ReviewTypes, Posts
  <2>2. s \in Review!Stored <=> Kept(s)
    BY KeptIs
  <2>3. CASE s \notin p.ids \cap Review!Stored
    <3>1. db'[s] = db[s]
      BY <2>1, <2>3
    <3> QED BY <2>1, <2>2, <2>3, <3>1 DEF Begun, Kept
  <2>4. CASE s \in p.ids \cap Review!Stored /\ p.kind = "delete"
    <3>1. db'[s] = [status |-> "deleted", viewed |-> FALSE]
      BY <2>1, <2>4
    <3> QED BY <2>4, <3>1 DEF Begun, Kept, SegStatus
  <2>5. CASE s \in p.ids \cap Review!Stored /\ p.kind # "delete"
    <3>1. db'[s] = [db[s] EXCEPT !.viewed = p.value]
      BY <2>1, <2>5
    <3> QED BY <2>1, <2>5, <3>1 DEF Begun, Kept
  <2> QED BY <2>3, <2>4, <2>5
<1>4. db' \in [Segs -> [status : SegStatus, viewed : BOOLEAN]]
  BY <1>1, <1>3
<1> HIDE DEF q, after
<1>5. (\A s : Busy(s)' <=> Busy(s)) /\ (ManyUnderWay' <=> ManyUnderWay) /\ (Filtered' <=> Filtered)
      /\ (Answered' <=> Answered) /\ \A s : Ending(s)' <=> Ending(s)
  BY <1>1, <1>2 DEF Busy, ManyUnderWay, Filtered, Answered, Ending
<1>6. ReviewTypes'
  BY <1>1, <1>2, <1>4 DEF ReviewInv, ReviewTypes
<1>7. ListKept'
  BY <1>1, <1>5 DEF ReviewInv, ListKept
<1>8. OnlyBegun'
  <2>1. list # Null => DOMAIN list \subseteq Segs
    BY RevLists DEF ReviewInv, ReviewTypes
  <2>2. Answered => DOMAIN load.data \subseteq Segs
    BY RevLists DEF ReviewInv, ReviewTypes, Answered, Review!Load
  <2> QED BY <1>1, <1>3, <1>5, <2>1, <2>2 DEF ReviewInv, OnlyBegun
<1>9. ASSUME NEW s \in Segs \ doubt' PROVE Sound(s)'
  <2>1. Sound(s)
    BY <1>1, <1>9 DEF ReviewInv
  <2>2. CASE s \in p.ids
    <3>1. Busy(s) /\ Busy(s)' /\ \A r \in posts : s \in r.ids => r = p
      BY <1>5, <2>1, <2>2 DEF Sound, PostsFit, Busy
    <3>2. \A r \in posts' : s \in r.ids => r = q
      BY <1>1, <3>1
    <3>3. PostsFit(s)'
      BY <1>1, <1>2, <1>3, <1>5, <2>1, <2>2, <3>2 DEF Sound, PostsFit
    <3>4. EndFits(s)'
      BY <1>5, <2>1, <3>1 DEF Sound, EndFits
    <3>5. ListFits(s)' /\ AnswerFits(s)'
      BY <1>1, <1>5, <2>1, <3>1 DEF Sound, ListFits, AnswerFits, RowAgrees, OnScreen
    <3> QED BY <3>3, <3>4, <3>5 DEF Sound
  <2>3. CASE s \notin p.ids
    <3>1. db'[s] = db[s] /\ \A r \in posts' : s \in r.ids => r \in posts
      BY <1>1, <1>2, <1>3, <2>3
    <3>2. PostsFit(s)'
      BY <1>5, <2>1, <3>1 DEF Sound, PostsFit, Kept
    <3>3. EndFits(s)' /\ ListFits(s)' /\ AnswerFits(s)'
      BY <1>1, <1>5, <2>1, <3>1 DEF Sound, EndFits, ListFits, AnswerFits, RowAgrees, OnScreen, Kept
    <3> QED BY <3>2, <3>3 DEF Sound
  <2> QED BY <2>2, <2>3
<1> QED BY <1>6, <1>7, <1>8, <1>9 DEF ReviewInv

\* An ended segment replaces the cached row and is laid over the shown one.
LEMMA EndUpdateKeeps == ASSUME ReviewInv, Review!EndUpdate PROVE ReviewInv'
<1> DEFINE x == Head(ends)
           row2 == [ended |-> TRUE, viewed |-> FALSE]
           l == IF x \in DOMAIN list THEN [list EXCEPT ![x] = row2] ELSE list
<1>1. /\ ends \in Seq(Segs) /\ ends # <<>> /\ ends' = Tail(ends)
      /\ UNCHANGED <<db, severity, showReviewed, dated, selected, doubt, stuck>>
  BY DEF Review!EndUpdate, Review!page, ReviewInv, ReviewTypes
<1>2. x \in Segs /\ Ending(x) /\ ends' \in Seq(Segs) /\ \A s : Ending(s)' => Ending(s)
  <2>1. Len(ends) \in Nat /\ Len(ends) # 0 /\ x = ends[1] /\ x \in Segs /\ ends' \in Seq(Segs)
    BY <1>1
  <2>2. Len(ends') = Len(ends) - 1 /\ \A i \in 1 .. Len(ends') : ends'[i] = ends[i + 1]
    BY <1>1
  <2>3. DOMAIN ends = 1 .. Len(ends) /\ DOMAIN ends' = 1 .. Len(ends')
    BY <1>1
  <2> QED BY <2>1, <2>2, <2>3 DEF Ending
<1>3. \A s : (Begun(s)' <=> Begun(s)) /\ (Kept(s)' <=> Kept(s))
  BY <1>1 DEF Begun, Kept
<1>4. CASE list = Null
  <2>1. UNCHANGED <<list, load, items, endedReviews, own, posts>>
    BY <1>4 DEF Review!EndUpdate, Review!cache
  <2>2. ReviewTypes'
    BY <1>1, <1>2, <2>1 DEF ReviewInv, ReviewTypes
  <2>3. ListKept' /\ OnlyBegun'
    BY <1>1, <1>3, <2>1 DEF ReviewInv, ListKept, OnlyBegun, Filtered, Busy, Answered
  <2>4. ASSUME NEW s \in Segs \ doubt' PROVE Sound(s)'
    <3>1. Sound(s)
      BY <1>1, <2>4 DEF ReviewInv
    <3>2. PostsFit(s)' /\ EndFits(s)'
      BY <1>1, <1>2, <1>3, <2>1, <3>1 DEF Sound, PostsFit, EndFits, Busy, Answered
    <3>3. ListFits(s)' /\ AnswerFits(s)'
      BY <1>1, <1>3, <2>1, <3>1 DEF Sound, ListFits, AnswerFits, Busy, ManyUnderWay, RowAgrees, OnScreen, Answered
    <3> QED BY <3>2, <3>3 DEF Sound
  <2> QED BY <2>2, <2>3, <2>4 DEF ReviewInv
<1>5. CASE list # Null
  <2>1. /\ Review!SetList(l) /\ posts' = Review!CardsLose({x})
        /\ load' = (IF load = Null THEN Null ELSE [load EXCEPT !.lost = TRUE])
        /\ endedReviews' = [t \in DOMAIN endedReviews \cup {x} |-> IF t = x THEN FALSE ELSE endedReviews[t]]
        /\ own' = (IF x \in DOMAIN list THEN own \cup {x} ELSE own)
    BY <1>5 DEF Review!EndUpdate, Review!Mutate
  <2>2. list \in Review!Lists /\ DOMAIN list \in SUBSET Segs /\ list \in [DOMAIN list -> Review!Row]
    BY <1>5, RevLists DEF ReviewInv, ReviewTypes
  <2>3. row2 \in Review!Row
    BY DEF Review!Row
  <2> HIDE DEF row2
  <2>4. l \in [DOMAIN list -> Review!Row] /\ DOMAIN l = DOMAIN list
    BY <2>2, <2>3
  <2>5. /\ \A s \in DOMAIN list : s # x => l[s] = list[s]
        /\ x \in DOMAIN list => l[x] = row2
    BY <2>2
  <2>6. l \in Review!Lists
    BY <2>2, <2>4, RevLists
  <2> HIDE DEF l
  <2>7. list' = l /\ items' = items /\ list' # Null
    <3>1. list' = l
      BY <2>1, <2>6, ListSet DEF ReviewInv, ListKept
    <3>2. items' = items
      BY <1>5, <2>1, <2>4, <2>6, ListSet DEF ReviewInv, ListKept
    <3> QED BY <2>6, <3>1, <3>2, RevNone
  <2>8. load' \in Review!Load \cup {Null} /\ (load' = Null <=> load = Null) /\ (Answered' <=> Answered)
        /\ (Answered => load'.data = load.data)
    BY <2>1, RevNone DEF ReviewInv, ReviewTypes, Review!Load, Answered
  <2>9. posts' \subseteq Posts /\ (\A s : Busy(s)' <=> Busy(s)) /\ (ManyUnderWay' <=> ManyUnderWay)
        /\ ((\E p \in posts' : p.kind \notin {"one", "card"}) <=> \E p \in posts : p.kind \notin {"one", "card"})
    BY <1>2, <2>1, CardsLost DEF ReviewInv
  <2>10. endedReviews' \in Flags
    <3>1. DOMAIN endedReviews \in SUBSET Segs /\ endedReviews \in [DOMAIN endedReviews -> BOOLEAN]
      BY RevFlags DEF ReviewInv, ReviewTypes
    <3>2. endedReviews' \in [DOMAIN endedReviews \cup {x} -> BOOLEAN]
      BY <2>1, <3>1
    <3> QED BY <1>2, <3>1, <3>2, RevFlags
  <2>11. ReviewTypes'
    BY <1>1, <1>2, <2>1, <2>2, <2>6, <2>7, <2>8, <2>9, <2>10 DEF ReviewInv, ReviewTypes
  <2>12. ListKept'
    BY <1>1, <1>5, <2>7, <2>8, <2>9 DEF ReviewInv, ListKept, Filtered
  <2>13. OnlyBegun'
    BY <1>3, <1>5, <2>4, <2>7, <2>8, <2>9 DEF ReviewInv, OnlyBegun
  <2>14. ASSUME NEW s \in Segs \ doubt' PROVE Sound(s)'
    <3>1. Sound(s) /\ load = Null /\ ~Answered
      BY <1>1, <1>5, <2>14 DEF ReviewInv, ListKept, Answered
    <3>2. \A p \in posts : p.kind = "card" /\ p.ids \subseteq {x} => s \notin p.ids
      <4>1. s = x => ~Busy(s)
        BY <1>2, <3>1 DEF Sound, EndFits
      <4> QED BY <4>1 DEF Busy
    <3>3. \A p \in posts' : s \in p.ids => p \in posts
      <4>1. {x} \in SUBSET Segs
        BY <1>2
      <4> HIDE DEF x
      <4> QED BY <2>1, <3>2, <4>1, CardsLost DEF ReviewInv
    <3>4. PostsFit(s)' /\ EndFits(s)'
      BY <1>1, <1>2, <1>3, <2>8, <2>9, <3>1, <3>3 DEF Sound, PostsFit, EndFits
    <3>5. AnswerFits(s)'
      BY <2>8, <3>1 DEF AnswerFits
    <3>6. ASSUME ~ManyUnderWay' PROVE RowAgrees(list, s)' /\ OnScreen(s)'
      <4>1. RowAgrees(list, s) /\ OnScreen(s)
        BY <1>5, <2>9, <3>1, <3>6 DEF Sound, ListFits
      <4>2. CASE s # x
        BY <1>1, <1>3, <2>4, <2>5, <2>7, <2>9, <4>1, <4>2 DEF RowAgrees, OnScreen
      <4>3. CASE s = x
        <5>1. db[s].viewed = FALSE /\ Kept(s) /\ ~Busy(s)
          BY <1>2, <3>1, <4>3 DEF Sound, EndFits, Kept, ReviewInv, ReviewTypes
        <5>2. s \in DOMAIN list => list[s].viewed = FALSE /\ l[s].viewed = FALSE
          <6> SUFFICES ASSUME s \in DOMAIN list PROVE list[s].viewed = FALSE /\ l[s].viewed = FALSE
            OBVIOUS
          <6>1. list[s].viewed = db[s].viewed
            BY <4>1, <5>1 DEF RowAgrees
          <6>2. l[s].viewed = FALSE
            BY <2>5, <4>3 DEF row2
          <6> QED BY <5>1, <6>1, <6>2
        <5>3. RowAgrees(list, s)'
          BY <1>1, <2>4, <2>7, <5>1, <5>2 DEF RowAgrees
        <5>4. OnScreen(s)'
          BY <1>1, <2>4, <2>7, <4>1, <5>2 DEF OnScreen
        <5> QED BY <5>3, <5>4
      <4> QED BY <4>2, <4>3
    <3> QED BY <3>4, <3>5, <3>6 DEF Sound, ListFits
  <2> QED BY <2>11, <2>12, <2>13, <2>14 DEF ReviewInv
<1> QED BY <1>4, <1>5

(***************************************************************************)
(* The answers                                                             *)
(***************************************************************************)
\* A new key: nothing is listed until its load is answered.
LEMMA ReloadKeeps ==
    ASSUME ReviewInv, list' = Null, items' = Null, load' = Review!Asked, own' = {}, posts' \subseteq posts,
           severity' \in Review!Severities, selected' \in SUBSET Segs, stuck' = FALSE,
           UNCHANGED <<db, ends, endedReviews, showReviewed, dated, doubt>>
    PROVE  ReviewInv'
<1>1. ReviewTypes'
  BY RevNone DEF ReviewInv, ReviewTypes, ItemSets
<1>2. ~Answered' /\ load' # Null /\ ~load'.lost
  BY RevNone DEF Answered
<1>3. \A s : (Busy(s)' => Busy(s)) /\ (Begun(s)' <=> Begun(s)) /\ (Kept(s)' <=> Kept(s)) /\ (Ending(s)' <=> Ending(s))
  BY DEF Busy, Begun, Kept, Ending
<1>4. ListKept' /\ OnlyBegun'
  BY <1>2, <1>3 DEF ReviewInv, ListKept, OnlyBegun, Filtered
<1>5. ASSUME NEW s \in Segs \ doubt' PROVE Sound(s)'
  <2>1. Sound(s)
    BY <1>5 DEF ReviewInv
  <2>2. PostsFit(s)'
    BY <1>2, <1>3, <2>1 DEF Sound, PostsFit
  <2>3. EndFits(s)' /\ ListFits(s)' /\ AnswerFits(s)'
    BY <1>2, <1>3, <2>1 DEF Sound, EndFits, ListFits, AnswerFits
  <2> QED BY <2>2, <2>3 DEF Sound
<1> QED BY <1>1, <1>4, <1>5 DEF ReviewInv

\* With every segment in doubt only the list itself is left to keep.
LEMMA DoubtKeeps ==
    ASSUME ReviewInv, Segs \subseteq doubt, posts' \subseteq posts, selected' \in SUBSET Segs,
           (load' = load /\ stuck' = stuck) \/ (load' = Review!Asked /\ stuck' = FALSE),
           UNCHANGED <<db, ends, list, items, own, endedReviews, severity, showReviewed, dated, doubt>>
    PROVE  ReviewInv'
<1>1. ReviewTypes'
  BY RevNone DEF ReviewInv, ReviewTypes
<1>2. ListKept'
  BY RevNone DEF ReviewInv, ListKept
<1>3. Answered' => Answered /\ load' = load
  BY RevNone DEF Answered
<1>4. OnlyBegun'
  BY <1>3 DEF ReviewInv, OnlyBegun, Busy, Begun
<1> QED BY <1>1, <1>2, <1>4 DEF ReviewInv

LEMMA ReloadsKeep ==
    ASSUME ReviewInv, NEW p \in posts, Review!ManyReply(p) \/ Review!GroupReply(p) PROVE ReviewInv'
<1>1. /\ p.kind \in {"many", "toggle", "delete"} /\ posts' = posts \ {p} /\ selected' \in {selected, {}}
      /\ UNCHANGED <<db, ends, endedReviews, severity, showReviewed, dated, doubt>>
  BY DEF Review!ManyReply, Review!GroupReply, Review!page
<1>2. selected' \in SUBSET Segs
  BY <1>1 DEF ReviewInv, ReviewTypes
<1>3. CASE dated
  <2>1. Segs \subseteq doubt
    BY <1>1, <1>3 DEF ReviewInv, ListKept, Filtered
  <2>2. /\ (load' = load /\ stuck' = stuck) \/ (load' = Review!Asked /\ stuck' = FALSE)
        /\ UNCHANGED <<list, items, own>>
    BY <1>3 DEF Review!ManyReply, Review!GroupReply, Review!Revalidate, Review!reloadData, Review!Ask
  <2> QED BY <1>1, <1>2, <2>1, <2>2, DoubtKeeps
<1>4. CASE ~dated
  <2>1. list' = Null /\ items' = Null /\ load' = Review!Asked /\ own' = {} /\ stuck' = FALSE
    BY <1>4 DEF Review!ManyReply, Review!GroupReply, Review!reloadData, Review!Ask
  <2> QED BY <1>1, <1>2, <2>1, ReloadKeeps DEF ReviewInv, ReviewTypes
<1> QED BY <1>3, <1>4

\* A request is answered or fails.
LEMMA PostGone ==
    ASSUME ReviewInv, NEW p \in posts, posts' = posts \ {p}
    PROVE  /\ \A s : Busy(s)' => Busy(s)
           /\ \A s : s \notin p.ids => (Busy(s)' <=> Busy(s))
           /\ p.kind # "many" => (ManyUnderWay' <=> ManyUnderWay)
           /\ \A s \in p.ids : s \in Segs /\ (s \notin doubt => ~Busy(s)')
           /\ \A q \in posts' : q \in posts
           /\ (\E q \in posts' : q.kind \notin {"one", "card"}) => \E q \in posts : q.kind \notin {"one", "card"}
<1>1. \A s : Busy(s)' => Busy(s)
  BY DEF Busy
<1>2. \A s : s \notin p.ids => (Busy(s)' <=> Busy(s))
  BY DEF Busy
<1>3. p.kind # "many" => (ManyUnderWay' <=> ManyUnderWay)
  BY DEF ManyUnderWay
<1>4. p \in Posts /\ p.ids \subseteq Segs
  BY DEF ReviewInv, ReviewTypes, Posts
<1>5. ASSUME NEW s \in p.ids, s \notin doubt PROVE ~Busy(s)'
  <2>1. PostsFit(s)
    BY <1>4, <1>5 DEF ReviewInv, Sound
  <2> QED BY <1>5, <2>1 DEF PostsFit, Busy
<1> QED BY <1>1, <1>2, <1>3, <1>4, <1>5

LEMMA PostFailKeeps == ASSUME ReviewInv, NEW p \in posts, Review!PostFail(p) PROVE ReviewInv'
<1>1. /\ posts' = posts \ {p} /\ doubt' = doubt \cup (IF p.kind = "many" THEN Segs ELSE p.ids)
      /\ UNCHANGED <<db, ends, list, load, items, endedReviews, own, severity, showReviewed, dated, selected, stuck>>
  BY DEF Review!PostFail, Review!cache, Review!page
<1>2. p.ids \subseteq Segs
  BY DEF ReviewInv, ReviewTypes, Posts
<1>3. \A s : (Begun(s)' <=> Begun(s)) /\ (Kept(s)' <=> Kept(s)) /\ (Ending(s)' <=> Ending(s))
  BY <1>1 DEF Begun, Kept, Ending
<1>4. Answered' <=> Answered
  BY <1>1 DEF Answered
<1>5. ReviewTypes'
  BY <1>1, <1>2 DEF ReviewInv, ReviewTypes
<1>6. ListKept' /\ OnlyBegun'
  BY <1>1, <1>2, <1>3, <1>4, PostGone DEF ReviewInv, ListKept, OnlyBegun, Filtered
<1>7. ASSUME NEW s \in Segs \ doubt' PROVE Sound(s)'
  <2>1. Sound(s) /\ s \notin p.ids /\ p.kind # "many"
    BY <1>1, <1>7 DEF ReviewInv
  <2>2. (Busy(s)' <=> Busy(s)) /\ (ManyUnderWay' <=> ManyUnderWay) /\ \A q \in posts' : q \in posts
    BY <1>1, <2>1, PostGone
  <2>3. PostsFit(s)'
    BY <1>1, <1>3, <1>4, <2>1, <2>2 DEF Sound, PostsFit
  <2>4. EndFits(s)' /\ ListFits(s)' /\ AnswerFits(s)'
    BY <1>1, <1>3, <1>4, <2>1, <2>2 DEF Sound, EndFits, ListFits, AnswerFits, RowAgrees, OnScreen
  <2> QED BY <2>3, <2>4 DEF Sound
<1> QED BY <1>5, <1>6, <1>7 DEF ReviewInv

\* The row of the one segment that was asked about is a reviewed one, or is left as it is.
RowMarked(x) ==
    /\ list' \in Review!Lists /\ DOMAIN list' = DOMAIN list
    /\ \A s \in DOMAIN list : (s # x /\ list'[s] = list[s]) \/ (s = x /\ list'[s] = [list[s] EXCEPT !.viewed = TRUE])

\* Once what was asked of one segment is answered, its row and its record agree.
LEMMA MarkedKeeps ==
    ASSUME ReviewInv, list # Null, NEW p \in posts, NEW x \in Segs, p.ids = {x}, p.kind \in {"one", "card"}, p.done,
           posts' = posts \ {p}, items' = items, own' \subseteq Segs, endedReviews' \in Flags,
           load' = load \/ load' = [load EXCEPT !.lost = TRUE],
           load = Null <=> load' = Null,
           RowMarked(x) \/ (list' = list /\ p.kind = "card" /\ p.stale),
           UNCHANGED <<db, ends, severity, showReviewed, dated, selected, doubt>>,
           stuck' \in BOOLEAN
    PROVE  ReviewInv'
<1>1. p \in Posts /\ p.value = TRUE
  BY DEF ReviewInv, ReviewTypes, Posts
<1>2. list' \in Review!Lists /\ list' # Null /\ DOMAIN list' = DOMAIN list /\ list \in Review!Lists
      /\ DOMAIN list \subseteq Segs /\ \A s \in DOMAIN list : list[s] \in Review!Row
  BY RevNone, RevLists DEF RowMarked, ReviewInv, ReviewTypes
<1>3. \A s : (Begun(s)' <=> Begun(s)) /\ (Kept(s)' <=> Kept(s)) /\ (Ending(s)' <=> Ending(s))
  BY DEF Begun, Kept, Ending
<1>4. load' \in Review!Load \cup {Null} /\ (Answered' <=> Answered) /\ (Answered => load'.data = load.data)
  BY RevNone DEF ReviewInv, ReviewTypes, Review!Load, Answered
<1>5. ReviewTypes'
  BY <1>2, <1>4 DEF ReviewInv, ReviewTypes
<1>6. ListKept' /\ OnlyBegun'
  BY <1>2, <1>3, <1>4, PostGone DEF ReviewInv, ListKept, OnlyBegun, Filtered
<1>7. ASSUME NEW s \in Segs \ doubt' PROVE Sound(s)'
  <2>1. Sound(s) /\ load = Null /\ ~Answered'
    BY <1>4, <1>7 DEF ReviewInv, ListKept, Answered
  <2>2. (s # x => (Busy(s)' <=> Busy(s))) /\ (Busy(s)' => Busy(s)) /\ (ManyUnderWay' <=> ManyUnderWay)
        /\ \A q \in posts' : q \in posts
    BY PostGone
  <2>3. PostsFit(s)'
    BY <1>3, <2>1, <2>2 DEF Sound, PostsFit
  <2>4. EndFits(s)' /\ AnswerFits(s)'
    BY <1>3, <2>1, <2>2 DEF Sound, EndFits, AnswerFits
  <2>5. ASSUME ~ManyUnderWay' PROVE RowAgrees(list, s)' /\ OnScreen(s)'
    <3>1. RowAgrees(list, s) /\ OnScreen(s)
      BY <2>1, <2>2, <2>5 DEF Sound, ListFits
    <3>2. CASE s # x
      <4>1. s \in DOMAIN list => list'[s] = list[s]
        BY <3>2 DEF RowMarked
      <4> QED BY <1>2, <1>3, <2>2, <3>1, <3>2, <4>1 DEF RowAgrees, OnScreen
    <3>3. CASE s = x
      <4>1. Kept(s) => db[s].viewed = TRUE
        BY <1>1, <2>1, <3>3 DEF Sound, PostsFit
      <4>2. ~(p.kind = "card" /\ p.stale)
        BY <2>1, <3>3 DEF Sound, PostsFit
      <4>3. s \in DOMAIN list => list'[s].viewed = TRUE
        BY <1>2, <3>3, <4>2 DEF RowMarked, Review!Row
      <4>4. RowAgrees(list, s)'
        BY <1>2, <1>3, <4>1, <4>3 DEF RowAgrees
      <4>5. OnScreen(s)'
        BY <1>2, <3>1, <4>3 DEF OnScreen
      <4> QED BY <4>4, <4>5
    <3> QED BY <3>2, <3>3
  <2> QED BY <2>3, <2>4, <2>5 DEF Sound, ListFits
<1> QED BY <1>5, <1>6, <1>7 DEF ReviewInv

LEMMA OneReplyKeeps == ASSUME ReviewInv, NEW p \in posts, Review!OneReply(p) PROVE ReviewInv'
<1>1. p.kind = "one" /\ p.done /\ posts' = posts \ {p} /\ p \in Posts
      /\ UNCHANGED <<db, ends, endedReviews, severity, showReviewed, dated, selected, doubt>>
      /\ stuck' = (stuck \/ (list = Null /\ load # Null))
  BY DEF Review!OneReply, Review!page, ReviewInv, ReviewTypes
<1>2. PICK x \in Segs : p.ids = {x}
  BY <1>1 DEF Posts
<1>3. Review!MarkedOne(x)
  BY <1>1, <1>2 DEF Review!OneReply
<1>4. load' = (IF load = Null THEN Null ELSE [load EXCEPT !.lost = TRUE]) /\ own' = own \ {x}
  BY <1>3 DEF Review!MarkedOne, Review!Mutate
<1>5. /\ load' \in Review!Load \cup {Null} /\ (load' = Null <=> load = Null) /\ (Answered' <=> Answered)
      /\ (load # Null => load'.lost = TRUE /\ load'.data = load.data)
  BY <1>4, RevNone DEF ReviewInv, ReviewTypes, Review!Load, Answered
<1>6. stuck' \in BOOLEAN /\ own' \subseteq Segs /\ endedReviews' \in Flags
  BY <1>1, <1>4 DEF ReviewInv, ReviewTypes
<1>7. CASE list = Null
  <2>1. list' = Null /\ items' = items
    BY <1>3, <1>7, NullSet DEF Review!MarkedOne, Review!Mutate
  <2>2. ReviewTypes'
    BY <1>1, <1>5, <1>6, <2>1 DEF ReviewInv, ReviewTypes
  <2>3. \A s : (Begun(s)' <=> Begun(s)) /\ (Kept(s)' <=> Kept(s)) /\ (Ending(s)' <=> Ending(s))
    BY <1>1 DEF Begun, Kept, Ending
  <2>4. ListKept' /\ OnlyBegun'
    BY <1>1, <1>5, <1>7, <2>1, <2>3, PostGone DEF ReviewInv, ListKept, OnlyBegun, Filtered, Answered
  <2>5. ASSUME NEW s \in Segs \ doubt' PROVE Sound(s)'
    <3>1. Sound(s)
      BY <1>1, <2>5 DEF ReviewInv
    <3>2. (Busy(s)' => Busy(s)) /\ \A q \in posts' : q \in posts
      BY <1>1, PostGone
    <3>3. PostsFit(s)'
      BY <1>1, <1>5, <2>3, <3>1, <3>2 DEF Sound, PostsFit
    <3>4. EndFits(s)' /\ ListFits(s)' /\ AnswerFits(s)'
      BY <1>1, <1>5, <2>1, <2>3, <3>1, <3>2 DEF Sound, EndFits, ListFits, AnswerFits, Answered
    <3> QED BY <3>3, <3>4 DEF Sound
  <2> QED BY <2>2, <2>4, <2>5 DEF ReviewInv
<1>8. CASE list # Null
  <2> DEFINE l == IF list # Null /\ x \in DOMAIN list THEN [list EXCEPT ![x].viewed = TRUE] ELSE list
  <2>1. Review!SetList(l)
    BY <1>3 DEF Review!MarkedOne, Review!Mutate
  <2>2. list \in Review!Lists /\ DOMAIN list \in SUBSET Segs /\ list \in [DOMAIN list -> Review!Row]
    BY <1>8, RevLists DEF ReviewInv, ReviewTypes
  <2>3. x \in DOMAIN list => [list[x] EXCEPT !.viewed = TRUE] \in Review!Row
    BY <2>2 DEF Review!Row
  <2>4. l \in [DOMAIN list -> Review!Row] /\ DOMAIN l = DOMAIN list
    BY <1>8, <2>2, <2>3
  <2>5. \A s \in DOMAIN list : (s # x /\ l[s] = list[s]) \/ (s = x /\ l[s] = [list[s] EXCEPT !.viewed = TRUE])
    BY <1>8, <2>2
  <2>6. l \in Review!Lists
    BY <2>2, <2>4, RevLists
  <2> HIDE DEF l
  <2>7. list' = l /\ items' = items
    BY <1>8, <2>1, <2>4, <2>6, ListSet DEF ReviewInv, ListKept
  <2>8. RowMarked(x)
    BY <2>4, <2>5, <2>6, <2>7 DEF RowMarked
  <2> QED BY <1>1, <1>2, <1>4, <1>5, <1>6, <1>8, <2>7, <2>8, MarkedKeeps
<1> QED BY <1>7, <1>8

\* Marking in place keeps the list and the overlays what they are.
LEMMA InPlaceFits ==
    ASSUME ReviewTypes, list # Null, NEW S \in SUBSET Segs, Review!InPlace(S)
    PROVE  /\ list' \in Review!Lists /\ DOMAIN list' = DOMAIN list /\ endedReviews' \in Flags
           /\ \A s \in DOMAIN list : list'[s] = IF s \in S THEN [list[s] EXCEPT !.viewed = TRUE] ELSE list[s]
<1>1. list' = [s \in DOMAIN list |-> IF s \in S THEN [list[s] EXCEPT !.viewed = TRUE] ELSE list[s]]
      /\ endedReviews' = [s \in DOMAIN endedReviews |-> endedReviews[s] \/ (s \in S \cap own)]
  BY DEF Review!InPlace
<1>2. list \in Review!Lists /\ DOMAIN list \in SUBSET Segs /\ list \in [DOMAIN list -> Review!Row]
  BY RevLists DEF ReviewTypes
<1>3. \A s \in DOMAIN list : [list[s] EXCEPT !.viewed = TRUE] \in Review!Row
  BY <1>2 DEF Review!Row
<1>4. list' \in [DOMAIN list -> Review!Row]
  BY <1>1, <1>2, <1>3
<1>5. list' \in Review!Lists
  BY <1>2, <1>4, RevLists
<1>6. DOMAIN endedReviews \in SUBSET Segs /\ endedReviews' \in [DOMAIN endedReviews -> BOOLEAN]
  BY <1>1, RevFlags DEF ReviewTypes
<1> QED BY <1>1, <1>4, <1>5, <1>6, RevFlags

LEMMA CardReplyKeeps == ASSUME ReviewInv, NEW p \in posts, Review!CardReply(p) PROVE ReviewInv'
<1>1. p.kind = "card" /\ p.done /\ posts' = posts \ {p} /\ p \in Posts
      /\ UNCHANGED <<db, ends, load, items, own, severity, showReviewed, dated, selected, doubt, stuck>>
  BY DEF Review!CardReply, Review!page, ReviewInv, ReviewTypes
<1>2. PICK x \in Segs : p.ids = {x}
  BY <1>1 DEF Posts
<1>3. own' \subseteq Segs /\ stuck' \in BOOLEAN
  BY <1>1 DEF ReviewInv, ReviewTypes
<1>4. CASE list = Null
  <2>1. list' = Null /\ endedReviews' = endedReviews
    BY <1>4 DEF Review!CardReply
  <2>2. ReviewTypes'
    BY <1>1, <1>3, <2>1 DEF ReviewInv, ReviewTypes
  <2>3. \A s : (Begun(s)' <=> Begun(s)) /\ (Kept(s)' <=> Kept(s)) /\ (Ending(s)' <=> Ending(s))
    BY <1>1 DEF Begun, Kept, Ending
  <2>4. Answered' <=> Answered
    BY <1>1 DEF Answered
  <2>5. ListKept' /\ OnlyBegun'
    BY <1>1, <1>4, <2>1, <2>3, <2>4, PostGone DEF ReviewInv, ListKept, OnlyBegun, Filtered
  <2>6. ASSUME NEW s \in Segs \ doubt' PROVE Sound(s)'
    <3>1. Sound(s)
      BY <1>1, <2>6 DEF ReviewInv
    <3>2. (Busy(s)' => Busy(s)) /\ (s # x => (Busy(s)' <=> Busy(s))) /\ \A q \in posts' : q \in posts
      BY <1>1, <1>2, PostGone
    <3>3. PostsFit(s)'
      BY <1>1, <2>3, <2>4, <3>1, <3>2 DEF Sound, PostsFit
    <3>4. s = x => ~Answered'
      BY <1>1, <1>2, <2>4, <3>1 DEF Sound, PostsFit
    <3>5. EndFits(s)' /\ ListFits(s)' /\ AnswerFits(s)'
      BY <1>1, <2>1, <2>3, <2>4, <3>1, <3>2, <3>4 DEF Sound, EndFits, ListFits, AnswerFits, RowAgrees
    <3> QED BY <3>3, <3>5 DEF Sound
  <2> QED BY <2>2, <2>5, <2>6 DEF ReviewInv
<1>5. CASE list # Null /\ p.stale
  <2>1. list' = list /\ endedReviews' = endedReviews
    BY <1>5 DEF Review!CardReply
  <2>2. endedReviews' \in Flags
    BY <2>1 DEF ReviewInv, ReviewTypes
  <2> QED BY <1>1, <1>2, <1>3, <1>5, <2>1, <2>2, MarkedKeeps
<1>6. CASE list # Null /\ ~p.stale
  <2>1. Review!InPlace(p.ids)
    BY <1>6 DEF Review!CardReply
  <2>2. RowMarked(x) /\ endedReviews' \in Flags
    BY <1>2, <1>6, <2>1, InPlaceFits DEF RowMarked, ReviewInv
  <2> QED BY <1>1, <1>2, <1>3, <1>6, <2>2, MarkedKeeps
<1> QED BY <1>4, <1>5, <1>6

(***************************************************************************)
(* The user                                                                *)
(***************************************************************************)
\* A request about segments of the list, with what is marked before it is answered.
LEMMA PostedKeeps ==
    ASSUME ReviewInv, NEW kind \in Review!Kinds, NEW ids \in SUBSET Segs, NEW value \in BOOLEAN,
           Review!PostOn(kind, ids, value), list # Null, ids \subseteq DOMAIN list,
           kind \in {"one", "many", "card"} => value,
           kind \in {"one", "card"} => \E x \in Segs : ids = {x},
           list' \in Review!Lists, DOMAIN list' = DOMAIN list,
           kind # "many" => \A s \in DOMAIN list :
               list'[s] = list[s] \/ (s \in ids /\ list'[s] = [list[s] EXCEPT !.viewed = TRUE]),
           load' = (IF load = Null THEN Null ELSE [load EXCEPT !.lost = TRUE]) \/ load' = load,
           endedReviews' \in Flags, selected' \in SUBSET Segs,
           UNCHANGED <<db, ends, items, own, severity, showReviewed, dated, stuck>>
    PROVE  ReviewInv'
<1> DEFINE r == [kind |-> kind, ids |-> ids, value |-> value, done |-> FALSE, stale |-> FALSE]
<1>1. /\ posts' = posts \cup {r}
      /\ doubt' = doubt \cup (ids \cap Review!InFlight) \cup (IF kind = "card" /\ load # Null THEN ids ELSE {})
                     \cup {s \in ids : ~list[s].ended \/ \E i \in DOMAIN ends : ends[i] = s}
                     \cup (IF dated /\ kind \notin {"one", "card"} THEN Segs ELSE {})
  BY DEF Review!PostOn
<1>2. r \in Posts /\ r.kind = kind /\ r.ids = ids /\ r.done = FALSE /\ r.stale = FALSE
  BY DEF Posts
<1> HIDE DEF r
<1>3. doubt \subseteq doubt' /\ doubt' \in SUBSET Segs /\ (dated /\ kind \notin {"one", "card"} => Segs \subseteq doubt')
  BY <1>1 DEF ReviewInv, ReviewTypes
<1>4. \A s \in Segs : s \in ids /\ s \notin doubt' => ~Busy(s) /\ ~Ending(s)
  BY <1>1, BusyIs DEF Ending
<1>5. \A s : (Begun(s)' <=> Begun(s)) /\ (Kept(s)' <=> Kept(s)) /\ (Ending(s)' <=> Ending(s))
             /\ (Busy(s)' <=> Busy(s) \/ s \in ids)
  BY <1>1, <1>2 DEF Begun, Kept, Ending, Busy
<1>6. ManyUnderWay' <=> (ManyUnderWay \/ kind = "many")
  BY <1>1, <1>2 DEF ManyUnderWay
<1>7. load' \in Review!Load \cup {Null} /\ (load' = Null <=> load = Null) /\ (Answered' <=> Answered)
      /\ (Answered => load'.data = load.data)
  <2>1. CASE load' = load
    BY <2>1 DEF ReviewInv, ReviewTypes, Answered
  <2>2. CASE load' # load
    <3>1. load \in Review!Load /\ load # Null /\ load' = [load EXCEPT !.lost = TRUE]
      BY <2>2 DEF ReviewInv, ReviewTypes
    <3> QED BY <3>1, RevNone DEF Review!Load, Answered
  <2> QED BY <2>1, <2>2
<1>8. ReviewTypes'
  BY <1>1, <1>2, <1>3, <1>7 DEF ReviewInv, ReviewTypes
<1>9. ListKept'
  <2>1. Filtered' => Segs \subseteq doubt'
    BY <1>1, <1>2, <1>3 DEF Filtered, ReviewInv, ListKept
  <2> QED BY <1>3, <1>7, <2>1, RevNone DEF ReviewInv, ListKept
<1>10. OnlyBegun'
  BY <1>5, <1>7 DEF ReviewInv, OnlyBegun
<1>11. ASSUME NEW s \in Segs \ doubt' PROVE Sound(s)'
  <2>1. Sound(s) /\ load = Null /\ ~Answered /\ ~Answered'
    BY <1>3, <1>7, <1>11 DEF ReviewInv, ListKept, Answered
  <2>2. s \in ids => \A p \in posts' : s \in p.ids => p = r
    BY <1>1, <1>4, <1>11 DEF Busy
  <2>3. s \notin ids => \A p \in posts' : s \in p.ids => p \in posts
    BY <1>1, <1>2
  <2>4. PostsFit(s)'
    BY <1>2, <1>5, <2>1, <2>2, <2>3 DEF Sound, PostsFit
  <2>5. EndFits(s)'
    BY <1>4, <1>5, <1>11, <2>1 DEF Sound, EndFits
  <2>6. AnswerFits(s)'
    BY <2>1 DEF AnswerFits
  <2>7. ASSUME ~ManyUnderWay' PROVE RowAgrees(list, s)' /\ OnScreen(s)'
    <3>1. RowAgrees(list, s) /\ OnScreen(s) /\ kind # "many"
      BY <1>6, <2>1, <2>7 DEF Sound, ListFits
    <3>2. CASE s \in ids
      <4>1. RowAgrees(list, s)'
        BY <1>5, <3>2 DEF RowAgrees
      <4>2. s \in DOMAIN list => list[s] \in Review!Row
        BY RevLists DEF ReviewInv, ReviewTypes
      <4>3. s \in DOMAIN list => list'[s].viewed = list[s].viewed \/ list'[s].viewed = TRUE
        BY <3>1, <4>2 DEF Review!Row
      <4>4. OnScreen(s)'
        BY <3>1, <4>3 DEF OnScreen
      <4> QED BY <4>1, <4>4
    <3>3. CASE s \notin ids
      <4>1. s \in DOMAIN list => list'[s] = list[s]
        BY <3>1, <3>3
      <4> QED BY <1>5, <3>1, <3>3, <4>1 DEF RowAgrees, OnScreen
    <3> QED BY <3>2, <3>3
  <2> QED BY <2>4, <2>5, <2>6, <2>7 DEF Sound, ListFits
<1> QED BY <1>8, <1>9, <1>10, <1>11 DEF ReviewInv

LEMMA ShownInPlaceFits ==
    ASSUME ReviewTypes, list # Null, NEW x \in DOMAIN list, Review!ShownInPlace(x)
    PROVE  /\ list' \in Review!Lists /\ DOMAIN list' = DOMAIN list /\ endedReviews' \in Flags
           /\ \A s \in DOMAIN list :
                 list'[s] = list[s] \/ (s \in {x} /\ list'[s] = [list[s] EXCEPT !.viewed = TRUE])
<1>1. list \in Review!Lists /\ DOMAIN list \in SUBSET Segs /\ list \in [DOMAIN list -> Review!Row]
  BY RevLists DEF ReviewTypes
<1>2. DOMAIN endedReviews \in SUBSET Segs /\ endedReviews \in [DOMAIN endedReviews -> BOOLEAN]
  BY RevFlags DEF ReviewTypes
<1>3. endedReviews' = endedReviews \/ (x \in DOMAIN endedReviews /\ endedReviews' = [endedReviews EXCEPT ![x] = TRUE])
  BY DEF Review!ShownInPlace
<1>4. endedReviews' \in Flags
  <2>1. endedReviews' \in [DOMAIN endedReviews -> BOOLEAN]
    BY <1>2, <1>3
  <2> QED BY <1>2, <2>1, RevFlags
<1>5. list' = list \/ list' = [list EXCEPT ![x].viewed = TRUE]
  BY DEF Review!ShownInPlace
<1>6. [list[x] EXCEPT !.viewed = TRUE] \in Review!Row
  BY <1>1 DEF Review!Row
<1>7. list' \in [DOMAIN list -> Review!Row]
  BY <1>1, <1>5, <1>6
<1>8. list' \in Review!Lists
  BY <1>1, <1>7, RevLists
<1>9. \A s \in DOMAIN list :
         list'[s] = list[s] \/ (s \in {x} /\ list'[s] = [list[s] EXCEPT !.viewed = TRUE])
  BY <1>1, <1>5
<1> QED BY <1>4, <1>7, <1>8, <1>9

LEMMA ViewKeeps ==
    ASSUME ReviewInv, NEW x \in Segs, Review!handleSetReviewed(x) \/ Review!OpenSegment(x) PROVE ReviewInv'
<1>1. /\ items # Null /\ x \in DOMAIN list /\ Review!ShownInPlace(x) /\ Review!PostOn("one", {x}, TRUE)
      /\ UNCHANGED <<db, ends, load, items, own, severity, showReviewed, dated, selected, stuck>>
  BY DEF Review!handleSetReviewed, Review!OpenSegment, Review!page
<1>2. list # Null
  BY <1>1 DEF ReviewInv, ListKept
<1>3. selected' \in SUBSET Segs
  BY <1>1 DEF ReviewInv, ReviewTypes
<1>4. /\ list' \in Review!Lists /\ DOMAIN list' = DOMAIN list /\ endedReviews' \in Flags
      /\ \A s \in DOMAIN list :
            list'[s] = list[s] \/ (s \in {x} /\ list'[s] = [list[s] EXCEPT !.viewed = TRUE])
  BY <1>1, <1>2, ShownInPlaceFits DEF ReviewInv
<1>5. "one" \in Review!Kinds /\ {x} \in SUBSET Segs /\ {x} \subseteq DOMAIN list
  BY <1>1 DEF Review!Kinds
<1> QED BY <1>1, <1>2, <1>3, <1>4, <1>5, PostedKeeps

LEMMA AskKeeps ==
    ASSUME ReviewInv,
           \/ \E x \in Segs : Review!handleMarkResolved(x)
           \/ \E kind \in {"toggle", "delete"} : Review!GroupAction(kind)
    PROVE  ReviewInv'
<1>1. /\ list # Null
      /\ UNCHANGED <<db, ends, list, load, items, own, endedReviews, severity, showReviewed, dated, selected, stuck>>
  BY DEF Review!handleMarkResolved, Review!GroupAction, Review!page, Review!cache
<1>2. list' \in Review!Lists /\ endedReviews' \in Flags /\ selected' \in SUBSET Segs
  BY <1>1 DEF ReviewInv, ReviewTypes
<1>3. ASSUME NEW x \in Segs, Review!handleMarkResolved(x) PROVE ReviewInv'
  <2>1. x \in DOMAIN list /\ Review!PostOn("card", {x}, TRUE)
    BY <1>3 DEF Review!handleMarkResolved
  <2>2. "card" \in Review!Kinds /\ {x} \in SUBSET Segs /\ {x} \subseteq DOMAIN list
    BY <2>1 DEF Review!Kinds
  <2> QED BY <1>1, <1>2, <2>1, <2>2, PostedKeeps
<1>4. ASSUME NEW kind \in {"toggle", "delete"}, Review!GroupAction(kind) PROVE ReviewInv'
  <2> DEFINE v == \E s \in selected : ~Review!Displayed(s)
  <2>1. selected \subseteq DOMAIN list /\ Review!PostOn(kind, selected, v)
    BY <1>4 DEF Review!GroupAction
  <2>2. kind \in Review!Kinds /\ kind \notin {"one", "many", "card"} /\ selected \in SUBSET Segs
    BY DEF Review!Kinds, ReviewInv, ReviewTypes
  <2>3. v \in BOOLEAN
    OBVIOUS
  <2> HIDE DEF v
  <2> QED BY <1>1, <1>2, <2>1, <2>2, <2>3, PostedKeeps
<1> QED BY <1>3, <1>4

\* Everything ended of the severity is marked; with nothing to ask for, nothing changes.
LEMMA MarkItemsKeeps ==
    ASSUME ReviewInv, NEW ids \in SUBSET Segs, Review!MarkItems(ids), ids \subseteq DOMAIN list,
           ids = {} => \A s \in DOMAIN list : s \in items => ~list[s].ended
    PROVE  ReviewInv'
<1> DEFINE S == {s \in DOMAIN list : list[s].ended /\ Review!SeverityOf(s) = severity}
<1>1. /\ list # Null /\ Review!InPlace(S) /\ selected' = {}
      /\ load' = (IF load = Null THEN Null ELSE [load EXCEPT !.lost = TRUE])
      /\ IF ids = {} THEN UNCHANGED <<posts, doubt>> ELSE Review!PostOn("many", ids, TRUE)
      /\ UNCHANGED <<db, ends, items, own, severity, showReviewed, dated, stuck>>
  BY DEF Review!MarkItems
<1>2. S \in SUBSET Segs
  BY <1>1, RevLists DEF ReviewInv, ReviewTypes
<1> HIDE DEF S
<1>3. /\ list' \in Review!Lists /\ DOMAIN list' = DOMAIN list /\ endedReviews' \in Flags
      /\ \A s \in DOMAIN list : list'[s] = IF s \in S THEN [list[s] EXCEPT !.viewed = TRUE] ELSE list[s]
  BY <1>1, <1>2, InPlaceFits DEF ReviewInv
<1>4. CASE ids # {}
  <2>1. "many" \in Review!Kinds
    BY DEF Review!Kinds
  <2> QED BY <1>1, <1>3, <1>4, <2>1, PostedKeeps
<1>5. CASE ids = {}
  <2>1. load' \in Review!Load \cup {Null} /\ (load' = Null <=> load = Null) /\ (Answered' <=> Answered)
        /\ (Answered => load'.data = load.data)
    BY <1>1, RevNone DEF ReviewInv, ReviewTypes, Review!Load, Answered
  <2>2. ReviewTypes'
    BY <1>1, <1>3, <1>5, <2>1 DEF ReviewInv, ReviewTypes
  <2>3. \A s : (Begun(s)' <=> Begun(s)) /\ (Kept(s)' <=> Kept(s)) /\ (Ending(s)' <=> Ending(s)) /\ (Busy(s)' <=> Busy(s))
    BY <1>1, <1>5 DEF Begun, Kept, Ending, Busy
  <2>4. ListKept' /\ OnlyBegun'
    BY <1>1, <1>3, <1>5, <2>1, <2>3, RevNone DEF ReviewInv, ListKept, OnlyBegun, Filtered
  <2>5. ASSUME NEW s \in Segs \ doubt' PROVE Sound(s)'
    <3>1. Sound(s) /\ load = Null /\ ~Answered'
      BY <1>1, <1>5, <2>1, <2>5 DEF ReviewInv, ListKept, Answered
    <3>2. PostsFit(s)' /\ EndFits(s)' /\ AnswerFits(s)'
      BY <1>1, <1>5, <2>3, <3>1 DEF Sound, PostsFit, EndFits, AnswerFits
    <3>3. ASSUME ~ManyUnderWay' PROVE RowAgrees(list, s)' /\ OnScreen(s)'
      <4>1. RowAgrees(list, s) /\ OnScreen(s)
        BY <1>1, <1>5, <3>1, <3>3 DEF Sound, ListFits, ManyUnderWay
      <4>2. s \in DOMAIN list => list[s] \in Review!Row
        BY <1>1, RevLists DEF ReviewInv, ReviewTypes
      <4>3. s \in S => s \in DOMAIN list /\ list[s].viewed = TRUE
        BY <1>5, <4>1, <4>2 DEF S, OnScreen, Review!Row
      <4>4. s \in DOMAIN list => list'[s].viewed = list[s].viewed
        BY <1>3, <4>2, <4>3 DEF Review!Row
      <4> QED BY <1>1, <1>3, <2>3, <4>1, <4>4 DEF RowAgrees, OnScreen
    <3> QED BY <3>2, <3>3 DEF Sound, ListFits
  <2> QED BY <2>2, <2>4, <2>5 DEF ReviewInv
<1> QED BY <1>4, <1>5

LEMMA MarksKeep == ASSUME ReviewInv, Review!MarkThese \/ Review!MarkSelected PROVE ReviewInv'
<1>1. CASE Review!MarkThese
  <2> DEFINE ids == {s \in items \cap DOMAIN list : list[s].ended}
  <2>1. items # Null /\ Review!MarkItems(ids)
    BY <1>1 DEF Review!MarkThese
  <2>2. ids \in SUBSET Segs /\ ids \subseteq DOMAIN list
    BY <2>1 DEF ReviewInv, ReviewTypes, ItemSets
  <2>3. ids = {} => \A s \in DOMAIN list : s \in items => ~list[s].ended
    OBVIOUS
  <2> HIDE DEF ids
  <2> QED BY <2>1, <2>2, <2>3, MarkItemsKeeps
<1>2. CASE Review!MarkSelected
  <2>1. selected # {} /\ selected \subseteq DOMAIN list /\ Review!MarkItems(selected) /\ selected \in SUBSET Segs
    BY <1>2 DEF Review!MarkSelected, ReviewInv, ReviewTypes
  <2> QED BY <2>1, MarkItemsKeeps
<1> QED BY <1>1, <1>2

\* What is shown is computed again.
LEMMA FilterKeeps ==
    ASSUME ReviewInv, NEW v \in Review!Severities, NEW all \in BOOLEAN,
           severity' = v, showReviewed' = all, items' = Review!currentItems(list, v, all),
           UNCHANGED <<db, ends, list, load, endedReviews, own, dated, selected, posts, doubt, stuck>>
    PROVE  ReviewInv'
<1>1. items' \in ItemSets /\ (items' = Null <=> list = Null)
  <2>1. CASE list = Null
    BY <2>1 DEF Review!currentItems, ItemSets
  <2>2. CASE list # Null
    BY <2>2, ItemsOf, RevNone DEF ReviewInv, ReviewTypes, ItemSets
  <2> QED BY <2>1, <2>2
<1>2. ReviewTypes'
  BY <1>1 DEF ReviewInv, ReviewTypes
<1>3. \A s : (Begun(s)' <=> Begun(s)) /\ (Kept(s)' <=> Kept(s)) /\ (Ending(s)' <=> Ending(s)) /\ (Busy(s)' <=> Busy(s))
  BY DEF Begun, Kept, Ending, Busy
<1>4. (Answered' <=> Answered) /\ (ManyUnderWay' <=> ManyUnderWay) /\ (Filtered' <=> Filtered)
  BY DEF Answered, ManyUnderWay, Filtered
<1>5. ListKept' /\ OnlyBegun'
  BY <1>1, <1>3, <1>4 DEF ReviewInv, ListKept, OnlyBegun
<1>6. ASSUME NEW s \in Segs \ doubt' PROVE Sound(s)'
  <2>1. Sound(s)
    BY <1>6 DEF ReviewInv
  <2>2. PostsFit(s)' /\ EndFits(s)' /\ AnswerFits(s)'
    BY <1>3, <1>4, <2>1 DEF Sound, PostsFit, EndFits, AnswerFits, RowAgrees
  <2>3. list # Null => OnScreen(s)'
    BY ItemsOf DEF OnScreen, ReviewInv, ReviewTypes
  <2>4. ListFits(s)'
    BY <1>3, <1>4, <2>1, <2>3 DEF Sound, ListFits, RowAgrees
  <2> QED BY <2>2, <2>4 DEF Sound
<1> QED BY <1>2, <1>5, <1>6 DEF ReviewInv

LEMMA ChoiceKeeps ==
    ASSUME ReviewInv,
           \/ \E v \in Review!Severities, old \in BOOLEAN : Review!SetSeverity(v, old)
           \/ Review!SetShowReviewed \/ Review!pullLatestData
    PROVE  ReviewInv'
<1>1. severity \in Review!Severities /\ showReviewed \in BOOLEAN /\ selected \in SUBSET Segs
  BY DEF ReviewInv, ReviewTypes
<1>2. ASSUME NEW v \in Review!Severities, NEW old \in BOOLEAN, Review!SetSeverity(v, old) PROVE ReviewInv'
  <2>1. severity' = v
        /\ UNCHANGED <<db, ends, endedReviews, showReviewed, dated, selected, posts, doubt>>
    BY <1>2 DEF Review!SetSeverity
  <2>2. CASE old /\ ~dated
    <3>1. list' = Null /\ items' = Null /\ load' = Review!Asked /\ own' = {} /\ stuck' = FALSE
      BY <1>2, <2>2 DEF Review!SetSeverity, Review!reloadData, Review!Ask
    <3> QED BY <1>1, <2>1, <3>1, ReloadKeeps
  <2>3. CASE ~(old /\ ~dated)
    <3>1. items' = Review!currentItems(list, v, showReviewed) /\ UNCHANGED <<list, load, own, stuck>>
      BY <1>2, <2>3 DEF Review!SetSeverity
    <3> QED BY <1>1, <2>1, <3>1, FilterKeeps
  <2> QED BY <2>2, <2>3
<1>3. CASE Review!SetShowReviewed
  <2>1. showReviewed' = ~showReviewed /\ items' = Review!currentItems(list, severity, showReviewed')
        /\ UNCHANGED <<db, ends, list, load, endedReviews, own, severity, dated, selected, posts, doubt, stuck>>
    BY <1>3 DEF Review!SetShowReviewed
  <2> QED BY <1>1, <2>1, FilterKeeps
<1>4. CASE Review!pullLatestData
  <2>1. Review!reloadData
        /\ UNCHANGED <<db, ends, endedReviews, severity, showReviewed, dated, selected, posts, doubt>>
    BY <1>4 DEF Review!pullLatestData, Review!page
  <2>2. CASE dated
    <3>1. UNCHANGED <<list, load, items, own, stuck>>
      BY <2>1, <2>2 DEF Review!reloadData
    <3> QED BY <1>1, <2>1, <3>1, AsideKeeps
  <2>3. CASE ~dated
    <3>1. list' = Null /\ items' = Null /\ load' = Review!Asked /\ own' = {} /\ stuck' = FALSE
      BY <2>1, <2>3 DEF Review!reloadData, Review!Ask
    <3> QED BY <1>1, <2>1, <3>1, ReloadKeeps
  <2> QED BY <2>2, <2>3
<1> QED BY <1>2, <1>3, <1>4

LEMMA ReviewInvNext == ASSUME ReviewInv, Review!Next PROVE ReviewInv'
<1>1. CASE \E x \in Segs : Review!StartSegment(x) \/ Review!EndSegment(x)
  BY <1>1, StartSegmentKeeps, EndSegmentKeeps
<1>2. CASE \E x \in Segs : Review!handleSetReviewed(x) \/ Review!OpenSegment(x)
  BY <1>2, ViewKeeps
<1>3. CASE \/ \E x \in Segs : Review!handleMarkResolved(x)
           \/ \E kind \in {"toggle", "delete"} : Review!GroupAction(kind)
  BY <1>3, AskKeeps
<1>4. CASE Review!LoadRead \/ Review!LoadAnswer \/ Review!EndUpdate
  BY <1>4, LoadReadKeeps, LoadAnswerKeeps, EndUpdateKeeps
<1>5. CASE Review!SummaryAnswer \/ Review!CloseRecording \/ \E S \in SUBSET Segs : Review!SelectReviews(S)
  BY <1>5, AsidesKeep
<1>6. ASSUME NEW p \in posts,
             \/ Review!PostApply(p) \/ Review!OneReply(p) \/ Review!ManyReply(p) \/ Review!CardReply(p)
             \/ Review!GroupReply(p) \/ Review!PostFail(p)
      PROVE  ReviewInv'
  BY <1>6, PostApplyKeeps, OneReplyKeeps, CardReplyKeeps, ReloadsKeep, PostFailKeeps
<1>7. CASE Review!MarkThese \/ Review!MarkSelected
  BY <1>7, MarksKeep
<1>8. CASE \/ \E v \in Review!Severities, old \in BOOLEAN : Review!SetSeverity(v, old)
           \/ Review!SetShowReviewed \/ Review!pullLatestData
  BY <1>8, ChoiceKeeps
<1> QED BY <1>1, <1>2, <1>3, <1>4, <1>5, <1>6, <1>7, <1>8 DEF Review!Next

(***************************************************************************)
(* The screen: what it holds is listed, and what is listed is kept         *)
(***************************************************************************)
Deleting(s) == \E p \in posts : p.kind = "delete" /\ s \in p.ids

\* What is listed, or on its way into the list, is on the server or being deleted.
StaysFit(s) ==
    /\ list # Null /\ s \in DOMAIN list => Kept(s) \/ Deleting(s)
    /\ Answered /\ ~load.lost /\ s \in DOMAIN load.data => Kept(s) \/ Deleting(s)

\* What is on the screen is listed, and of the severity shown.
MemoFits ==
    items # Null => Segs \subseteq doubt \/ \A i \in items : i \in DOMAIN list /\ Review!SeverityOf(i) = severity

ScreenFits == MemoFits /\ \A s \in Segs \ doubt : StaysFit(s)

LEMMA ScreenInit == ASSUME Review!Init PROVE ScreenFits
<1>1. list = Null /\ items = Null /\ ~Answered
  BY RevNone DEF Review!Init, Answered
<1> QED BY <1>1 DEF ScreenFits, MemoFits, StaysFit

LEMMA SameScreen ==
    ASSUME ReviewInv, ScreenFits, list' = Null <=> list = Null, list # Null => DOMAIN list' = DOMAIN list,
           items' = items, severity' = severity, doubt \subseteq doubt',
           Answered' /\ ~load'.lost => Answered /\ ~load.lost /\ load'.data = load.data,
           \A s \in Segs \ doubt' : Kept(s) \/ Deleting(s) => Kept(s)' \/ Deleting(s)'
    PROVE  ScreenFits'
<1>1. MemoFits'
  BY DEF ScreenFits, MemoFits, ReviewInv, ListKept
<1>2. ASSUME NEW s \in Segs \ doubt' PROVE StaysFit(s)'
  <2>1. StaysFit(s)
    BY <1>2 DEF ScreenFits
  <2> QED BY <1>2, <2>1 DEF StaysFit
<1> QED BY <1>1, <1>2 DEF ScreenFits

\* The list is gone, and its load is asked for.
LEMMA BlankScreen ==
    ASSUME list' = Null, items' = Null, load' = Review!Asked PROVE ScreenFits'
  BY RevNone DEF ScreenFits, MemoFits, StaysFit, Answered

\* A load that is marked as lost brings nothing.
LEMMA LostBrings ==
    ASSUME ReviewTypes, load' = (IF load = Null THEN Null ELSE [load EXCEPT !.lost = TRUE])
    PROVE  ~(Answered' /\ ~load'.lost)
<1>1. CASE load = Null
  BY <1>1 DEF Answered
<1>2. CASE load # Null
  BY <1>2 DEF ReviewTypes, Review!Load
<1> QED BY <1>1, <1>2

LEMMA SameRows ==
    ASSUME ReviewInv, list # Null, NEW l \in [DOMAIN list -> Review!Row], Review!SetList(l)
    PROVE  list' # Null /\ DOMAIN list' = DOMAIN list /\ items' = items
<1>1. DOMAIN list \in SUBSET Segs
  BY RevLists DEF ReviewInv, ReviewTypes
<1>2. l \in Review!Lists
  BY <1>1, RevLists
<1>3. list' = l /\ items' = items
  BY <1>2, ListSet DEF ReviewInv, ListKept
<1> QED BY <1>2, <1>3, RevNone

LEMMA ServerScreen ==
    ASSUME ReviewInv, ScreenFits,
           \/ \E x \in Segs : Review!StartSegment(x) \/ Review!EndSegment(x)
           \/ \E p \in posts : Review!PostApply(p)
    PROVE  ScreenFits'
<1>1. /\ UNCHANGED <<list, load, items, severity>> /\ doubt \subseteq doubt' /\ (Answered' <=> Answered)
  BY DEF Review!StartSegment, Review!EndSegment, Review!PostApply, Review!cache, Review!page, Answered
<1>2. CASE \E x \in Segs : Review!StartSegment(x) \/ Review!EndSegment(x)
  <2>1. posts' = posts /\ \A s \in Segs : Kept(s) => Kept(s)'
    BY <1>2 DEF Review!StartSegment, Review!EndSegment, ReviewInv, ReviewTypes, Kept
  <2> QED BY <1>1, <2>1, SameScreen DEF Deleting
<1>3. ASSUME NEW p \in posts, Review!PostApply(p) PROVE ScreenFits'
  <2>1. /\ posts' = (posts \ {p}) \cup {[p EXCEPT !.done = TRUE]} /\ p \in Posts
        /\ \A s \in Segs : db'[s] = IF s \notin p.ids \cap Review!Stored THEN db[s]
                                    ELSE IF p.kind = "delete" THEN [status |-> "deleted", viewed |-> FALSE]
                                    ELSE [db[s] EXCEPT !.viewed = p.value]
    BY <1>3 DEF Review!PostApply, ReviewInv, ReviewTypes
  <2>2. [p EXCEPT !.done = TRUE].kind = p.kind /\ [p EXCEPT !.done = TRUE].ids = p.ids
    BY <2>1 DEF Posts
  <2>3. \A s \in Segs : Deleting(s) => Deleting(s)'
    BY <2>1, <2>2 DEF Deleting
  <2>4. ASSUME NEW s \in Segs, Kept(s) PROVE Kept(s)' \/ Deleting(s)'
    <3>1. CASE p.kind = "delete" /\ s \in p.ids
      BY <2>1, <2>2, <3>1 DEF Deleting
    <3>2. CASE ~(p.kind = "delete" /\ s \in p.ids)
      <4>1. db[s] \in [status : SegStatus, viewed : BOOLEAN]
        BY DEF ReviewInv, ReviewTypes
      <4>2. db'[s].status = db[s].status
        BY <2>1, <3>2, <4>1
      <4> QED BY <2>4, <4>2 DEF Kept
    <3> QED BY <3>1, <3>2
  <2> QED BY <1>1, <2>3, <2>4, SameScreen
<1> QED BY <1>2, <1>3

LEMMA LoadScreen ==
    ASSUME ReviewInv, ScreenFits, Review!LoadRead \/ Review!LoadAnswer PROVE ScreenFits'
<1>1. CASE Review!LoadRead
  <2>1. /\ load' = [load EXCEPT !.data = Review!ServerRows] /\ doubt \subseteq doubt'
        /\ UNCHANGED <<db, list, items, severity, posts>> /\ load \in Review!Load
    BY <1>1 DEF Review!LoadRead, Review!page, ReviewInv, ReviewTypes
  <2>2. \A s : (Kept(s)' <=> Kept(s)) /\ (Deleting(s)' <=> Deleting(s))
    BY <2>1 DEF Kept, Deleting
  <2>3. MemoFits'
    BY <2>1 DEF ScreenFits, MemoFits
  <2>4. load'.data = Review!ServerRows
    BY <2>1 DEF Review!Load
  <2>5. \A s \in DOMAIN load'.data : Kept(s)
    BY <2>4 DEF Review!ServerRows, Review!Stored, Kept
  <2> QED BY <2>1, <2>2, <2>3, <2>5 DEF ScreenFits, StaysFit
<1>2. CASE Review!LoadAnswer
  <2>1. /\ load # Null /\ load.data \in Review!Lists /\ Answered /\ load' = Null /\ UNCHANGED <<db, severity>>
        /\ (Review!ClearsUp \/ doubt' = doubt) /\ doubt' \in {doubt, {}}
    BY <1>2 DEF Review!LoadAnswer, Review!page, ReviewInv, ReviewTypes, Review!Load, Answered
  <2>2. ~Answered' /\ \A s : Kept(s)' <=> Kept(s)
    BY <2>1 DEF Answered, Kept
  <2>3. CASE load.lost
    <3>1. UNCHANGED <<list, items, posts, doubt>>
      BY <1>2, <2>1, <2>3 DEF Review!LoadAnswer, Review!ClearsUp
    <3> QED BY <2>1, <2>2, <3>1, SameScreen DEF Deleting
  <2>4. CASE ~load.lost
    <3>1. Review!SetList(load.data) /\ posts' = Review!CardsLose(Segs)
      BY <1>2, <2>4 DEF Review!LoadAnswer
    <3>2. /\ list' = load.data /\ items' # Null
          /\ list = Null => items' = Review!currentItems(load.data, severity, showReviewed)
      BY <2>1, <3>1, ListSet DEF ReviewInv, ListKept
    <3>3. CASE list # Null
      <4>1. Segs \subseteq doubt /\ doubt' = doubt
        BY <2>1, <3>3 DEF ReviewInv, ListKept, Review!ClearsUp
      <4> QED BY <4>1 DEF ScreenFits, MemoFits
    <3>4. CASE list = Null
      <4>1. \A i \in items' : i \in DOMAIN list' /\ Review!SeverityOf(i) = severity'
        BY <2>1, <3>2, <3>4, RevNone DEF Review!currentItems
      <4>2. ASSUME NEW s \in Segs \ doubt' PROVE StaysFit(s)'
        <5>1. CASE Review!ClearsUp
          BY <2>2, <3>2, <5>1 DEF StaysFit, Review!ClearsUp, Review!ServerRows, Review!Stored, Kept
        <5>2. CASE ~Review!ClearsUp
          <6>1. StaysFit(s)
            BY <2>1, <4>2, <5>2 DEF ScreenFits
          <6>2. Deleting(s) => Deleting(s)'
            <7>1. ASSUME NEW p \in posts, p.kind = "delete" PROVE p \in posts'
              BY <3>1, <7>1 DEF Review!CardsLose
            <7> QED BY <7>1 DEF Deleting
          <6> QED BY <2>1, <2>2, <2>4, <3>2, <6>1, <6>2 DEF StaysFit
        <5> QED BY <5>1, <5>2
      <4> QED BY <4>1, <4>2 DEF ScreenFits, MemoFits
    <3> QED BY <3>3, <3>4
  <2> QED BY <2>3, <2>4
<1> QED BY <1>1, <1>2

LEMMA UpdateScreen ==
    ASSUME ReviewInv, ScreenFits, Review!EndUpdate PROVE ScreenFits'
<1>1. UNCHANGED <<db, severity, doubt>>
  BY DEF Review!EndUpdate, Review!page
<1>2. CASE list = Null
  BY <1>1, <1>2, SameScreen DEF Review!EndUpdate, Review!cache, Kept, Deleting, Answered
<1>3. CASE list # Null
  <2> DEFINE x == Head(ends)
             row2 == [ended |-> TRUE, viewed |-> FALSE]
             l == IF x \in DOMAIN list THEN [list EXCEPT ![x] = row2] ELSE list
  <2>1. /\ Review!SetList(l) /\ posts' = Review!CardsLose({x})
        /\ load' = (IF load = Null THEN Null ELSE [load EXCEPT !.lost = TRUE])
    BY <1>3 DEF Review!EndUpdate, Review!Mutate
  <2>2. l \in [DOMAIN list -> Review!Row]
    <3>1. list \in [DOMAIN list -> Review!Row] /\ row2 \in Review!Row
      BY <1>3, RevLists DEF ReviewInv, ReviewTypes, Review!Row
    <3> HIDE DEF row2, x
    <3> QED BY <3>1
  <2> HIDE DEF l
  <2>3. list' # Null /\ DOMAIN list' = DOMAIN list /\ items' = items
    BY <1>3, <2>1, <2>2, SameRows
  <2>4. \A s : Deleting(s) => Deleting(s)'
    <3>1. ASSUME NEW p \in posts, p.kind = "delete" PROVE p \in posts'
      BY <2>1, <3>1 DEF Review!CardsLose
    <3> QED BY <3>1 DEF Deleting
  <2>5. ~(Answered' /\ ~load'.lost) /\ \A s : Kept(s)' <=> Kept(s)
    BY <1>1, <2>1, LostBrings DEF ReviewInv, Kept
  <2> QED BY <1>1, <1>3, <2>3, <2>4, <2>5, SameScreen
<1> QED BY <1>2, <1>3

LEMMA ReplyScreen ==
    ASSUME ReviewInv, ScreenFits, NEW p \in posts,
           \/ Review!OneReply(p) \/ Review!ManyReply(p) \/ Review!CardReply(p)
           \/ Review!GroupReply(p) \/ Review!PostFail(p)
    PROVE  ScreenFits'
<1>1. /\ posts' = posts \ {p} /\ p \in Posts /\ UNCHANGED <<db, severity>> /\ doubt \subseteq doubt'
  BY DEF Review!OneReply, Review!ManyReply, Review!CardReply, Review!GroupReply, Review!PostFail,
         Review!page, ReviewInv, ReviewTypes
<1>2. \A s : Kept(s)' <=> Kept(s)
  BY <1>1 DEF Kept
<1>3. p.kind # "delete" => \A s : Deleting(s) => Deleting(s)'
  BY <1>1 DEF Deleting
<1>4. CASE Review!OneReply(p)
  <2>1. PICK x \in Segs : p.ids = {x}
    BY <1>1, <1>4 DEF Review!OneReply, Posts
  <2> DEFINE l == IF list # Null /\ x \in DOMAIN list THEN [list EXCEPT ![x].viewed = TRUE] ELSE list
  <2>2. Review!SetList(l) /\ load' = (IF load = Null THEN Null ELSE [load EXCEPT !.lost = TRUE])
    BY <1>4, <2>1 DEF Review!OneReply, Review!MarkedOne, Review!Mutate
  <2>3. ~(Answered' /\ ~load'.lost) /\ p.kind # "delete"
    BY <1>4, <2>2, LostBrings DEF ReviewInv, Review!OneReply
  <2>4. CASE list = Null
    <3>1. list' = Null /\ items' = items
      BY <2>2, <2>4, NullSet
    <3> QED BY <1>1, <1>2, <1>3, <2>3, <2>4, <3>1, SameScreen
  <2>5. CASE list # Null
    <3>1. list \in [DOMAIN list -> Review!Row]
      BY <2>5, RevLists DEF ReviewInv, ReviewTypes
    <3>2. x \in DOMAIN list => [list[x] EXCEPT !.viewed = TRUE] \in Review!Row
      BY <3>1 DEF Review!Row
    <3>3. l \in [DOMAIN list -> Review!Row]
      BY <3>1, <3>2
    <3> HIDE DEF l
    <3>4. list' # Null /\ DOMAIN list' = DOMAIN list /\ items' = items
      BY <2>2, <2>5, <3>3, SameRows
    <3> QED BY <1>1, <1>2, <1>3, <2>3, <2>5, <3>4, SameScreen
  <2> QED BY <2>4, <2>5
<1>5. CASE Review!CardReply(p)
  <2>1. UNCHANGED <<load, items>> /\ p.kind = "card"
    BY <1>5 DEF Review!CardReply
  <2>2. CASE p.stale \/ list = Null
    <3>1. list' = list
      BY <1>5, <2>2 DEF Review!CardReply
    <3> QED BY <1>1, <1>2, <1>3, <2>1, <3>1, SameScreen DEF Answered
  <2>3. CASE ~(p.stale \/ list = Null)
    <3>1. Review!InPlace(p.ids) /\ p.ids \in SUBSET Segs
      BY <1>1, <1>5, <2>3 DEF Review!CardReply, Posts
    <3>2. list' # Null /\ DOMAIN list' = DOMAIN list
      BY <2>3, <3>1, InPlaceFits, RevNone DEF ReviewInv
    <3> QED BY <1>1, <1>2, <1>3, <2>1, <2>3, <3>2, SameScreen DEF Answered
  <2> QED BY <2>2, <2>3
<1>6. CASE Review!PostFail(p)
  <2>1. UNCHANGED <<list, load, items>> /\ p.ids \subseteq doubt'
    BY <1>1, <1>6 DEF Review!PostFail, Review!cache, Posts
  <2>2. \A s \in Segs \ doubt' : Deleting(s) => Deleting(s)'
    BY <1>1, <2>1 DEF Deleting
  <2> QED BY <1>1, <1>2, <2>1, <2>2, SameScreen DEF Answered
<1>7. CASE Review!ManyReply(p) \/ Review!GroupReply(p)
  <2>1. doubt' = doubt /\ p.kind \in {"many", "toggle", "delete"}
    BY <1>7 DEF Review!ManyReply, Review!GroupReply
  <2>2. CASE dated
    <3>1. Segs \subseteq doubt'
      BY <2>1, <2>2 DEF ReviewInv, ListKept, Filtered
    <3> QED BY <3>1 DEF ScreenFits, MemoFits
  <2>3. CASE ~dated
    <3>1. list' = Null /\ items' = Null /\ load' = Review!Asked
      BY <1>7, <2>3 DEF Review!ManyReply, Review!GroupReply, Review!reloadData, Review!Ask
    <3> QED BY <3>1, BlankScreen
  <2> QED BY <2>2, <2>3
<1> QED BY <1>4, <1>5, <1>6, <1>7

LEMMA PostScreen ==
    ASSUME ReviewInv, ScreenFits, NEW kind \in Review!Kinds, NEW ids \in SUBSET Segs, NEW value \in BOOLEAN,
           Review!PostOn(kind, ids, value) \/ UNCHANGED <<posts, doubt>>, list # Null, list' # Null,
           DOMAIN list' = DOMAIN list,
           load' = (IF load = Null THEN Null ELSE [load EXCEPT !.lost = TRUE]) \/ load' = load,
           UNCHANGED <<db, items, severity>>
    PROVE  ScreenFits'
<1>1. posts \subseteq posts' /\ doubt \subseteq doubt'
  BY DEF Review!PostOn
<1>2. Answered' /\ ~load'.lost => Answered /\ ~load.lost /\ load'.data = load.data
  BY LostBrings DEF ReviewInv, Answered
<1>3. \A s : (Kept(s)' <=> Kept(s)) /\ (Deleting(s) => Deleting(s)')
  BY <1>1 DEF Kept, Deleting
<1> QED BY <1>1, <1>2, <1>3, SameScreen

LEMMA UserScreen ==
    ASSUME ReviewInv, ScreenFits,
           \/ \E x \in Segs : \/ Review!handleSetReviewed(x) \/ Review!OpenSegment(x)
                              \/ Review!handleMarkResolved(x)
           \/ \E kind \in {"toggle", "delete"} : Review!GroupAction(kind)
           \/ Review!MarkThese \/ Review!MarkSelected
    PROVE  ScreenFits'
<1>1. ASSUME NEW x \in Segs, Review!handleSetReviewed(x) \/ Review!OpenSegment(x) PROVE ScreenFits'
  <2>1. /\ items # Null /\ x \in DOMAIN list /\ Review!ShownInPlace(x) /\ Review!PostOn("one", {x}, TRUE)
        /\ UNCHANGED <<db, load, items, severity>>
    BY <1>1 DEF Review!handleSetReviewed, Review!OpenSegment, Review!page
  <2>2. list # Null
    BY <2>1 DEF ReviewInv, ListKept
  <2>3. list' # Null /\ DOMAIN list' = DOMAIN list
    BY <2>1, <2>2, ShownInPlaceFits, RevNone DEF ReviewInv
  <2>4. "one" \in Review!Kinds /\ {x} \in SUBSET Segs
    BY DEF Review!Kinds
  <2> QED BY <2>1, <2>2, <2>3, <2>4, PostScreen
<1>2. ASSUME NEW x \in Segs, Review!handleMarkResolved(x) PROVE ScreenFits'
  <2>1. list # Null /\ Review!PostOn("card", {x}, TRUE) /\ UNCHANGED <<db, list, load, items, severity>>
    BY <1>2 DEF Review!handleMarkResolved, Review!page, Review!cache
  <2>2. "card" \in Review!Kinds /\ {x} \in SUBSET Segs
    BY DEF Review!Kinds
  <2> QED BY <2>1, <2>2, PostScreen
<1>3. ASSUME NEW kind \in {"toggle", "delete"}, Review!GroupAction(kind) PROVE ScreenFits'
  <2> DEFINE v == \E s \in selected : ~Review!Displayed(s)
  <2>1. list # Null /\ Review!PostOn(kind, selected, v) /\ UNCHANGED <<db, list, load, items, severity>>
    BY <1>3 DEF Review!GroupAction, Review!page, Review!cache
  <2>2. kind \in Review!Kinds /\ selected \in SUBSET Segs
    BY DEF Review!Kinds, ReviewInv, ReviewTypes
  <2>3. v \in BOOLEAN
    OBVIOUS
  <2> HIDE DEF v
  <2> QED BY <2>1, <2>2, <2>3, PostScreen
<1>4. ASSUME NEW ids \in SUBSET Segs, Review!MarkItems(ids) PROVE ScreenFits'
  <2> DEFINE S == {s \in DOMAIN list : list[s].ended /\ Review!SeverityOf(s) = severity}
  <2>1. /\ list # Null /\ Review!InPlace(S)
        /\ load' = (IF load = Null THEN Null ELSE [load EXCEPT !.lost = TRUE])
        /\ UNCHANGED <<posts, doubt>> \/ Review!PostOn("many", ids, TRUE)
        /\ UNCHANGED <<db, items, severity>>
    BY <1>4 DEF Review!MarkItems
  <2>2. S \in SUBSET Segs
    BY <2>1, RevLists DEF ReviewInv, ReviewTypes
  <2> HIDE DEF S
  <2>3. list' # Null /\ DOMAIN list' = DOMAIN list
    BY <2>1, <2>2, InPlaceFits, RevNone DEF ReviewInv
  <2>4. "many" \in Review!Kinds
    BY DEF Review!Kinds
  <2> QED BY <2>1, <2>3, <2>4, PostScreen
<1>5. CASE Review!MarkThese
  <2> DEFINE ids == {s \in items \cap DOMAIN list : list[s].ended}
  <2>1. items # Null /\ Review!MarkItems(ids)
    BY <1>5 DEF Review!MarkThese
  <2>2. ids \in SUBSET Segs
    BY <2>1 DEF ReviewInv, ReviewTypes, ItemSets
  <2> HIDE DEF ids
  <2> QED BY <1>4, <2>1, <2>2
<1>6. CASE Review!MarkSelected
  BY <1>4, <1>6 DEF Review!MarkSelected, ReviewInv, ReviewTypes
<1> QED BY <1>1, <1>2, <1>3, <1>5, <1>6

LEMMA ChoiceScreen ==
    ASSUME ReviewInv, ScreenFits,
           \/ \E v \in Review!Severities, old \in BOOLEAN : Review!SetSeverity(v, old)
           \/ Review!SetShowReviewed \/ Review!pullLatestData
           \/ Review!SummaryAnswer \/ Review!CloseRecording
           \/ \E S \in SUBSET Segs : Review!SelectReviews(S)
    PROVE  ScreenFits'
<1>1. UNCHANGED <<db, posts, doubt>>
  BY DEF Review!SetSeverity, Review!SetShowReviewed, Review!pullLatestData, Review!SummaryAnswer,
         Review!CloseRecording, Review!SelectReviews
<1>2. \A s : (Kept(s)' <=> Kept(s)) /\ (Deleting(s)' <=> Deleting(s))
  BY <1>1 DEF Kept, Deleting
<1>3. ASSUME NEW v \in Review!Severities, NEW all \in BOOLEAN, items' = Review!currentItems(list, v, all),
             severity' = v, UNCHANGED <<list, load>>
      PROVE  ScreenFits'
  <2>1. MemoFits'
    <3>1. CASE list = Null
      BY <1>3, <3>1 DEF MemoFits, Review!currentItems
    <3>2. CASE list # Null
      BY <1>3, <3>2 DEF MemoFits, Review!currentItems
    <3> QED BY <3>1, <3>2
  <2>2. \A s \in Segs \ doubt' : StaysFit(s)'
    BY <1>1, <1>2, <1>3 DEF ScreenFits, StaysFit, Answered
  <2> QED BY <2>1, <2>2 DEF ScreenFits
<1>4. ASSUME Review!reloadData, severity' = severity PROVE ScreenFits'
  <2>1. CASE dated
    BY <1>1, <1>2, <1>4, <2>1, SameScreen DEF Review!reloadData, Answered
  <2>2. CASE ~dated
    BY <1>4, <2>2, BlankScreen DEF Review!reloadData, Review!Ask
  <2> QED BY <2>1, <2>2
<1>5. severity \in Review!Severities /\ showReviewed \in BOOLEAN
  BY DEF ReviewInv, ReviewTypes
<1>6. ASSUME NEW v \in Review!Severities, NEW old \in BOOLEAN, Review!SetSeverity(v, old) PROVE ScreenFits'
  <2>1. CASE old /\ ~dated
    BY <1>6, <2>1, BlankScreen DEF Review!SetSeverity, Review!reloadData, Review!Ask
  <2>2. CASE ~(old /\ ~dated)
    BY <1>3, <1>5, <1>6, <2>2 DEF Review!SetSeverity
  <2> QED BY <2>1, <2>2
<1>7. CASE Review!SetShowReviewed
  BY <1>3, <1>5, <1>7 DEF Review!SetShowReviewed
<1>8. CASE Review!pullLatestData
  BY <1>4, <1>8 DEF Review!pullLatestData, Review!page
<1>9. CASE Review!SummaryAnswer \/ Review!CloseRecording \/ \E S \in SUBSET Segs : Review!SelectReviews(S)
  <2>1. UNCHANGED <<list, load, items, severity>>
    BY <1>9 DEF Review!SummaryAnswer, Review!CloseRecording, Review!SelectReviews, Review!cache, Review!page
  <2> QED BY <1>1, <1>2, <2>1, SameScreen DEF Answered
<1> QED BY <1>6, <1>7, <1>8, <1>9

LEMMA ScreenNext == ASSUME ReviewInv, ScreenFits, Review!Next PROVE ScreenFits'
<1>1. CASE \/ \E x \in Segs : Review!StartSegment(x) \/ Review!EndSegment(x)
           \/ \E p \in posts : Review!PostApply(p)
  BY <1>1, ServerScreen
<1>2. CASE Review!LoadRead \/ Review!LoadAnswer
  BY <1>2, LoadScreen
<1>3. CASE Review!EndUpdate
  BY <1>3, UpdateScreen
<1>4. ASSUME NEW p \in posts,
             \/ Review!OneReply(p) \/ Review!ManyReply(p) \/ Review!CardReply(p)
             \/ Review!GroupReply(p) \/ Review!PostFail(p)
      PROVE  ScreenFits'
  BY <1>4, ReplyScreen
<1>5. CASE \/ \E x \in Segs : \/ Review!handleSetReviewed(x) \/ Review!OpenSegment(x)
                              \/ Review!handleMarkResolved(x)
           \/ \E kind \in {"toggle", "delete"} : Review!GroupAction(kind)
           \/ Review!MarkThese \/ Review!MarkSelected
  BY <1>5, UserScreen
<1>6. CASE \/ \E v \in Review!Severities, old \in BOOLEAN : Review!SetSeverity(v, old)
           \/ Review!SetShowReviewed \/ Review!pullLatestData
           \/ Review!SummaryAnswer \/ Review!CloseRecording
           \/ \E S \in SUBSET Segs : Review!SelectReviews(S)
  BY <1>6, ChoiceScreen
<1> QED BY <1>1, <1>2, <1>3, <1>4, <1>5, <1>6 DEF Review!Next

\* Where nothing lingers, the screen is part of what is wanted: a segment it lacks makes the
\* count on the server the larger one.
LEMMA CountAnnounces ==
    ASSUME ReviewInv, ScreenFits PROVE Review!NoticeComes
<1> DEFINE want == {s \in Segs : Review!Wanted(s)}
           mine == {s \in Review!Stored : Review!SeverityOf(s) = severity}
           read == {s \in mine : db[s].viewed}
<1> SUFFICES ASSUME Review!Quiet, summary[severity] = Review!Count(severity), NEW x \in Segs \ items,
                    Review!Wanted(x), \A i \in items : ~Review!Lingers(i)
             PROVE  Review!MoreThanShown
  BY DEF Review!NoticeComes
<1>1. list # Null /\ items # Null /\ items \in SUBSET Segs /\ posts = {}
  BY DEF Review!Quiet, ReviewInv, ReviewTypes, ListKept, ItemSets
<1>2. ASSUME NEW i \in items PROVE i \in want
  <2>1. i \in Segs \ doubt
    BY <1>1 DEF Review!Lingers
  <2>2. i \in DOMAIN list /\ Review!SeverityOf(i) = severity
    BY <1>1, <2>1 DEF ScreenFits, MemoFits
  <2>3. Kept(i)
    BY <1>1, <2>1, <2>2 DEF ScreenFits, StaysFit, Deleting
  <2>4. ~showReviewed => db[i].viewed = list[i].viewed /\ ~list[i].viewed
    <3>1. RowAgrees(list, i)
      BY <1>1, <2>1 DEF ReviewInv, Sound, ListFits, ManyUnderWay
    <3> QED BY <1>1, <2>2, <2>3, <3>1 DEF RowAgrees, Busy, Review!Lingers
  <2> QED BY <2>1, <2>2, <2>3, <2>4, KeptIs DEF Review!Wanted
<1>3. IsFiniteSet(want) /\ IsFiniteSet(items) /\ IsFiniteSet(mine) /\ IsFiniteSet(read)
  <2>1. want \subseteq Segs /\ items \subseteq Segs /\ mine \subseteq Segs /\ read \subseteq Segs
    BY <1>1 DEF Review!Stored
  <2> HIDE DEF want, mine, read
  <2> QED BY <2>1, SegsAssumption, FS_Subset
<1>4. Cardinality(items) \in Nat /\ Cardinality(want) \in Nat /\ Cardinality(mine) \in Nat /\ Cardinality(read) \in Nat
  BY <1>3, FS_CardinalityType
<1>5. Cardinality(items) < Cardinality(want)
  <2>1. items \subseteq want /\ items # want
    BY <1>2
  <2> HIDE DEF want
  <2>2. Cardinality(items) <= Cardinality(want) /\ (Cardinality(items) = Cardinality(want) => items = want)
    BY <1>3, <2>1, FS_Subset
  <2> QED BY <1>4, <2>1, <2>2
<1>6. Review!ToReview = Cardinality(want)
  <2>1. summary[severity].total = Cardinality(mine) /\ summary[severity].reviewed = Cardinality(read)
    BY RevCounts DEF Review!Count
  <2>2. CASE showReviewed
    <3>1. want = mine
      BY <2>2 DEF Review!Wanted, Review!Stored
    <3> QED BY <2>1, <2>2, <3>1 DEF Review!ToReview
  <2>3. CASE ~showReviewed
    <3>1. want = mine \ read /\ mine \cap read = read
      BY <2>3 DEF Review!Wanted, Review!Stored
    <3> HIDE DEF want, mine, read
    <3>2. Cardinality(want) = Cardinality(mine) - Cardinality(read)
      BY <1>3, <3>1, FS_Difference
    <3> QED BY <2>1, <2>3, <3>2 DEF Review!ToReview
  <2> QED BY <2>2, <2>3
<1> QED BY <1>1, <1>4, <1>5, <1>6, RevCounts DEF Review!MoreThanShown

LEMMA ReviewInvOwn ==
    ASSUME ReviewInv, ScreenFits
    PROVE  Review!TypeOK /\ Review!ListComes /\ Review!ViewedIsTrue /\ Review!NothingHidden /\ Review!NoticeComes
<1>1. Review!TypeOK
  BY DEF ReviewInv, ReviewTypes, Review!TypeOK, Posts, ItemSets, SegStatus
<1>2. Review!ListComes
  BY DEF ReviewInv, ListKept, Review!ListComes
<1>3. ASSUME Review!Quiet, NEW s \in DOMAIN list \ doubt
      PROVE  s \in Segs /\ ~Busy(s) /\ Kept(s) /\ RowAgrees(list, s) /\ OnScreen(s)
  <2>1. list # Null /\ posts = {} /\ DOMAIN list \subseteq Segs
    BY <1>3, RevLists DEF Review!Quiet, ReviewInv, ReviewTypes
  <2>2. Kept(s)
    BY <1>3, <2>1 DEF ScreenFits, StaysFit, Deleting
  <2> QED BY <1>3, <2>1, <2>2 DEF ReviewInv, Sound, ListFits, ManyUnderWay, Busy
<1>4. Review!ViewedIsTrue
  BY <1>3, KeptIs DEF Review!ViewedIsTrue, RowAgrees
<1>5. Review!NothingHidden
  BY <1>3 DEF Review!NothingHidden, OnScreen
<1> QED BY <1>1, <1>2, <1>4, <1>5, CountAnnounces

(***************************************************************************)
(* The exports page                                                        *)
(***************************************************************************)
Row == Exports!Row
JobSets == (SUBSET Jobs) \cup {Null}
Status == {"none", "queued", "running", "ended", "cancelled"}
Order ==
    {r \in [kind : {"delete", "reassign", "case", "caseAndExports"}, ids : SUBSET Jobs,
            to : {"none", Exports!Case}, from : {"card", "group"}, state : {"sent", "done", "refused"}] :
        r.kind \in {"case", "caseAndExports"} => r.ids = {}}

PageTypes ==
    /\ job \in [Jobs -> Status] /\ row \in [Jobs -> Row \cup {Null}] /\ caseExists \in BOOLEAN
    /\ sending \in [Exports!Threads -> JobSets] /\ exportJobState \in JobSets
    /\ pollExportJobs \in JobSets /\ previousActiveJobIds \subseteq Jobs
    /\ rawExports \in Exports!Listing \cup {Null} /\ exportsLoading \in Exports!Load \cup {Null}
    /\ selectedExports \subseteq Jobs /\ exportsRequests \subseteq Order

\* The job is on its way: it runs, or the page takes it for one that does.
Making(j) == (job[j] = "running" /\ sending[j] = Null) \/ j \in previousActiveJobIds

\* A request whose answer has the list asked for again.
Reloads(r) == r.kind = "delete" \/ r.state = "done"
Answering == \E r \in exportsRequests : Reloads(r)

SameAt(l, j) == IF row[j] = Null THEN j \notin DOMAIN l ELSE j \in DOMAIN l /\ l[j] = row[j]

CardsCatchUp ==
    /\ rawExports # Null =>
          \A j \in Jobs : SameAt(rawExports, j) \/ exportsLoading # Null \/ Making(j) \/ Answering
    /\ exportsLoading # Null /\ exportsLoading.data # Null /\ ~exportsLoading.lost =>
          \A j \in Jobs : SameAt(exportsLoading.data, j) \/ Making(j) \/ Answering
    /\ exportsLoading # Null /\ exportsLoading.lost => \E r \in exportsRequests : r.kind = "delete"

PageInv ==
    /\ PageTypes /\ previousActiveJobIds = Exports!activeExportJobs
    /\ ~unheard /\ ~overtaken => CardsCatchUp

LEMMA PageNone == Null \notin Row /\ Null \notin Exports!Listing /\ Null \notin Exports!Load
  BY NullAssumption DEF Row

LEMMA Listings ==
    /\ \A S \in SUBSET Jobs : \A f \in [S -> Row] : f \in Exports!Listing
    /\ \A f \in Exports!Listing : DOMAIN f \in SUBSET Jobs /\ f \in [DOMAIN f -> Row]
  BY DEF Exports!Listing, Row

LEMMA PageInvInit == ASSUME Exports!PageInit PROVE PageInv
<1>1. Exports!Ask \in Exports!Load
  BY DEF Exports!Ask, Exports!Load
<1>2. PageTypes
  BY <1>1 DEF Exports!PageInit, PageTypes, JobSets, Status
<1>3. previousActiveJobIds = Exports!activeExportJobs
  BY DEF Exports!PageInit, Exports!activeExportJobs, Exports!ActiveOf
<1>4. CardsCatchUp
  BY DEF Exports!PageInit, CardsCatchUp, Exports!Ask
<1> QED BY <1>2, <1>3, <1>4 DEF PageInv

LEMMA PageVarsTyped ==
    ASSUME PageInv
    PROVE  /\ PageTypes
           /\ Exports!visibleExports \subseteq Jobs /\ Exports!Shown \subseteq Jobs
           /\ Exports!Finished \subseteq Jobs /\ Exports!activeExportJobs \subseteq Jobs
<1>1. PageTypes
  BY DEF PageInv
<1>2. rawExports # Null => DOMAIN rawExports \in SUBSET Jobs
  BY <1>1, Listings DEF PageTypes
<1>3. Exports!visibleExports \subseteq Jobs
  BY <1>2 DEF Exports!visibleExports
<1>4. Exports!activeExportJobs \subseteq Jobs
  BY <1>1 DEF PageTypes, PageInv
<1> QED
  BY <1>1, <1>3, <1>4 DEF Exports!Shown, Exports!Finished, Exports!CaseView, Exports!AllExportsView

(***************************************************************************)
(* Steps of one kind                                                       *)
(***************************************************************************)
\* What is on its way is still so; where the database changed, a job or an answer is.
LEMMA CardsKept ==
    ASSUME CardsCatchUp, rawExports' = rawExports, exportsLoading' = exportsLoading,
           \A j \in Jobs : Making(j) => Making(j)',
           \A j \in Jobs : row'[j] = row[j] \/ Making(j)' \/ Answering',
           Answering => Answering',
           (\E r \in exportsRequests : r.kind = "delete") => \E r \in exportsRequests' : r.kind = "delete"
    PROVE  CardsCatchUp'
<1>1. ASSUME NEW l, NEW j \in Jobs, SameAt(l, j)
      PROVE  (IF row'[j] = Null THEN j \notin DOMAIN l ELSE j \in DOMAIN l /\ l[j] = row'[j]) \/ Making(j)' \/ Answering'
  BY <1>1 DEF SameAt
<1> QED
  BY <1>1 DEF CardsCatchUp, SameAt

LEMMA CardsAsked == ASSUME exportsLoading' = Exports!Ask PROVE CardsCatchUp'
<1>1. exportsLoading' # Null /\ exportsLoading'.data = Null /\ ~exportsLoading'.lost
      /\ exportsLoading' \in Exports!Load
  <2>1. Exports!Ask \in Exports!Load
    BY DEF Exports!Ask, Exports!Load
  <2> QED BY <2>1, PageNone DEF Exports!Ask
<1> QED BY <1>1 DEF CardsCatchUp

LEMMA AskIsLoad == Exports!Ask \in Exports!Load
  BY DEF Exports!Ask, Exports!Load

(***************************************************************************)
(* The jobs                                                                *)
(***************************************************************************)
LEMMA ActiveJobs == \A f : Exports!Active(f) \in SUBSET Jobs
  BY DEF Exports!Active

LEMMA EnqueueKeeps == ASSUME PageInv, NEW j \in Jobs, Exports!enqueue(j) PROVE PageInv'
<1>1. PageTypes
  BY DEF PageInv
<1>2. /\ job[j] = "none" /\ job' = [job EXCEPT ![j] = "queued"]
      /\ sending' = [sending EXCEPT !["api"] = Exports!Active(job')]
      /\ UNCHANGED <<row, caseExists, exportJobState, pollExportJobs, previousActiveJobIds, rawExports,
                     exportsLoading, selectedExports, exportsRequests, unheard, overtaken>>
  BY DEF Exports!enqueue, Exports!Broadcast, Exports!active
<1>3. Exports!Active(job') \in JobSets
  BY ActiveJobs DEF JobSets
<1>4. PageTypes'
  BY <1>1, <1>2, <1>3 DEF PageTypes, Status
<1>5. \A k \in Jobs : Making(k) => Making(k)'
  BY <1>1, <1>2, ApiAssumption DEF Making, PageTypes, Exports!Threads
<1>6. ~unheard' /\ ~overtaken' => CardsCatchUp'
  BY <1>2, <1>5, CardsKept DEF PageInv, Answering
<1> QED BY <1>2, <1>4, <1>6 DEF PageInv, Exports!activeExportJobs

LEMMA RunKeeps == ASSUME PageInv, NEW j \in Jobs, Exports!run_job(j) PROVE PageInv'
<1>1. PageTypes
  BY DEF PageInv
<1>2. /\ job[j] = "queued" /\ job' = [job EXCEPT ![j] = "running"]
      /\ sending' = [sending EXCEPT ![j] = Exports!Active(job')]
      /\ UNCHANGED <<row, caseExists, exportJobState, pollExportJobs, previousActiveJobIds, rawExports,
                     exportsLoading, selectedExports, exportsRequests, unheard, overtaken>>
  BY DEF Exports!run_job, Exports!Broadcast, Exports!active
<1>3. Exports!Active(job') \in JobSets
  BY ActiveJobs DEF JobSets
<1>4. PageTypes'
  BY <1>1, <1>2, <1>3 DEF PageTypes, Status
<1>5. \A k \in Jobs : Making(k) => Making(k)'
  BY <1>1, <1>2 DEF Making, PageTypes, Exports!Threads
<1>6. ~unheard' /\ ~overtaken' => CardsCatchUp'
  BY <1>2, <1>5, CardsKept DEF PageInv, Answering
<1> QED BY <1>2, <1>4, <1>6 DEF PageInv, Exports!activeExportJobs

LEMMA InsertKeeps == ASSUME PageInv, NEW j \in Jobs, Exports!InsertExport(j) PROVE PageInv'
<1>1. PageTypes
  BY DEF PageInv
<1>2. /\ job[j] = "running" /\ sending[j] = Null
      /\ row' = [row EXCEPT ![j] = [done |-> FALSE, case |-> Exports!caseOf(j)]]
      /\ UNCHANGED <<job, sending, caseExists, exportJobState, pollExportJobs, previousActiveJobIds, rawExports,
                     exportsLoading, selectedExports, exportsRequests, unheard, overtaken>>
  BY DEF Exports!InsertExport, Exports!active
<1>3. [done |-> FALSE, case |-> Exports!caseOf(j)] \in Row
  BY DEF Row, Exports!Row, Exports!caseOf
<1>4. PageTypes'
  BY <1>1, <1>2, <1>3 DEF PageTypes
<1>5. (\A k \in Jobs : Making(k) => Making(k)') /\ Making(j)'
  BY <1>2 DEF Making
<1>6. \A k \in Jobs : row'[k] = row[k] \/ Making(k)'
  BY <1>1, <1>2, <1>5 DEF PageTypes
<1>7. ~unheard' /\ ~overtaken' => CardsCatchUp'
  BY <1>2, <1>5, <1>6, CardsKept DEF PageInv, Answering
<1> QED BY <1>2, <1>4, <1>7 DEF PageInv, Exports!activeExportJobs

LEMMA FinishKeeps == ASSUME PageInv, NEW j \in Jobs, NEW ok \in BOOLEAN, Exports!FinishJob(j, ok) PROVE PageInv'
<1> DEFINE x == IF row[j] = Null \/ ~ok THEN Null ELSE [row[j] EXCEPT !.done = TRUE]
<1>1. PageTypes
  BY DEF PageInv
<1>2. /\ row' = [row EXCEPT ![j] = x] /\ job' = [job EXCEPT ![j] = "ended"]
      /\ sending' = [sending EXCEPT ![j] = Exports!Active(job')]
      /\ overtaken' = (overtaken \/ j \notin Exports!activeExportJobs)
      /\ UNCHANGED <<caseExists, exportJobState, pollExportJobs, previousActiveJobIds, rawExports,
                     exportsLoading, selectedExports, exportsRequests, unheard>>
  BY DEF Exports!FinishJob, Exports!Broadcast, Exports!active
<1>3. x \in Row \cup {Null}
  <2>1. row[j] # Null => row[j] \in Row
    BY <1>1 DEF PageTypes
  <2> QED BY <2>1 DEF Row, Exports!Row
<1> HIDE DEF x
<1>4. Exports!Active(job') \in JobSets
  BY ActiveJobs DEF JobSets
<1>5. PageTypes'
  BY <1>1, <1>2, <1>3, <1>4 DEF PageTypes, Status
<1>6. ~unheard' /\ ~overtaken' => CardsCatchUp'
  <2> SUFFICES ASSUME ~unheard', ~overtaken' PROVE CardsCatchUp'
    OBVIOUS
  <2>1. j \in previousActiveJobIds /\ CardsCatchUp
    BY <1>2 DEF PageInv
  <2>2. \A k \in Jobs : Making(k) => Making(k)'
    BY <1>1, <1>2, <2>1 DEF Making, PageTypes, Exports!Threads
  <2>3. \A k \in Jobs : row'[k] = row[k] \/ Making(k)'
    BY <1>1, <1>2, <2>1 DEF Making, PageTypes
  <2> QED BY <1>2, <2>1, <2>2, <2>3, CardsKept DEF Answering
<1> QED BY <1>2, <1>5, <1>6 DEF PageInv, Exports!activeExportJobs

\* A job the page took for active and that is not any more has the list asked for.
LEMMA ActiveSet ==
    ASSUME PageInv, NEW now \in SUBSET Jobs, Exports!SetActive(now), UNCHANGED <<job, row, rawExports, exportsRequests>>,
           \A j \in Jobs : sending[j] = Null => sending'[j] = Null
    PROVE  /\ previousActiveJobIds' = now /\ exportsLoading' \in Exports!Load \cup {Null}
           /\ CardsCatchUp => CardsCatchUp'
<1>1. CASE previousActiveJobIds \ now # {}
  <2>1. exportsLoading' = Exports!Ask /\ previousActiveJobIds' = now
    BY <1>1 DEF Exports!SetActive
  <2> QED BY <2>1, CardsAsked, AskIsLoad
<1>2. CASE previousActiveJobIds \subseteq now
  <2>1. exportsLoading' = exportsLoading /\ previousActiveJobIds' = now
    BY <1>2 DEF Exports!SetActive
  <2>2. \A j \in Jobs : Making(j) => Making(j)'
    BY <1>2, <2>1 DEF Making
  <2> QED BY <2>1, <2>2, CardsKept DEF Answering, PageInv, PageTypes
<1> QED BY <1>1, <1>2

LEMMA PublishKeeps == ASSUME PageInv, NEW t \in Exports!Threads, Exports!publish(t) PROVE PageInv'
<1>1. PageTypes /\ sending[t] \in SUBSET Jobs
  BY DEF PageInv, PageTypes, JobSets, Exports!publish
<1>2. /\ sending' = [sending EXCEPT ![t] = Null] /\ exportJobState' = sending[t] /\ exportJobState' # Null
      /\ Exports!SetActive(sending[t])
      /\ pollExportJobs' = (IF previousActiveJobIds # {} /\ sending[t] = {} THEN {} ELSE pollExportJobs)
      /\ UNCHANGED <<job, row, caseExists, rawExports, selectedExports, exportsRequests, unheard, overtaken>>
  BY DEF Exports!publish
<1>3. \A j \in Jobs : sending[j] = Null => sending'[j] = Null
  BY <1>1, <1>2 DEF PageTypes, Exports!Threads
<1>4. /\ previousActiveJobIds' = sending[t] /\ exportsLoading' \in Exports!Load \cup {Null}
      /\ CardsCatchUp => CardsCatchUp'
  BY <1>1, <1>2, <1>3, ActiveSet
<1>5. PageTypes'
  BY <1>1, <1>2, <1>4 DEF PageTypes, JobSets
<1> QED BY <1>2, <1>4, <1>5 DEF PageInv, Exports!activeExportJobs, Exports!ActiveOf

LEMMA PollKeeps == ASSUME PageInv, Exports!PollAnswer PROVE PageInv'
<1> DEFINE now == Exports!ActiveOf(exportJobState, Exports!Active(job))
<1>1. PageTypes
  BY DEF PageInv
<1>2. /\ pollExportJobs' = Exports!Active(job) /\ Exports!SetActive(now)
      /\ UNCHANGED <<job, row, caseExists, sending, exportJobState, rawExports, selectedExports, exportsRequests,
                     unheard, overtaken>>
  BY DEF Exports!PollAnswer, Exports!server
<1>3. now \in SUBSET Jobs
  BY <1>1, ActiveJobs DEF Exports!ActiveOf, PageTypes, JobSets
<1>4. /\ previousActiveJobIds' = now /\ exportsLoading' \in Exports!Load \cup {Null}
      /\ CardsCatchUp => CardsCatchUp'
  BY <1>2, <1>3, ActiveSet
<1>5. PageTypes'
  BY <1>1, <1>2, <1>3, <1>4, ActiveJobs DEF PageTypes, JobSets
<1> QED BY <1>2, <1>4, <1>5 DEF PageInv, Exports!activeExportJobs, Exports!ActiveOf

(***************************************************************************)
(* The list and the selection                                              *)
(***************************************************************************)
LEMMA RowsListed ==
    ASSUME PageTypes
    PROVE  /\ [j \in Exports!Rows |-> row[j]] \in Exports!Listing
           /\ \A j \in Jobs : SameAt([k \in Exports!Rows |-> row[k]], j)
<1> DEFINE f == [j \in Exports!Rows |-> row[j]]
<1>1. Exports!Rows \in SUBSET Jobs /\ \A j \in Exports!Rows : row[j] \in Row
  BY DEF Exports!Rows, PageTypes
<1>2. f \in [Exports!Rows -> Row]
  BY <1>1
<1>3. f \in Exports!Listing
  BY <1>1, <1>2, Listings
<1>4. \A j \in Jobs : SameAt(f, j)
  BY DEF SameAt, Exports!Rows
<1> QED BY <1>3, <1>4

LEMMA RowsReadKeeps == ASSUME PageInv, Exports!ListRead PROVE PageInv'
<1> DEFINE f == [j \in Exports!Rows |-> row[j]]
<1>1. PageTypes /\ exportsLoading \in Exports!Load /\ exportsLoading.data = Null
  BY DEF PageInv, PageTypes, Exports!ListRead
<1>2. f \in Exports!Listing /\ \A j \in Jobs : SameAt(f, j)
  BY <1>1, RowsListed
<1>3. exportsLoading' = [exportsLoading EXCEPT !.data = f]
      /\ UNCHANGED <<job, row, caseExists, sending, exportJobState, pollExportJobs, previousActiveJobIds,
                     rawExports, selectedExports, exportsRequests, unheard, overtaken>>
  BY DEF Exports!ListRead, Exports!server, Exports!active
<1> HIDE DEF f
<1>4. exportsLoading' \in Exports!Load /\ exportsLoading'.data = f /\ exportsLoading'.lost = exportsLoading.lost
  BY <1>1, <1>2, <1>3 DEF Exports!Load
<1>5. PageTypes'
  BY <1>1, <1>3, <1>4 DEF PageTypes
<1>6. exportsLoading' # Null /\ exportsLoading # Null
  BY <1>1, <1>4, PageNone
<1>7. ~unheard' /\ ~overtaken' => CardsCatchUp'
  BY <1>2, <1>3, <1>4, <1>6 DEF PageInv, CardsCatchUp, SameAt
<1> QED BY <1>3, <1>5, <1>7 DEF PageInv, Exports!activeExportJobs

LEMMA RowsAnswerKeeps == ASSUME PageInv, Exports!ListAnswer PROVE PageInv'
<1>1. PageTypes /\ exportsLoading \in Exports!Load /\ exportsLoading.data \in Exports!Listing
  BY DEF PageInv, PageTypes, Exports!ListAnswer, Exports!Load
<1>2. exportsLoading' = Null /\ rawExports' = (IF exportsLoading.lost THEN rawExports ELSE exportsLoading.data)
      /\ UNCHANGED <<job, row, caseExists, sending, exportJobState, pollExportJobs, previousActiveJobIds,
                     selectedExports, exportsRequests, unheard, overtaken>>
  BY DEF Exports!ListAnswer, Exports!server, Exports!active
<1>3. PageTypes'
  BY <1>1, <1>2 DEF PageTypes
<1>4. exportsLoading # Null /\ exportsLoading.data # Null
  BY <1>1, PageNone
<1>5. CardsCatchUp => CardsCatchUp'
  <2> SUFFICES ASSUME CardsCatchUp PROVE CardsCatchUp'
    OBVIOUS
  <2>1. Answering' <=> Answering
    BY <1>2 DEF Answering
  <2>2. ASSUME NEW j \in Jobs PROVE Making(j)' <=> Making(j)
    BY <1>2 DEF Making
  <2>3. ASSUME NEW j \in Jobs, rawExports' # Null PROVE SameAt(rawExports, j)' \/ Making(j)' \/ Answering'
    <3>1. CASE exportsLoading.lost
      <4>1. Answering
        BY <3>1, <1>4 DEF CardsCatchUp, Answering, Reloads
      <4> QED BY <4>1, <2>1
    <3>2. CASE ~exportsLoading.lost
      <4>1. SameAt(exportsLoading.data, j) \/ Making(j) \/ Answering
        BY <3>2, <1>4 DEF CardsCatchUp
      <4>2. rawExports' = exportsLoading.data
        BY <3>2, <1>2
      <4> QED BY <4>1, <4>2, <2>1, <2>2, <1>2 DEF SameAt
    <3> QED BY <3>1, <3>2
  <2> QED BY <2>3, <1>2 DEF CardsCatchUp
<1> QED BY <1>2, <1>3, <1>5 DEF PageInv, Exports!activeExportJobs

LEMMA RefreshKeeps == ASSUME PageInv, Exports!refreshInterval PROVE PageInv'
<1>1. exportsLoading' = Exports!Ask
      /\ UNCHANGED <<job, row, caseExists, sending, exportJobState, pollExportJobs, previousActiveJobIds,
                     rawExports, selectedExports, exportsRequests, unheard, overtaken>>
  BY DEF Exports!refreshInterval, Exports!server, Exports!active
<1>2. PageTypes'
  BY <1>1, AskIsLoad DEF PageInv, PageTypes
<1> QED BY <1>1, <1>2, CardsAsked DEF PageInv, Exports!activeExportJobs

LEMMA SelectionKeeps ==
    ASSUME PageInv, selectedExports' \in SUBSET Jobs,
           UNCHANGED <<job, row, caseExists, sending, exportJobState, pollExportJobs, previousActiveJobIds,
                       rawExports, exportsLoading, exportsRequests, unheard, overtaken>>
    PROVE  PageInv'
<1>1. PageTypes'
  BY DEF PageInv, PageTypes
<1>2. CardsCatchUp => CardsCatchUp'
  BY CardsKept DEF Making, Answering
<1> QED BY <1>1, <1>2 DEF PageInv, Exports!activeExportJobs

LEMMA SelectKeepsPage ==
    ASSUME PageInv,
           \/ \E j \in Jobs : Exports!onSelectExport(j)
           \/ Exports!onSelectAllExports \/ Exports!SetCase
    PROVE  PageInv'
<1>1. Exports!Finished \subseteq Jobs /\ selectedExports \subseteq Jobs
  BY PageVarsTyped DEF PageTypes
<1>2. selectedExports' \in SUBSET Jobs
  <2>1. ASSUME NEW j \in Jobs, Exports!onSelectExport(j) PROVE selectedExports' \in SUBSET Jobs
    BY <1>1, <2>1 DEF Exports!onSelectExport
  <2>2. CASE Exports!onSelectAllExports \/ Exports!SetCase
    BY <1>1, <2>2 DEF Exports!onSelectAllExports, Exports!SetCase
  <2> QED BY <2>1, <2>2
<1>3. UNCHANGED <<job, row, caseExists, sending, exportJobState, pollExportJobs, previousActiveJobIds,
                  rawExports, exportsLoading, exportsRequests, unheard, overtaken>>
  BY DEF Exports!onSelectExport, Exports!onSelectAllExports, Exports!SetCase, Exports!server, Exports!active
<1> QED BY <1>2, <1>3, SelectionKeeps

(***************************************************************************)
(* The requests                                                            *)
(***************************************************************************)
LEMMA PostKeeps ==
    ASSUME PageInv, NEW kind \in {"reassign", "case", "caseAndExports"}, NEW ids \in SUBSET Jobs,
           NEW to \in {"none", Exports!Case}, NEW from \in {"card", "group"}, Exports!Post(kind, ids, to, from),
           kind # "reassign" => ids = {}
    PROVE  PageInv'
<1>1. PageTypes
  BY DEF PageInv
<1>2. Exports!Request(kind, ids, to, from) \in Order
  BY DEF Exports!Request, Order
<1>3. exportsRequests' = exportsRequests \cup {Exports!Request(kind, ids, to, from)}
      /\ UNCHANGED <<job, row, caseExists, sending, exportJobState, pollExportJobs, previousActiveJobIds,
                     rawExports, exportsLoading, selectedExports, unheard, overtaken>>
  BY DEF Exports!Post, Exports!server, Exports!active
<1>4. PageTypes'
  BY <1>1, <1>2, <1>3 DEF PageTypes
<1>5. CardsCatchUp => CardsCatchUp'
  BY <1>3, CardsKept DEF Making, Answering
<1> QED BY <1>3, <1>4, <1>5 DEF PageInv, Exports!activeExportJobs

LEMMA DropKeeps ==
    ASSUME PageInv, NEW ids \in SUBSET Jobs, NEW from \in {"card", "group"}, Exports!deleteExports(ids, from)
    PROVE  PageInv'
<1> DEFINE r == Exports!Request("delete", ids, "none", from)
           f == [e \in (DOMAIN rawExports) \ ids |-> rawExports[e]]
<1>1. PageTypes
  BY DEF PageInv
<1>2. r \in Order /\ r.kind = "delete"
  BY DEF Exports!Request, Order
<1>3. /\ exportsRequests' = exportsRequests \cup {r}
      /\ rawExports' = (IF rawExports = Null THEN Null ELSE f)
      /\ exportsLoading' = (IF exportsLoading = Null THEN Null ELSE [exportsLoading EXCEPT !.lost = TRUE])
      /\ UNCHANGED <<job, row, caseExists, sending, exportJobState, pollExportJobs, previousActiveJobIds,
                     selectedExports, unheard, overtaken>>
  BY DEF Exports!deleteExports, Exports!server, Exports!active
<1>4. rawExports # Null => f \in Exports!Listing
  <2> SUFFICES ASSUME rawExports # Null PROVE f \in Exports!Listing
    OBVIOUS
  <2>1. DOMAIN rawExports \in SUBSET Jobs /\ rawExports \in [DOMAIN rawExports -> Row]
    BY <1>1, Listings DEF PageTypes
  <2>2. f \in [(DOMAIN rawExports) \ ids -> Row]
    BY <2>1
  <2> QED BY <2>1, <2>2, Listings
<1>5. exportsLoading' \in Exports!Load \cup {Null}
  BY <1>1, <1>3 DEF PageTypes, Exports!Load
<1> HIDE DEF r, f
<1>6. PageTypes'
  BY <1>1, <1>2, <1>3, <1>4, <1>5 DEF PageTypes
<1>7. r \in exportsRequests' /\ Answering'
  BY <1>2, <1>3 DEF Answering, Reloads
<1>8. CardsCatchUp'
  BY <1>2, <1>7 DEF CardsCatchUp
<1> QED BY <1>3, <1>6, <1>8 DEF PageInv, Exports!activeExportJobs

LEMMA UserKeeps ==
    ASSUME PageInv,
           \/ \E j \in Jobs : Exports!onHandleDelete(j) \/ Exports!handleRemoveExportFromCase(j) \/ Exports!AssignOne(j)
           \/ Exports!onDelete \/ Exports!handleRemoveFromCase \/ Exports!handleAssignToCase
           \/ \E ids \in SUBSET Jobs : Exports!handleAdd(ids)
           \/ \E kind \in {"case", "caseAndExports"} : Exports!handleDeleteCase(kind)
    PROVE  PageInv'
<1>1. selectedExports \in SUBSET Jobs
  BY DEF PageInv, PageTypes
<1>2. ASSUME NEW j \in Jobs,
             Exports!onHandleDelete(j) \/ Exports!handleRemoveExportFromCase(j) \/ Exports!AssignOne(j)
      PROVE  PageInv'
  BY <1>2, DropKeeps, PostKeeps DEF Exports!onHandleDelete, Exports!handleRemoveExportFromCase, Exports!AssignOne
<1>3. CASE Exports!onDelete \/ Exports!handleRemoveFromCase \/ Exports!handleAssignToCase
  BY <1>3, <1>1, DropKeeps, PostKeeps DEF Exports!onDelete, Exports!handleRemoveFromCase, Exports!handleAssignToCase
<1>4. ASSUME NEW ids \in SUBSET Jobs, Exports!handleAdd(ids) PROVE PageInv'
  BY <1>4, PostKeeps DEF Exports!handleAdd
<1>5. ASSUME NEW kind \in {"case", "caseAndExports"}, Exports!handleDeleteCase(kind) PROVE PageInv'
  BY <1>5, PostKeeps DEF Exports!handleDeleteCase
<1> QED BY <1>2, <1>3, <1>4, <1>5

\* The server refuses an order as a whole, or the answer will have the list asked for.
LEMMA ServerKeeps == ASSUME PageInv, NEW r \in exportsRequests, Exports!Apply(r) PROVE PageInv'
<1> DEFINE q == [r EXCEPT !.state = IF Exports!Allowed(r) THEN "done" ELSE "refused"]
<1>1. PageTypes /\ r \in Order /\ r.ids \subseteq Jobs
  BY DEF PageInv, PageTypes, Order
<1>2. /\ r.state = "sent" /\ exportsRequests' = (exportsRequests \ {r}) \cup {q}
      /\ UNCHANGED <<sending, exportJobState, pollExportJobs, previousActiveJobIds, rawExports, exportsLoading,
                     selectedExports, unheard, overtaken>>
  BY DEF Exports!Apply, Exports!active
<1>3. q \in Order /\ q.kind = r.kind /\ q.state = (IF Exports!Allowed(r) THEN "done" ELSE "refused")
  BY <1>1 DEF Order
<1>4. (\E d \in exportsRequests : d.kind = "delete") => \E d \in exportsRequests' : d.kind = "delete"
  BY <1>2, <1>3
<1>5. Answering => Answering'
  BY <1>2, <1>3 DEF Answering, Reloads
<1>6. CASE ~Exports!Allowed(r)
  <2>1. UNCHANGED <<row, job, caseExists>>
    BY <1>6 DEF Exports!Apply
  <2>2. PageTypes'
    BY <1>1, <1>2, <1>3, <2>1 DEF PageTypes
  <2>3. CardsCatchUp => CardsCatchUp'
    BY <1>2, <1>4, <1>5, <2>1, CardsKept DEF Making
  <2> QED BY <1>2, <2>2, <2>3 DEF PageInv, Exports!activeExportJobs
<1>7. CASE Exports!Allowed(r)
  <2>1. row' \in [Jobs -> Row \cup {Null}]
    <3> DEFINE x(j) == IF j \in r.ids THEN IF r.kind = "delete" THEN Null ELSE [row[j] EXCEPT !.case = r.to]
                       ELSE IF r.kind = "caseAndExports" /\ j \in Exports!OfCase THEN Null
                       ELSE IF r.kind = "case" /\ j \in Exports!OfCase THEN [row[j] EXCEPT !.case = "none"]
                       ELSE row[j]
    <3>1. row' = [j \in Jobs |-> x(j)]
      BY <1>7 DEF Exports!Apply
    <3>2. ASSUME NEW j \in Jobs, row[j] # Null, NEW to \in {"none", Exports!Case}
          PROVE  [row[j] EXCEPT !.case = to] \in Row
      <4>1. row[j] \in Row
        BY <1>1, <3>2 DEF PageTypes
      <4> QED BY <4>1 DEF Row, Exports!Row
    <3>3. \A j \in Exports!OfCase : row[j] # Null
      BY DEF Exports!OfCase, Exports!Rows
    <3>4. r.kind = "reassign" => \A j \in r.ids : row[j] # Null
      BY <1>7 DEF Exports!Allowed, Exports!Rows
    <3>5. r.kind \in {"case", "caseAndExports"} => r.ids = {}
      BY <1>1 DEF Order
    <3>6. r.to \in {"none", Exports!Case} /\ r.kind \in {"delete", "reassign", "case", "caseAndExports"}
      BY <1>1 DEF Order
    <3>7. ASSUME NEW j \in Jobs PROVE x(j) \in Row \cup {Null}
      <4>1. row[j] \in Row \cup {Null}
        BY <1>1 DEF PageTypes
      <4>2. CASE j \in r.ids /\ r.kind # "delete"
        <5>1. row[j] # Null /\ x(j) = [row[j] EXCEPT !.case = r.to]
          BY <4>2, <3>4, <3>5, <3>6
        <5> QED BY <5>1, <3>2, <3>6
      <4>3. CASE j \notin r.ids /\ r.kind = "case" /\ j \in Exports!OfCase
        <5>1. row[j] # Null /\ x(j) = [row[j] EXCEPT !.case = "none"]
          BY <4>3, <3>3
        <5> QED BY <5>1, <3>2
      <4> QED BY <4>1, <4>2, <4>3
    <3> HIDE DEF x
    <3> QED BY <3>1, <3>7
  <2>2. job' \in [Jobs -> Status] /\ caseExists' \in BOOLEAN /\ \A j \in Jobs : Making(j) => Making(j)'
    <3>1. job' = [j \in Jobs |-> IF r.kind = "caseAndExports" /\ job[j] = "queued" /\ Exports!caseOf(j) = Exports!Case
                                 THEN "cancelled" ELSE job[j]]
          /\ caseExists' = (caseExists /\ r.kind \in {"delete", "reassign"})
      BY <1>7 DEF Exports!Apply
    <3> QED BY <1>1, <1>2, <3>1 DEF PageTypes, Status, Making
  <2>3. PageTypes'
    BY <1>1, <1>2, <1>3, <2>1, <2>2 DEF PageTypes
  <2>4. Answering'
    BY <1>2, <1>3, <1>7 DEF Answering, Reloads
  <2>5. CardsCatchUp => CardsCatchUp'
    BY <1>2, <1>4, <2>2, <2>4, CardsKept
  <2> QED BY <1>2, <2>3, <2>5 DEF PageInv, Exports!activeExportJobs
<1> QED BY <1>6, <1>7

LEMMA EndKeeps ==
    ASSUME PageInv, NEW r \in exportsRequests, Exports!Reply(r) \/ Exports!Fail(r) PROVE PageInv'
<1>1. PageTypes /\ r \in Order
  BY DEF PageInv, PageTypes
<1>2. /\ exportsRequests' = exportsRequests \ {r} /\ selectedExports' \in {selectedExports, {}}
      /\ exportsLoading' \in {exportsLoading, Exports!Ask}
      /\ UNCHANGED <<job, row, caseExists, sending, exportJobState, pollExportJobs, previousActiveJobIds,
                     rawExports, overtaken>>
      /\ unheard' \in {unheard, unheard \/ r.state = "done"}
  BY DEF Exports!Reply, Exports!Fail, Exports!server, Exports!active
<1>3. PageTypes'
  BY <1>1, <1>2, AskIsLoad DEF PageTypes
<1>4. ASSUME ~unheard', ~overtaken' PROVE CardsCatchUp'
  <2>1. CASE exportsLoading' = Exports!Ask
    BY <2>1, CardsAsked
  <2>2. CASE exportsLoading' = exportsLoading /\ ~Reloads(r)
    <3>1. Answering => Answering'
      BY <1>2, <2>2 DEF Answering
    <3>2. (\E d \in exportsRequests : d.kind = "delete") => \E d \in exportsRequests' : d.kind = "delete"
      BY <1>2, <2>2 DEF Reloads
    <3>3. CardsCatchUp
      BY <1>2, <1>4 DEF PageInv
    <3> QED BY <1>2, <2>2, <3>1, <3>2, <3>3, CardsKept DEF Making
  <2>3. Reloads(r) => exportsLoading' = Exports!Ask
    BY <1>4 DEF Exports!Reply, Exports!Fail, Reloads
  <2> QED BY <1>2, <2>1, <2>2, <2>3
<1> QED BY <1>2, <1>3, <1>4 DEF PageInv, Exports!activeExportJobs

LEMMA PageInvNext == ASSUME PageInv, Exports!PageNext PROVE PageInv'
<1>1. ASSUME NEW j \in Jobs,
             \/ Exports!enqueue(j) \/ Exports!run_job(j) \/ Exports!InsertExport(j)
             \/ \E ok \in BOOLEAN : Exports!FinishJob(j, ok)
      PROVE  PageInv'
  BY <1>1, EnqueueKeeps, RunKeeps, InsertKeeps, FinishKeeps
<1>2. CASE \/ \E t \in Exports!Threads : Exports!publish(t)
           \/ Exports!PollAnswer \/ Exports!ListRead \/ Exports!ListAnswer \/ Exports!refreshInterval
  BY <1>2, PublishKeeps, PollKeeps, RowsReadKeeps, RowsAnswerKeeps, RefreshKeeps
<1>3. CASE \/ \E j \in Jobs : Exports!onSelectExport(j)
           \/ Exports!onSelectAllExports \/ Exports!SetCase
  BY <1>3, SelectKeepsPage
<1>4. CASE \/ \E j \in Jobs : Exports!onHandleDelete(j) \/ Exports!handleRemoveExportFromCase(j) \/ Exports!AssignOne(j)
           \/ Exports!onDelete \/ Exports!handleRemoveFromCase \/ Exports!handleAssignToCase
           \/ \E ids \in SUBSET Jobs : Exports!handleAdd(ids)
           \/ \E kind \in {"case", "caseAndExports"} : Exports!handleDeleteCase(kind)
  BY <1>4, UserKeeps
<1>5. CASE \E r \in exportsRequests : Exports!Apply(r) \/ Exports!Reply(r) \/ Exports!Fail(r)
  BY <1>5, ServerKeeps, EndKeeps
<1> QED BY <1>1, <1>2, <1>3, <1>4, <1>5 DEF Exports!PageNext

LEMMA PageInvOwn == ASSUME PageInv PROVE Exports!PageTypeOK /\ Exports!CardsAreExports
<1>1. PageTypes
  BY DEF PageInv
<1>2. Exports!PageTypeOK
  BY <1>1 DEF PageTypes, Exports!PageTypeOK, Status, Row, JobSets
<1>3. Exports!CardsAreExports
  <2> SUFFICES ASSUME exportsRequests = {}, exportsLoading = Null, rawExports # Null, ~unheard, ~overtaken,
                      Exports!Active(job) = {}, Exports!activeExportJobs = {}
               PROVE  rawExports = [j \in Exports!Rows |-> row[j]]
    BY DEF Exports!CardsAreExports
  <2>1. \A j \in Jobs : ~Making(j) /\ ~Answering
    BY <1>1 DEF Making, Answering, PageInv, Exports!Active
  <2>2. \A j \in Jobs : SameAt(rawExports, j)
    BY <2>1 DEF PageInv, CardsCatchUp
  <2>3. DOMAIN rawExports \in SUBSET Jobs /\ rawExports = [j \in DOMAIN rawExports |-> rawExports[j]]
    BY <1>1, Listings DEF PageTypes
  <2>4. DOMAIN rawExports = Exports!Rows
    BY <2>2, <2>3 DEF SameAt, Exports!Rows
  <2>5. \A j \in DOMAIN rawExports : rawExports[j] = row[j]
    BY <2>2, <2>3 DEF SameAt
  <2> QED BY <2>3, <2>4, <2>5
<1> QED BY <1>2, <1>3
(***************************************************************************)
(* The export dialog                                                       *)
(***************************************************************************)
Ui == [mode : {"none", "select", "timeline", "timeline_multi"}, tab : {"export", "multi"},
       drawer : {"none", "select", "export"}, range : Exports!Ranges \cup {Null},
       pre : Exports!Ranges \cup {Null}, form : SUBSET Exports!Fields]
Content == [option : {"1", "timeline"}, debounced : Exports!Ranges \cup {Null},
            selected : SUBSET Cams, manual : BOOLEAN, batch : BOOLEAN]

DialogTypes ==
    /\ device \in {"desktop", "mobile"} /\ fetched \subseteq Exports!Ranges /\ ui \in Ui
    /\ content \in Content /\ isStartingExport \in BOOLEAN /\ batches \in BOOLEAN
    /\ switched \in BOOLEAN /\ (content.batch => batches)

\* Cameras nobody chose by hand are those of the range settled on, whatever range is shown.
SelectedIsSeen ==
    Exports!Mounted(ui) /\ ui.tab = "multi" /\ ~content.manual /\ content.debounced \in fetched
        => content.selected = Exports!Seen(content.debounced)

\* The tab of the overlay on the timeline.
TabOfMode ==
    device = "desktop" =>
        /\ ui.mode = "timeline" => ui.tab = "export"
        /\ ui.mode = "timeline_multi" => ui.tab = "multi"

\* An export of one camera is started from the first tab, which then stays, or is closed clean.
StartedClean ==
    device = "desktop" /\ ~switched => (isStartingExport => ui.tab = "export") /\ Exports!ClosedIsClean

DialogInv == DialogTypes /\ SelectedIsSeen /\ TabOfMode /\ StartedClean

LEMMA DialogInvInit == ASSUME Exports!DialogInit PROVE DialogInv
<1>1. Exports!Fresh \in Content /\ ~Exports!Fresh.batch
  BY DEF Exports!Fresh, Content
<1>2. DialogTypes
  BY <1>1 DEF Exports!DialogInit, DialogTypes, Ui
<1> QED
  BY <1>2 DEF Exports!DialogInit, DialogInv, SelectedIsSeen, TabOfMode, StartedClean, Exports!ClosedIsClean

LEMMA SeenCams == \A r : Exports!Seen(r) \in SUBSET Cams
  BY CamsAssumption DEF Exports!Seen

\* The automatic choice: of the range settled on, once its events are there.
LEMMA AutoSelects ==
    ASSUME NEW c \in Content, NEW cached \in SUBSET Exports!Ranges
    PROVE  LET a == Exports!AutoSelect(c, cached)
           IN  /\ a \in Content /\ a.batch = c.batch /\ a.debounced = c.debounced /\ a.manual = c.manual
               /\ ~a.manual /\ a.debounced \in cached => a.selected = Exports!Seen(a.debounced)
<1> DEFINE a == Exports!AutoSelect(c, cached)
<1>1. Null \notin cached
  BY NullAssumption
<1>2. CASE c.manual \/ (c.debounced # Null /\ c.debounced \notin cached)
  <2>1. a = c
    BY <1>2 DEF Exports!AutoSelect
  <2> QED BY <2>1, <1>1, <1>2
<1>3. CASE ~(c.manual \/ (c.debounced # Null /\ c.debounced \notin cached))
  <2> DEFINE s == IF c.debounced = Null THEN {} ELSE Exports!Seen(c.debounced)
  <2>1. a = [c EXCEPT !.selected = s]
    BY <1>3 DEF Exports!AutoSelect
  <2>2. s \in SUBSET Cams
    BY SeenCams
  <2> HIDE DEF a, s
  <2>3. a \in Content /\ a.batch = c.batch /\ a.debounced = c.debounced /\ a.manual = c.manual /\ a.selected = s
    BY <2>1, <2>2 DEF Content
  <2> QED BY <2>3, <1>1 DEF s, a
<1> QED BY <1>2, <1>3

\* What the effects make of a change: they choose the cameras, and may set tab and range.
LEMMA Settled ==
    ASSUME DialogTypes, NEW u \in Ui, NEW c \in Content, c.batch => batches', Exports!Settle(u, c),
           UNCHANGED <<device, fetched>>
    PROVE  /\ ui' \in Ui /\ content' \in Content /\ (content'.batch => batches') /\ SelectedIsSeen'
           /\ ui'.mode = u.mode /\ ui'.form = u.form /\ ui'.tab = Exports!TabOf(u)
           /\ ui'.range = Exports!DefaultRange(u)
<1> DEFINE ranged == [u EXCEPT !.range = Exports!DefaultRange(u)]
           tabbed == [ranged EXCEPT !.tab = Exports!TabOf(u)]
<1>1. Exports!DefaultRange(u) \in Exports!Ranges \cup {Null} /\ Exports!TabOf(u) \in {"export", "multi"}
  BY DEF Exports!DefaultRange, Exports!TabOf, Ui, Exports!Ranges, DialogTypes
<1>2. tabbed \in Ui /\ tabbed.mode = u.mode /\ tabbed.form = u.form /\ tabbed.tab = Exports!TabOf(u)
      /\ tabbed.range = Exports!DefaultRange(u)
  BY <1>1 DEF Ui
<1>3. ui' = tabbed /\ content' = Exports!ContentAfter(tabbed, c)
  BY DEF Exports!Settle
<1> HIDE DEF tabbed, ranged
<1>4. Exports!Fresh \in Content /\ ~Exports!Fresh.batch
  BY DEF Exports!Fresh, Content
<1>5. CASE ~Exports!Mounted(tabbed)
  <2>1. content' = Exports!Fresh /\ ~Exports!Mounted(ui)'
    BY <1>5, <1>3 DEF Exports!ContentAfter, Exports!Mounted
  <2> QED BY <2>1, <1>2, <1>3, <1>4 DEF SelectedIsSeen
<1>6. CASE Exports!Mounted(tabbed)
  <2> DEFINE mine == IF Exports!Mounted(ui) THEN c ELSE Exports!Fresh
             known == [mine EXCEPT !.debounced = IF Exports!Key(tabbed) = Null THEN Null ELSE @,
                                   !.manual = @ /\ Exports!Key(tabbed) = Exports!Key(ui)]
  <2>1. mine \in Content /\ (mine.batch => batches')
    BY <1>4
  <2> HIDE DEF mine
  <2>2. known \in Content /\ known.batch = mine.batch
    BY <2>1 DEF Content
  <2>3. content' = IF tabbed.tab = "multi" THEN Exports!AutoSelect(known, fetched) ELSE known
    BY <1>3, <1>6 DEF Exports!ContentAfter, mine
  <2> HIDE DEF known
  <2>4. content' \in Content /\ content'.batch = mine.batch
    BY <2>2, <2>3, AutoSelects DEF DialogTypes
  <2>5. SelectedIsSeen'
    <3>1. CASE tabbed.tab = "multi"
      <4>1. content' = Exports!AutoSelect(known, fetched) /\ fetched' = fetched
        BY <3>1, <2>3
      <4>2. ~content'.manual /\ content'.debounced \in fetched => content'.selected = Exports!Seen(content'.debounced)
        BY <4>1, <2>2, AutoSelects DEF DialogTypes
      <4> QED BY <4>1, <4>2 DEF SelectedIsSeen
    <3>2. CASE tabbed.tab # "multi"
      BY <3>2, <1>3 DEF SelectedIsSeen
    <3> QED BY <3>1, <3>2
  <2> QED BY <2>1, <2>4, <2>5, <1>2, <1>3
<1> QED BY <1>5, <1>6

\* A step and its effects: what is left to show is about the tab, and a dialog that closes.
LEMMA SettleStep ==
    ASSUME DialogInv, NEW u \in Ui, NEW c \in Content, c.batch => batches', Exports!Settle(u, c),
           UNCHANGED <<device, fetched>>,
           isStartingExport' \in BOOLEAN, batches' \in BOOLEAN, switched' \in BOOLEAN,
           device = "desktop" =>
               /\ u.mode = "timeline" => Exports!TabOf(u) = "export"
               /\ u.mode = "timeline_multi" => Exports!TabOf(u) = "multi"
               /\ ~switched' /\ isStartingExport' => Exports!TabOf(u) = "export"
               /\ ~switched' /\ u.mode = "none" =>
                     u.range = Null /\ u.tab = "export" /\ u.form \subseteq {"single"} /\ Exports!TabOf(u) = "export"
    PROVE  DialogInv'
<1>1. DialogTypes
  BY DEF DialogInv
<1>2. /\ ui' \in Ui /\ content' \in Content /\ (content'.batch => batches') /\ SelectedIsSeen'
      /\ ui'.mode = u.mode /\ ui'.form = u.form /\ ui'.tab = Exports!TabOf(u) /\ ui'.range = Exports!DefaultRange(u)
  BY <1>1, Settled
<1>3. DialogTypes'
  BY <1>1, <1>2 DEF DialogTypes
<1>4. u.tab = "export" => ui'.range = u.range
  BY <1>2 DEF Exports!DefaultRange
<1>5. TabOfMode' /\ StartedClean'
  BY <1>2, <1>4 DEF TabOfMode, StartedClean, Exports!ClosedIsClean
<1> QED BY <1>2, <1>3, <1>5 DEF DialogInv

\* Steps of the content alone.
LEMMA ContentStep ==
    ASSUME DialogInv, content' \in Content, content'.batch => batches', batches' \in BOOLEAN,
           fetched' \subseteq Exports!Ranges, SelectedIsSeen',
           isStartingExport' \in BOOLEAN, isStartingExport' => isStartingExport \/ ui.tab = "export" \/ device = "mobile",
           UNCHANGED <<device, ui, switched>>
    PROVE  DialogInv'
  BY DEF DialogInv, DialogTypes, TabOfMode, StartedClean, Exports!ClosedIsClean

LEMMA OpenKeeps == ASSUME DialogInv, Exports!Open \/ Exports!OpenDrawer PROVE DialogInv'
<1> DEFINE a == [ui EXCEPT !.tab = "export", !.range = "hour", !.mode = "select"]
           b == [ui EXCEPT !.drawer = "select"]
           d == [ui EXCEPT !.drawer = "export", !.tab = "export", !.mode = "select"]
<1>1. ui \in Ui /\ content \in Content /\ DialogTypes
  BY DEF DialogInv, DialogTypes
<1>2. a \in Ui /\ b \in Ui /\ d \in Ui /\ a.mode = "select" /\ a.tab = "export"
  BY <1>1 DEF Ui, Exports!Ranges
<1>3. UNCHANGED <<device, fetched, isStartingExport, batches, switched>>
  BY DEF Exports!Open, Exports!OpenDrawer, Exports!Other
<1>4. CASE Exports!Open
  <2>1. Exports!Settle(a, content) /\ Exports!TabOf(a) = "export"
    BY <1>4, <1>2 DEF Exports!Open, Exports!TabOf
  <2> HIDE DEF a
  <2> QED BY <2>1, <1>1, <1>2, <1>3, SettleStep DEF DialogTypes
<1>5. CASE Exports!OpenDrawer
  <2>1. device = "mobile" /\ (Exports!Settle(b, content) \/ Exports!Settle(d, content))
    BY <1>5 DEF Exports!OpenDrawer
  <2> HIDE DEF b, d
  <2> QED BY <2>1, <1>1, <1>2, <1>3, SettleStep DEF DialogTypes
<1> QED BY <1>4, <1>5

\* The dialog or its overlay is closed, and forgets what was chosen in it.
LEMMA Closing ==
    ASSUME DialogInv, NEW f \in SUBSET ui.form, NEW d \in {"none", "select", "export"},
           NEW t \in {"export", "multi"}, NEW c \in Content, c.batch => batches',
           Exports!Settle([ui EXCEPT !.form = f, !.mode = "none", !.range = Null, !.tab = t, !.drawer = d], c),
           device = "desktop" => f \subseteq {"single"} /\ (~switched => t = "export"),
           batches' \in BOOLEAN, isStartingExport' \in BOOLEAN, isStartingExport' => isStartingExport,
           UNCHANGED <<device, fetched, switched>>
    PROVE  DialogInv'
<1> DEFINE u == [ui EXCEPT !.form = f, !.mode = "none", !.range = Null, !.tab = t, !.drawer = d]
<1>1. ui \in Ui /\ DialogTypes
  BY DEF DialogInv, DialogTypes
<1>2. u \in Ui /\ u.mode = "none" /\ u.tab = t /\ u.form = f /\ u.range = Null
  BY <1>1 DEF Ui
<1> HIDE DEF u
<1>3. device = "desktop" => (t = "export" => Exports!TabOf(u) = "export")
  BY <1>2 DEF Exports!TabOf
<1>4. Exports!Settle(u, c)
  BY DEF u
<1> QED BY <1>1, <1>2, <1>3, <1>4, SettleStep DEF DialogTypes

LEMMA CancelKeeps == ASSUME DialogInv, Exports!handleCancel \/ Exports!CancelTimeline PROVE DialogInv'
<1>1. ui \in Ui /\ content \in Content /\ DialogTypes
  BY DEF DialogInv, DialogTypes
<1>2. UNCHANGED <<device, fetched, isStartingExport, batches, switched>>
  BY DEF Exports!handleCancel, Exports!CancelTimeline, Exports!Other
<1>3. CASE Exports!handleCancel
  <2> DEFINE f == IF device = "mobile" THEN ui.form \cap {"name"} ELSE {}
             d == IF device = "mobile" THEN "select" ELSE "none"
  <2>1. [Exports!Cleared EXCEPT !.tab = "export", !.form = f, !.drawer = d]
          = [ui EXCEPT !.form = f, !.mode = "none", !.range = Null, !.tab = "export", !.drawer = d]
    BY <1>1 DEF Exports!Cleared, Ui
  <2>2. Exports!Settle([Exports!Cleared EXCEPT !.tab = "export", !.form = f, !.drawer = d], content)
    BY <1>3 DEF Exports!handleCancel
  <2>3. f \in SUBSET ui.form /\ d \in {"none", "select", "export"} /\ (device = "desktop" => f = {})
    BY <1>1 DEF Ui
  <2> HIDE DEF f, d
  <2> QED BY <2>1, <2>2, <2>3, <1>1, <1>2, Closing DEF DialogTypes
<1>4. CASE Exports!CancelTimeline
  <2> DEFINE f == IF device = "mobile" THEN ui.form ELSE {}
  <2>1. [Exports!Cleared EXCEPT !.tab = "export", !.form = f]
          = [ui EXCEPT !.form = f, !.mode = "none", !.range = Null, !.tab = "export", !.drawer = ui.drawer]
    BY <1>1 DEF Exports!Cleared, Ui
  <2>2. Exports!Settle([Exports!Cleared EXCEPT !.tab = "export", !.form = f], content)
    BY <1>4 DEF Exports!CancelTimeline
  <2>3. f \in SUBSET ui.form /\ ui.drawer \in {"none", "select", "export"} /\ (device = "desktop" => f = {})
    BY <1>1 DEF Ui
  <2> HIDE DEF f
  <2> QED BY <2>1, <2>2, <2>3, <1>1, <1>2, Closing DEF DialogTypes
<1> QED BY <1>3, <1>4

LEMMA AnswerKeeps ==
    ASSUME DialogInv, NEW ok \in BOOLEAN, Exports!StartAnswer(ok) \/ Exports!BatchAnswer(ok) PROVE DialogInv'
<1>1. ui \in Ui /\ content \in Content /\ DialogTypes
  BY DEF DialogInv, DialogTypes
<1>2. CASE Exports!StartAnswer(ok) /\ ~ok
  <2>1. isStartingExport' = FALSE /\ UNCHANGED <<device, ui, content, fetched, batches, switched>>
    BY <1>2 DEF Exports!StartAnswer
  <2> QED BY <2>1, <1>1, ContentStep DEF DialogTypes, DialogInv, SelectedIsSeen, Exports!Mounted
<1>3. CASE Exports!StartAnswer(ok) /\ ok
  <2> DEFINE c == [content EXCEPT !.option = "1"]
             f == {}
  <2>1. Exports!Cleared = [ui EXCEPT !.form = f, !.mode = "none", !.range = Null, !.tab = ui.tab, !.drawer = ui.drawer]
    BY <1>1 DEF Exports!Cleared, Ui
  <2>2. Exports!Settle(Exports!Cleared, c) /\ isStartingExport' = FALSE /\ isStartingExport
        /\ UNCHANGED <<device, fetched, batches, switched>>
    BY <1>3 DEF Exports!StartAnswer
  <2>3. c \in Content /\ c.batch = content.batch
    BY <1>1 DEF Content
  <2>4. device = "desktop" /\ ~switched => ui.tab = "export"
    BY <2>2 DEF DialogInv, StartedClean
  <2>5. f \in SUBSET ui.form /\ ui.tab \in {"export", "multi"} /\ ui.drawer \in {"none", "select", "export"}
    BY <1>1 DEF Ui
  <2> HIDE DEF c
  <2> QED BY <2>1, <2>2, <2>3, <2>4, <2>5, <1>1, Closing DEF DialogTypes
<1>4. CASE Exports!BatchAnswer(ok)
  <2> DEFINE c == [content EXCEPT !.batch = FALSE]
             f == ui.form \cap {"single"}
  <2>1. c \in Content /\ ~c.batch /\ c.manual = content.manual /\ c.debounced = content.debounced
        /\ c.selected = content.selected
    BY <1>1 DEF Content
  <2>2. batches' = FALSE /\ UNCHANGED <<device, fetched, isStartingExport, switched>>
    BY <1>4 DEF Exports!BatchAnswer
  <2>3. CASE ok
    <3>1. [Exports!Cleared EXCEPT !.form = f, !.tab = "export"]
            = [ui EXCEPT !.form = f, !.mode = "none", !.range = Null, !.tab = "export", !.drawer = ui.drawer]
      BY <1>1 DEF Exports!Cleared, Ui
    <3>2. Exports!Settle([Exports!Cleared EXCEPT !.form = f, !.tab = "export"], c)
      BY <1>4, <2>3 DEF Exports!BatchAnswer
    <3>3. f \in SUBSET ui.form /\ ui.drawer \in {"none", "select", "export"} /\ f \subseteq {"single"}
      BY <1>1 DEF Ui
    <3> HIDE DEF f, c
    <3> QED BY <3>1, <3>2, <3>3, <2>1, <2>2, <1>1, Closing DEF DialogTypes
  <2>4. CASE ~ok
    <3>1. ui' = ui /\ content' = c
      BY <1>4, <2>4 DEF Exports!BatchAnswer
    <3>2. SelectedIsSeen'
      BY <3>1, <2>1, <2>2 DEF DialogInv, SelectedIsSeen, Exports!Mounted
    <3> HIDE DEF c
    <3> QED BY <3>1, <3>2, <2>1, <2>2, <1>1, ContentStep DEF DialogTypes
  <2> QED BY <2>3, <2>4
<1> QED BY <1>2, <1>3, <1>4

\* The open dialog or its overlay, changed in place.
LEMMA InPlaceStep ==
    ASSUME DialogInv, NEW u \in Ui, u.mode = ui.mode, u.tab = ui.tab, NEW c \in Content, c.batch => batches,
           Exports!Settle(u, c), device = "desktop" => ui.mode # "none", Exports!Other
    PROVE  DialogInv'
<1>1. Exports!TabOf(u) = ui.tab
  BY DEF Exports!TabOf
<1> QED
  BY <1>1, SettleStep DEF Exports!Other, DialogInv, DialogTypes, TabOfMode, StartedClean

LEMMA ChooseKeeps ==
    ASSUME DialogInv,
           \/ Exports!CloseDrawer \/ Exports!MoveHandles \/ Exports!PickTimes
           \/ \E o \in {"1", "timeline"} : Exports!onSelectTime(o)
           \/ \E f \in Exports!Fields : Exports!Fill(f)
    PROVE  DialogInv'
<1>1. ui \in Ui /\ content \in Content /\ (content.batch => batches) /\ device \in {"desktop", "mobile"}
  BY DEF DialogInv, DialogTypes
<1>2. Exports!Mounted(ui) => (device = "desktop" => ui.mode # "none")
  BY DEF Exports!Mounted
<1>3. CASE Exports!CloseDrawer
  <2> DEFINE u == [ui EXCEPT !.drawer = "none"]
  <2>1. u \in Ui /\ u.mode = ui.mode /\ u.tab = ui.tab
    BY <1>1 DEF Ui
  <2>2. Exports!Settle(u, content) /\ Exports!Other /\ device = "mobile"
    BY <1>3 DEF Exports!CloseDrawer
  <2> HIDE DEF u
  <2> QED BY <2>1, <2>2, <1>1, InPlaceStep
<1>4. CASE Exports!MoveHandles \/ Exports!PickTimes
  <2> DEFINE u == [ui EXCEPT !.range = "picked"]
  <2>1. u \in Ui /\ u.mode = ui.mode /\ u.tab = ui.tab
    BY <1>1 DEF Ui, Exports!Ranges
  <2>2. Exports!Settle(u, content) /\ Exports!Other /\ (Exports!Mounted(ui) \/ ui.mode \in {"timeline", "timeline_multi"})
    BY <1>4 DEF Exports!MoveHandles, Exports!PickTimes
  <2> HIDE DEF u
  <2> QED BY <2>1, <2>2, <1>1, <1>2, InPlaceStep
<1>5. ASSUME NEW o \in {"1", "timeline"}, Exports!onSelectTime(o) PROVE DialogInv'
  <2> DEFINE u == [ui EXCEPT !.range = "hour"]
             c == [content EXCEPT !.option = o]
  <2>1. u \in Ui /\ u.mode = ui.mode /\ u.tab = ui.tab /\ c \in Content /\ c.batch = content.batch
    BY <1>1 DEF Ui, Content, Exports!Ranges
  <2>2. Exports!Settle(u, c) /\ Exports!Other /\ Exports!Mounted(ui)
    BY <1>5 DEF Exports!onSelectTime
  <2> HIDE DEF u, c
  <2> QED BY <2>1, <2>2, <1>1, <1>2, InPlaceStep
<1>6. ASSUME NEW f \in Exports!Fields, Exports!Fill(f) PROVE DialogInv'
  <2> DEFINE u == [ui EXCEPT !.form = @ \cup {f}]
  <2>1. u \in Ui /\ u.mode = ui.mode /\ u.tab = ui.tab
    BY <1>1 DEF Ui
  <2>2. Exports!Settle(u, content) /\ Exports!Other /\ Exports!Mounted(ui)
    BY <1>6 DEF Exports!Fill
  <2> HIDE DEF u
  <2> QED BY <2>1, <2>2, <1>1, <1>2, InPlaceStep
<1> QED BY <1>3, <1>4, <1>5, <1>6

LEMMA LeaveKeeps == ASSUME DialogInv, NEW save \in BOOLEAN, Exports!LeaveTimelineMulti(save) PROVE DialogInv'
<1> DEFINE u == [ui EXCEPT !.mode = "select", !.tab = "multi", !.range = IF save THEN @ ELSE ui.pre,
                           !.drawer = IF device = "mobile" THEN "export" ELSE "none"]
<1>1. ui \in Ui /\ content \in Content /\ DialogTypes /\ ui.mode = "timeline_multi"
  BY DEF DialogInv, DialogTypes, Exports!LeaveTimelineMulti
<1>2. u \in Ui /\ u.mode = "select"
  BY <1>1 DEF Ui
<1>3. Exports!Settle(u, content) /\ Exports!Other
  BY DEF Exports!LeaveTimelineMulti
<1>4. device = "desktop" /\ ~switched => ~isStartingExport
  BY <1>1 DEF DialogInv, TabOfMode, StartedClean
<1> HIDE DEF u
<1> QED BY <1>1, <1>2, <1>3, <1>4, SettleStep DEF DialogTypes, Exports!Other

LEMMA TabKeeps == ASSUME DialogInv, NEW t \in {"export", "multi"}, Exports!SelectTab(t) PROVE DialogInv'
<1> DEFINE g == IF "case" \in ui.form THEN ui.form \cup {"batchCase"} ELSE ui.form \ {"batchCase"}
           u == IF t = "multi" THEN [ui EXCEPT !.tab = t, !.range = "around", !.form = g]
                ELSE [ui EXCEPT !.tab = t, !.range = "hour"]
<1>1. ui \in Ui /\ content \in Content /\ DialogTypes /\ Exports!Mounted(ui)
  BY DEF DialogInv, DialogTypes, Exports!SelectTab
<1>2. g \in SUBSET Exports!Fields
  BY <1>1 DEF Ui, Exports!Fields
<1>3. u \in Ui /\ u.mode = ui.mode /\ u.tab = t
  <2>1. CASE t = "multi"
    BY <2>1, <1>1, <1>2 DEF Ui, Exports!Ranges
  <2>2. CASE t = "export"
    BY <2>2, <1>1 DEF Ui, Exports!Ranges
  <2> QED BY <2>1, <2>2
<1>4. Exports!Settle(u, content) /\ switched' = (switched \/ isStartingExport)
      /\ UNCHANGED <<device, fetched, isStartingExport, batches>>
  BY <1>1 DEF Exports!SelectTab, Ui
<1>5. device = "desktop" => ui.mode = "select"
  BY <1>1 DEF Exports!Mounted
<1> HIDE DEF u
<1> QED BY <1>1, <1>3, <1>4, <1>5, SettleStep DEF DialogTypes

LEMMA TimelineKeeps == ASSUME DialogInv, Exports!ToTimeline \/ Exports!onSelectFromTimeline PROVE DialogInv'
<1> DEFINE a == [ui EXCEPT !.range = "around", !.mode = "timeline", !.drawer = "none"]
           b == [ui EXCEPT !.pre = ui.range, !.mode = "timeline_multi", !.drawer = "none"]
<1>1. ui \in Ui /\ content \in Content /\ DialogTypes /\ StartedClean
  BY DEF DialogInv, DialogTypes
<1>2. a \in Ui /\ b \in Ui /\ a.mode = "timeline" /\ b.mode = "timeline_multi" /\ a.tab = ui.tab /\ b.tab = ui.tab
  BY <1>1 DEF Ui, Exports!Ranges
<1>3. CASE Exports!ToTimeline
  <2>1. Exports!Settle(a, content) /\ Exports!Other /\ ui.tab = "export"
    BY <1>3 DEF Exports!ToTimeline
  <2>2. Exports!TabOf(a) = "export"
    BY <2>1, <1>2 DEF Exports!TabOf
  <2> HIDE DEF a
  <2> QED BY <2>1, <2>2, <1>1, <1>2, SettleStep DEF DialogTypes, Exports!Other
<1>4. CASE Exports!onSelectFromTimeline
  <2>1. Exports!Settle(b, content) /\ Exports!Other /\ ui.tab = "multi"
    BY <1>4 DEF Exports!onSelectFromTimeline
  <2>2. Exports!TabOf(b) = "multi"
    BY <2>1, <1>2 DEF Exports!TabOf
  <2> HIDE DEF b
  <2> QED BY <2>1, <2>2, <1>1, <1>2, SettleStep DEF DialogTypes, Exports!Other, StartedClean
<1> QED BY <1>3, <1>4

LEMMA StartKeeps == ASSUME DialogInv, Exports!onStartExport PROVE DialogInv'
<1>1. isStartingExport' = TRUE /\ UNCHANGED <<device, ui, content, fetched, batches, switched>>
  BY DEF Exports!onStartExport
<1>2. device = "desktop" => ui.tab = "export"
  BY DEF Exports!onStartExport, DialogInv, TabOfMode
<1>3. DialogTypes /\ SelectedIsSeen'
  BY <1>1 DEF DialogInv, SelectedIsSeen, Exports!Mounted
<1> QED BY <1>1, <1>2, <1>3, ContentStep DEF DialogTypes

LEMMA CamerasKeeps ==
    ASSUME DialogInv,
           \/ \E cam \in Cams : Exports!toggleCameraSelection(cam)
           \/ \E cams \in SUBSET Cams : Exports!applyCameraSelection(cams)
    PROVE  DialogInv'
<1>1. content \in Content /\ DialogTypes
  BY DEF DialogInv, DialogTypes
<1>2. PICK s \in SUBSET Cams : content' = [content EXCEPT !.manual = TRUE, !.selected = s]
  <2>1. CASE \E cam \in Cams : Exports!toggleCameraSelection(cam)
    <3>1. PICK cam \in Cams : Exports!toggleCameraSelection(cam)
      BY <2>1
    <3>2. (content.selected \cup {cam}) \ (content.selected \cap {cam}) \in SUBSET Cams
      BY <1>1 DEF Content
    <3> QED BY <3>1, <3>2 DEF Exports!toggleCameraSelection
  <2>2. CASE \E cams \in SUBSET Cams : Exports!applyCameraSelection(cams)
    BY <2>2 DEF Exports!applyCameraSelection
  <2> QED BY <2>1, <2>2
<1>3. ui' = ui /\ Exports!Other
  BY DEF Exports!toggleCameraSelection, Exports!applyCameraSelection
<1>4. content' \in Content /\ content'.manual /\ content'.batch = content.batch
  BY <1>1, <1>2 DEF Content
<1>5. SelectedIsSeen'
  BY <1>4 DEF SelectedIsSeen
<1> QED BY <1>1, <1>3, <1>4, <1>5, ContentStep DEF Exports!Other, DialogTypes

LEMMA BatchKeeps == ASSUME DialogInv, Exports!startBatchExport PROVE DialogInv'
<1>1. content \in Content /\ DialogTypes
  BY DEF DialogInv, DialogTypes
<1>2. batches' = TRUE /\ content' = [content EXCEPT !.batch = TRUE]
      /\ UNCHANGED <<device, ui, fetched, isStartingExport, switched>>
  BY DEF Exports!startBatchExport
<1>3. content' \in Content /\ content'.manual = content.manual /\ content'.debounced = content.debounced
      /\ content'.selected = content.selected
  BY <1>1, <1>2 DEF Content
<1>4. SelectedIsSeen'
  BY <1>2, <1>3 DEF DialogInv, SelectedIsSeen, Exports!Mounted
<1> QED BY <1>1, <1>2, <1>3, <1>4, ContentStep DEF DialogTypes

LEMMA SettleOnKeeps == ASSUME DialogInv, Exports!Debounce \/ Exports!EventsAnswer PROVE DialogInv'
<1>1. content \in Content /\ DialogTypes /\ ui \in Ui /\ (content.batch => batches)
  BY DEF DialogInv, DialogTypes
<1>2. CASE Exports!Debounce
  <2> DEFINE c == [content EXCEPT !.debounced = ui.range]
  <2>1. c \in Content /\ c.batch = content.batch
    BY <1>1 DEF Content, Ui
  <2>2. content' = Exports!AutoSelect(c, fetched) /\ ui' = ui /\ Exports!Other
    BY <1>2 DEF Exports!Debounce
  <2> HIDE DEF c
  <2>3. content' \in Content /\ content'.batch = content.batch
        /\ (~content'.manual /\ content'.debounced \in fetched => content'.selected = Exports!Seen(content'.debounced))
    BY <2>1, <2>2, <1>1, AutoSelects DEF DialogTypes
  <2>4. SelectedIsSeen'
    BY <2>2, <2>3 DEF SelectedIsSeen, Exports!Other
  <2> QED BY <2>2, <2>3, <2>4, <1>1, ContentStep DEF DialogTypes, Exports!Other
<1>3. CASE Exports!EventsAnswer
  <2>1. fetched' = fetched \cup {content.debounced} /\ fetched' \in SUBSET Exports!Ranges
    BY <1>1, <1>3 DEF Exports!EventsAnswer, DialogTypes, Content
  <2>2. content' = (IF ui.tab = "multi" THEN Exports!AutoSelect(content, fetched') ELSE content)
        /\ UNCHANGED <<device, ui, isStartingExport, batches, switched>>
    BY <1>3 DEF Exports!EventsAnswer
  <2>3. content' \in Content /\ content'.batch = content.batch
        /\ (ui.tab = "multi" => (~content'.manual /\ content'.debounced \in fetched'
                                   => content'.selected = Exports!Seen(content'.debounced)))
    BY <2>1, <2>2, <1>1, AutoSelects
  <2>4. SelectedIsSeen'
    BY <2>2, <2>3 DEF SelectedIsSeen
  <2> QED BY <2>1, <2>2, <2>3, <2>4, <1>1, ContentStep DEF DialogTypes
<1> QED BY <1>2, <1>3

LEMMA DialogInvNext == ASSUME DialogInv, Exports!DialogNext PROVE DialogInv'
<1> USE DEF Exports!DialogNext
<1>1. CASE Exports!Open \/ Exports!OpenDrawer \/ Exports!handleCancel \/ Exports!CancelTimeline
  BY <1>1, OpenKeeps, CancelKeeps
<1>2. CASE \/ Exports!CloseDrawer \/ Exports!MoveHandles \/ Exports!PickTimes
           \/ \E o \in {"1", "timeline"} : Exports!onSelectTime(o)
           \/ \E f \in Exports!Fields : Exports!Fill(f)
  BY <1>2, ChooseKeeps
<1>3. ASSUME NEW b \in BOOLEAN, Exports!LeaveTimelineMulti(b) \/ Exports!StartAnswer(b) \/ Exports!BatchAnswer(b)
      PROVE  DialogInv'
  BY <1>3, LeaveKeeps, AnswerKeeps
<1>4. CASE Exports!onStartExport \/ Exports!ToTimeline \/ Exports!onSelectFromTimeline \/ Exports!Debounce
           \/ Exports!EventsAnswer \/ Exports!startBatchExport
  BY <1>4, StartKeeps, TimelineKeeps, SettleOnKeeps, BatchKeeps
<1>5. ASSUME NEW t \in {"export", "multi"}, Exports!SelectTab(t) PROVE DialogInv'
  BY <1>5, TabKeeps
<1>6. CASE \/ \E cam \in Cams : Exports!toggleCameraSelection(cam)
           \/ \E cams \in SUBSET Cams : Exports!applyCameraSelection(cams)
  BY <1>6, CamerasKeeps
<1> QED BY <1>1, <1>2, <1>3, <1>4, <1>5, <1>6

LEMMA DialogInvOwn == DialogInv => Exports!DialogTypeOK /\ Exports!ClosedIsClean /\ Exports!SelectionFits
<1> SUFFICES ASSUME DialogInv PROVE Exports!DialogTypeOK /\ Exports!ClosedIsClean /\ Exports!SelectionFits
  OBVIOUS
<1>1. Exports!DialogTypeOK
  BY DEF DialogInv, DialogTypes, Exports!DialogTypeOK, Ui, Content
<1>2. Exports!ClosedIsClean
  BY DEF DialogInv, StartedClean, Exports!ClosedIsClean
<1>3. Exports!SelectionFits
  BY DEF DialogInv, SelectedIsSeen, Exports!SelectionFits
<1> QED BY <1>1, <1>2, <1>3

(***************************************************************************)
(* The details of tracked objects                                          *)
(***************************************************************************)
Rec == Details!Rec
Texts == Details!Texts

Save == [id : Events, field : {"desc"}, value : Texts, old : Texts, state : {"sent", "done", "failed"}]
    \cup [id : Events, field : {"sub"}, value : {"name"}, old : Texts, state : {"sent", "done", "failed"}]
Deletion == [id : Events, field : {"delete"}, value : {""}, old : {"a"}, state : {"sent", "done", "failed"}]

DetailsTypes ==
    /\ server \in Details!List /\ rows \in Details!List /\ detailsLoading \in Details!Load \cup {Null}
    /\ selectedId \in Events \cup {Null} /\ isOpen \in BOOLEAN
    /\ page \in {"snapshot", "tracking_details"} /\ tab \in Details!Tab \cup {Null}
    /\ detailsRequests \subseteq Save \cup Deletion /\ announced \in Nat

\* What the dialog shows is in the list, and what it can go back to is a text.
Dialog ==
    /\ selectedId = Null => ~isOpen /\ tab = Null
    /\ selectedId # Null => rows[selectedId] # Null
    /\ tab # Null /\ tab.editing => tab.orig \in Texts

\* The text is the one of the object shown, or typed.
TextIsOwn == tab # Null => tab.desc \in {"typed", rows[selectedId].desc}

\* A list agrees with the server about the object, or an answer or update that will have it
\* loaded again is on the way.
Due(e) == announced > 0 \/ \E r \in detailsRequests : r.id = e /\ r.state = "done"
DueGone(e) == announced > 0 \/ \E r \in detailsRequests : r.id = e /\ r.state = "done" /\ r.field = "delete"
Agrees(l, e) ==
    /\ l[e] = server[e] \/ Due(e)
    /\ server[e] = Null => l[e] = Null \/ DueGone(e)

ListCatchesUp ==
    /\ \A e \in Events : Agrees(rows, e) \/ detailsLoading # Null
    /\ detailsLoading # Null =>
          ~detailsLoading.dropped /\ (detailsLoading.data # Null => \A e \in Events : Agrees(detailsLoading.data, e))

DetailsInv ==
    /\ DetailsTypes /\ Dialog
    /\ ~strayed => TextIsOwn
    /\ ~behind => ListCatchesUp

LEMMA DetailsNone ==
    Null \notin Events /\ Null \notin Rec /\ Null \notin Details!List /\ Null \notin Details!Load
    /\ Null \notin Details!Tab
  BY NullAssumption DEF Rec

LEMMA DetailsInvInit == ASSUME Details!Init PROVE DetailsInv
<1>1. Details!First \in Details!List
  BY DEF Details!First, Details!List, Details!Rec, Details!Texts
<1>2. DetailsTypes /\ Dialog /\ TextIsOwn
  BY <1>1 DEF Details!Init, DetailsTypes, Dialog, TextIsOwn
<1>3. ListCatchesUp
  BY <1>1 DEF Details!Init, ListCatchesUp, Agrees
<1> QED
  BY <1>2, <1>3 DEF DetailsInv

\* The lists and what is on the way to them are left as they are.
LEMMA ListsKept ==
    ASSUME ListCatchesUp, UNCHANGED <<server, rows, detailsLoading>>, announced' >= announced,
           announced \in Nat, announced' \in Nat, detailsRequests \subseteq detailsRequests'
    PROVE  ListCatchesUp'
<1>1. ASSUME NEW e \in Events PROVE (Due(e) => Due(e)') /\ (DueGone(e) => DueGone(e)')
  BY <1>1 DEF Due, DueGone
<1> QED
  BY <1>1 DEF ListCatchesUp, Agrees

\* What follows a change of the selection, the page or the list keeps the dialog in order.
LEMMA ShowKeeps ==
    ASSUME DetailsTypes, Dialog, NEW id \in Events \cup {Null},
           NEW p \in {"snapshot", "tracking_details"}, NEW l \in Details!List, NEW t,
           tab # Null => t \in Details!Tab /\ t.desc = tab.desc /\ t.editing = tab.editing /\ t.orig = tab.orig,
           Details!Show(id, p, l, t), rows' = l
    PROVE  /\ selectedId' \in Events \cup {Null} /\ isOpen' \in BOOLEAN
           /\ page' \in {"snapshot", "tracking_details"} /\ tab' \in Details!Tab \cup {Null}
           /\ Dialog' /\ (TextIsOwn => TextIsOwn')
<1> DEFINE found == Details!searchDetail(id, l) # Null
<1>1. found <=> id # Null /\ l[id] # Null
  BY DEF Details!searchDetail
<1>2. found => id \in Events /\ l[id] \in Rec /\ l[id].desc \in Texts
  BY <1>1 DEF Details!List, Rec, Details!Rec, Texts
<1>3. found => Details!NewTab(id, l) \in Details!Tab
  BY <1>2 DEF Details!NewTab, Details!Tab, Texts
<1>4. tab # Null => [t EXCEPT !.desc = l[id].desc].editing = tab.editing
                    /\ [t EXCEPT !.desc = l[id].desc].orig = tab.orig
                    /\ [t EXCEPT !.desc = l[id].desc].desc = l[id].desc
  BY DEF Details!Tab
<1>5. tab # Null /\ found => [t EXCEPT !.desc = l[id].desc] \in Details!Tab
  BY <1>2 DEF Details!Tab, Texts
<1>6. selectedId' \in Events \cup {Null} /\ isOpen' \in BOOLEAN /\ page' = p
  BY <1>1 DEF Details!Show, DetailsTypes
<1>7. CASE ~found
  <2>1. selectedId' = Null /\ ~isOpen' /\ tab' = Null
    BY <1>7 DEF Details!Show
  <2> QED BY <2>1, <1>6 DEF Dialog, TextIsOwn
<1>8. CASE found /\ p # "snapshot"
  <2>1. selectedId' = id /\ tab' = Null /\ rows'[id] # Null
    BY <1>8, <1>1 DEF Details!Show
  <2> QED BY <2>1, <1>1, <1>6, <1>8, DetailsNone DEF Dialog, TextIsOwn
<1>9. CASE found /\ p = "snapshot" /\ tab = Null
  <2>1. selectedId' = id /\ tab' = Details!NewTab(id, l) /\ rows'[id] # Null
    BY <1>9, <1>1 DEF Details!Show
  <2>2. ~tab'.editing /\ tab'.desc = l[id].desc
    BY <2>1 DEF Details!NewTab
  <2> QED BY <2>1, <2>2, <1>1, <1>3, <1>6, <1>9 DEF Dialog, TextIsOwn
<1>10. CASE found /\ p = "snapshot" /\ tab # Null
  <2>1. selectedId' = id /\ rows'[id] # Null
    BY <1>10, <1>1 DEF Details!Show
  <2>2. CASE id # selectedId \/ l[id] # rows[id]
    <3>1. tab' = [t EXCEPT !.desc = l[id].desc]
      BY <2>2, <1>10 DEF Details!Show
    <3> QED BY <3>1, <2>1, <1>1, <1>4, <1>5, <1>6, <1>10 DEF Dialog, TextIsOwn
  <2>3. CASE id = selectedId /\ l[id] = rows[id]
    <3>1. tab' = t
      BY <2>3, <1>10 DEF Details!Show
    <3> QED BY <3>1, <2>1, <2>3, <1>1, <1>6, <1>10 DEF Dialog, TextIsOwn
  <2> QED BY <2>2, <2>3
<1> QED BY <1>7, <1>8, <1>9, <1>10

(***************************************************************************)
(* The dialog                                                              *)
(***************************************************************************)
LEMMA SelectKeeps ==
    ASSUME DetailsInv, NEW e \in Events, NEW p \in {"snapshot", "tracking_details"},
           Details!onSelectSearch(e, p)
    PROVE  DetailsInv'
<1>1. DetailsTypes /\ Dialog
  BY DEF DetailsInv
<1>2. /\ Details!Show(e, p, rows, tab)
      /\ UNCHANGED <<rows, server, detailsLoading, detailsRequests, announced, behind, strayed>>
  BY DEF Details!onSelectSearch, Details!Kept
<1>3. DetailsTypes' /\ Dialog' /\ (TextIsOwn => TextIsOwn')
  BY <1>1, <1>2, ShowKeeps DEF DetailsTypes
<1>4. ~behind' => ListCatchesUp'
  BY <1>1, <1>2, ListsKept DEF DetailsInv, DetailsTypes
<1> QED BY <1>2, <1>3, <1>4 DEF DetailsInv

LEMMA SelectPageKeeps ==
    ASSUME DetailsInv, NEW p \in {"snapshot", "tracking_details"}, Details!SelectPage(p)
    PROVE  DetailsInv'
<1>1. DetailsTypes /\ Dialog
  BY DEF DetailsInv
<1>2. /\ Details!Show(selectedId, p, rows, tab)
      /\ UNCHANGED <<rows, server, detailsLoading, detailsRequests, announced, behind, strayed>>
  BY DEF Details!SelectPage, Details!Kept
<1>3. DetailsTypes' /\ Dialog' /\ (TextIsOwn => TextIsOwn')
  BY <1>1, <1>2, ShowKeeps DEF DetailsTypes
<1>4. ~behind' => ListCatchesUp'
  BY <1>1, <1>2, ListsKept DEF DetailsInv, DetailsTypes
<1> QED BY <1>2, <1>3, <1>4 DEF DetailsInv

LEMMA NextKeeps == ASSUME DetailsInv, Details!goToNext PROVE DetailsInv'
<1>1. DetailsTypes /\ Dialog
  BY DEF DetailsInv
<1>2. PICK e \in Events : Details!Show(e, page, rows, tab)
  BY DEF Details!goToNext
<1>3. UNCHANGED <<rows, server, detailsLoading, detailsRequests, announced, behind, strayed>>
  BY DEF Details!goToNext, Details!Kept
<1>4. DetailsTypes' /\ Dialog' /\ (TextIsOwn => TextIsOwn')
  BY <1>1, <1>2, <1>3, ShowKeeps DEF DetailsTypes
<1>5. ~behind' => ListCatchesUp'
  BY <1>1, <1>3, ListsKept DEF DetailsInv, DetailsTypes
<1> QED BY <1>3, <1>4, <1>5 DEF DetailsInv

LEMMA ClosedKeeps == ASSUME DetailsInv, Details!Closed PROVE DetailsInv'
<1>1. DetailsTypes /\ Dialog
  BY DEF DetailsInv
<1>2. /\ Details!Show(Null, page, rows, tab)
      /\ UNCHANGED <<rows, server, detailsLoading, detailsRequests, announced, behind, strayed>>
  BY DEF Details!Closed, Details!Kept
<1>3. DetailsTypes' /\ Dialog' /\ (TextIsOwn => TextIsOwn')
  BY <1>1, <1>2, ShowKeeps DEF DetailsTypes
<1>4. ~behind' => ListCatchesUp'
  BY <1>1, <1>2, ListsKept DEF DetailsInv, DetailsTypes
<1> QED BY <1>2, <1>3, <1>4 DEF DetailsInv

\* A step of the dialog that sends nothing.
LEMMA TabStep ==
    ASSUME DetailsInv,
           UNCHANGED <<rows, server, detailsLoading, detailsRequests, announced, behind, selectedId, page>>,
           isOpen' \in BOOLEAN, isOpen' => isOpen, tab' \in Details!Tab \cup {Null}, tab = Null => tab' = Null,
           tab' # Null /\ tab'.editing => tab'.orig \in Texts,
           strayed => strayed', ~strayed' /\ tab # Null => tab'.desc \in {"typed", tab.desc, rows[selectedId].desc}
    PROVE  DetailsInv'
<1>1. DetailsTypes'
  BY DEF DetailsInv, DetailsTypes
<1>2. Dialog'
  BY DEF DetailsInv, Dialog
<1>3. ~strayed' => TextIsOwn'
  BY DEF DetailsInv, TextIsOwn
<1>4. ~behind' => ListCatchesUp'
  BY ListsKept DEF DetailsInv, DetailsTypes
<1> QED BY <1>1, <1>2, <1>3, <1>4 DEF DetailsInv

LEMMA OpenChangeKeeps == ASSUME DetailsInv, Details!handleOpenChange PROVE DetailsInv'
<1>1. DetailsTypes /\ Dialog
  BY DEF DetailsInv
<1> QED BY <1>1, TabStep DEF Details!handleOpenChange, Details!Kept, DetailsTypes, Dialog

LEMMA StartEditKeeps == ASSUME DetailsInv, Details!StartEdit PROVE DetailsInv'
<1>1. tab \in Details!Tab /\ DetailsTypes
  BY DEF Details!StartEdit, DetailsInv, DetailsTypes
<1>2. tab' \in Details!Tab /\ tab'.orig \in Texts /\ tab'.desc = tab.desc
  BY <1>1 DEF Details!StartEdit, Details!Tab, Texts
<1> QED BY <1>1, <1>2, DetailsNone, TabStep DEF Details!StartEdit, Details!Kept, DetailsTypes

LEMMA TypeKeeps == ASSUME DetailsInv, Details!Type PROVE DetailsInv'
<1>1. tab \in Details!Tab /\ DetailsTypes /\ tab.editing /\ tab.orig \in Texts
  BY DEF Details!Type, DetailsInv, DetailsTypes, Dialog
<1>2. tab' \in Details!Tab /\ tab'.orig \in Texts /\ tab'.desc = "typed"
  BY <1>1 DEF Details!Type, Details!Tab, Details!Texts
<1> QED BY <1>1, <1>2, DetailsNone, TabStep DEF Details!Type, Details!Kept, DetailsTypes

LEMMA CancelEditKeeps == ASSUME DetailsInv, Details!CancelEdit PROVE DetailsInv'
<1>1. tab \in Details!Tab /\ DetailsTypes /\ tab.editing /\ tab.orig \in Texts
  BY DEF Details!CancelEdit, DetailsInv, DetailsTypes, Dialog
<1>2. tab' \in Details!Tab /\ ~tab'.editing /\ tab'.desc = tab.orig
  BY <1>1 DEF Details!CancelEdit, Details!Tab, Texts
<1>3. strayed' = (strayed \/ tab.orig # rows[selectedId].desc)
  BY DEF Details!CancelEdit
<1> QED BY <1>1, <1>2, <1>3, DetailsNone, TabStep DEF Details!CancelEdit, Details!Kept, DetailsTypes

LEMMA OpenSubLabelKeeps == ASSUME DetailsInv, Details!OpenSubLabel PROVE DetailsInv'
<1>1. tab \in Details!Tab /\ DetailsTypes /\ (tab.editing => tab.orig \in Texts)
  BY DEF Details!OpenSubLabel, DetailsInv, DetailsTypes, Dialog
<1>2. tab' \in Details!Tab /\ tab'.orig = tab.orig /\ tab'.editing = tab.editing /\ tab'.desc = tab.desc
  BY <1>1 DEF Details!OpenSubLabel, Details!Tab
<1> QED BY <1>1, <1>2, DetailsNone, TabStep DEF Details!OpenSubLabel, Details!Kept, DetailsTypes

(***************************************************************************)
(* The requests                                                            *)
(***************************************************************************)
LEMMA Asking ==
    ASSUME DetailsInv, NEW r \in Save \cup Deletion, detailsRequests' = detailsRequests \cup {r},
           UNCHANGED <<rows, server, detailsLoading, announced, behind, strayed, selectedId, page, isOpen>>,
           tab' \in Details!Tab \cup {Null}, tab = Null <=> tab' = Null,
           tab' # Null => tab'.desc = tab.desc /\ tab'.orig = tab.orig /\ (tab'.editing => tab.editing)
    PROVE  DetailsInv'
<1>1. DetailsTypes'
  BY DEF DetailsInv, DetailsTypes
<1>2. Dialog' /\ (~strayed' => TextIsOwn')
  BY DEF DetailsInv, Dialog, TextIsOwn
<1>3. ~behind' => ListCatchesUp'
  BY ListsKept DEF DetailsInv, DetailsTypes
<1> QED BY <1>1, <1>2, <1>3 DEF DetailsInv

LEMMA SaveKeeps == ASSUME DetailsInv, Details!updateDescription PROVE DetailsInv'
<1>1. DetailsTypes /\ tab \in Details!Tab /\ selectedId \in Events /\ rows[selectedId] \in Rec
  BY DEF Details!updateDescription, DetailsInv, DetailsTypes, Dialog, Details!List, Rec
<1> DEFINE r == [id |-> selectedId, field |-> "desc", value |-> tab.desc, old |-> rows[selectedId].desc, state |-> "sent"]
<1>2. r \in Save
  BY <1>1 DEF Save, Details!Tab, Texts, Rec, Details!Rec
<1>3. /\ tab' \in Details!Tab /\ tab'.desc = tab.desc /\ tab'.orig = tab.orig /\ ~tab'.editing
      /\ detailsRequests' = detailsRequests \cup {r}
      /\ UNCHANGED <<rows, server, detailsLoading, announced, behind, strayed, selectedId, page, isOpen>>
  BY <1>1 DEF Details!updateDescription, Details!Send, Details!Tab
<1> QED BY <1>1, <1>2, <1>3, DetailsNone, Asking

LEMMA SubLabelKeeps == ASSUME DetailsInv, Details!handleSubLabelSave PROVE DetailsInv'
<1>1. DetailsTypes /\ tab \in Details!Tab /\ selectedId \in Events /\ rows[selectedId] \in Rec
  BY DEF Details!handleSubLabelSave, DetailsInv, DetailsTypes, Dialog, Details!List, Rec
<1> DEFINE r == [id |-> selectedId, field |-> "sub", value |-> "name", old |-> rows[selectedId].desc, state |-> "sent"]
<1>2. r \in Save
  BY <1>1 DEF Save, Texts, Rec, Details!Rec
<1>3. tab' = tab /\ detailsRequests' = detailsRequests \cup {r}
      /\ UNCHANGED <<rows, server, detailsLoading, announced, behind, strayed, selectedId, page, isOpen>>
  BY <1>1 DEF Details!handleSubLabelSave, Details!Send
<1> QED BY <1>1, <1>2, <1>3, Asking

LEMMA DeleteKeeps == ASSUME DetailsInv, NEW e \in Events, Details!handleDelete(e) PROVE DetailsInv'
<1> DEFINE r == [id |-> e, field |-> "delete", value |-> "", old |-> "a", state |-> "sent"]
<1>1. r \in Deletion
  BY DEF Deletion
<1>2. detailsRequests' = detailsRequests \cup {r} /\ tab' = tab
      /\ UNCHANGED <<rows, server, detailsLoading, announced, behind, strayed, selectedId, page, isOpen>>
  BY DEF Details!handleDelete, Details!view
<1>3. tab \in Details!Tab \cup {Null}
  BY DEF DetailsInv, DetailsTypes
<1> QED BY <1>1, <1>2, <1>3, Asking

LEMMA RegenerateKeeps == ASSUME DetailsInv, Details!regenerateDescription PROVE DetailsInv'
<1>1. UNCHANGED <<rows, server, detailsLoading, detailsRequests, announced, behind, strayed, selectedId, page, isOpen, tab>>
  BY DEF Details!regenerateDescription, Details!view
<1> QED BY <1>1, TabStep DEF DetailsInv, DetailsTypes, Dialog, TextIsOwn

\* The server's records change; the page is told, or will be answered.
LEMMA ServerStep ==
    ASSUME DetailsInv, server' \in Details!List,
           UNCHANGED <<rows, detailsLoading, behind, strayed, selectedId, page, isOpen, tab>>,
           detailsRequests' \subseteq Save \cup Deletion, announced' \in Nat, announced' >= announced,
           \A q \in detailsRequests : q.state = "done" => q \in detailsRequests',
           \A e \in Events : server'[e] # server[e] => Due(e)' /\ (server'[e] = Null => DueGone(e)')
    PROVE  DetailsInv'
<1>1. DetailsTypes' /\ Dialog' /\ (~strayed' => TextIsOwn')
  BY DEF DetailsInv, DetailsTypes, Dialog, TextIsOwn
<1>2. ASSUME NEW e \in Events PROVE (Due(e) => Due(e)') /\ (DueGone(e) => DueGone(e)')
  BY <1>2 DEF Due, DueGone, DetailsInv, DetailsTypes
<1>3. ASSUME NEW l, NEW e \in Events, Agrees(l, e)
      PROVE  (l[e] = server'[e] \/ Due(e)') /\ (server'[e] = Null => l[e] = Null \/ DueGone(e)')
  BY <1>2, <1>3 DEF Agrees
<1>4. ~behind' => ListCatchesUp'
  BY <1>3 DEF DetailsInv, ListCatchesUp, Agrees
<1> QED BY <1>1, <1>4 DEF DetailsInv

LEMMA GeneratedKeeps == ASSUME DetailsInv, NEW e \in Events, Details!Generated(e) PROVE DetailsInv'
<1>1. DetailsTypes
  BY DEF DetailsInv
<1>2. server' \in Details!List
  BY <1>1 DEF Details!Generated, DetailsTypes, Details!List, Details!Rec, Details!Texts
<1>3. announced' \in Nat /\ announced' > 0 /\ announced' >= announced
  BY <1>1 DEF Details!Generated, DetailsTypes
<1>4. UNCHANGED <<rows, detailsLoading, behind, strayed, selectedId, page, isOpen, tab, detailsRequests>>
  BY DEF Details!Generated, Details!view
<1> QED BY <1>1, <1>2, <1>3, <1>4, ServerStep DEF Due, DueGone, DetailsTypes

LEMMA ApplyKeeps == ASSUME DetailsInv, NEW r \in detailsRequests, Details!Apply(r) PROVE DetailsInv'
<1>1. DetailsTypes /\ r \in Save \cup Deletion
  BY DEF DetailsInv, DetailsTypes
<1> DEFINE ok == server[r.id] # Null
           q == [r EXCEPT !.state = IF ok THEN "done" ELSE "failed"]
<1>2. q \in Save \cup Deletion /\ q.id = r.id /\ q.field = r.field /\ (ok => q.state = "done")
  BY <1>1 DEF Save, Deletion
<1>3. detailsRequests' = (detailsRequests \ {r}) \cup {q} /\ r.state = "sent"
      /\ UNCHANGED <<rows, detailsLoading, behind, strayed, selectedId, page, isOpen, tab, announced>>
  BY DEF Details!Apply, Details!view
<1>4. server' \in Details!List /\ (~ok => server' = server)
      /\ (\A e \in Events : server'[e] # server[e] => e = r.id)
      /\ (ok /\ r.field # "delete" => server'[r.id] # Null)
  <2>1. CASE ~ok
    BY <2>1, <1>1 DEF Details!Apply, DetailsTypes
  <2>2. CASE ok /\ r.field = "delete"
    BY <2>2, <1>1 DEF Details!Apply, DetailsTypes, Details!List, Save, Deletion
  <2>3. CASE ok /\ r.field = "desc"
    <3>1. r.id \in Events /\ server[r.id] \in Rec /\ r.value \in Texts
      BY <2>3, <1>1 DEF DetailsTypes, Details!List, Save, Deletion, Rec
    <3>2. [server[r.id] EXCEPT !.desc = r.value] \in Rec
      BY <3>1 DEF Rec, Details!Rec, Texts
    <3>3. server' = [server EXCEPT ![r.id] = [server[r.id] EXCEPT !.desc = r.value]]
      BY <2>3, <1>1, <3>1 DEF Details!Apply, DetailsTypes, Details!List
    <3> QED BY <2>3, <3>1, <3>2, <3>3, <1>1, DetailsNone DEF DetailsTypes, Details!List, Rec
  <2>4. CASE ok /\ r.field = "sub"
    <3>1. r.id \in Events /\ server[r.id] \in Rec /\ r.value = "name"
      BY <2>4, <1>1 DEF DetailsTypes, Details!List, Save, Deletion, Rec
    <3>2. [server[r.id] EXCEPT !.sub = r.value] \in Rec
      BY <3>1 DEF Rec, Details!Rec
    <3>3. server' = [server EXCEPT ![r.id] = [server[r.id] EXCEPT !.sub = r.value]]
      BY <2>4, <1>1, <3>1 DEF Details!Apply, DetailsTypes, Details!List
    <3> QED BY <2>4, <3>1, <3>2, <3>3, <1>1, DetailsNone DEF DetailsTypes, Details!List, Rec
  <2> QED BY <2>1, <2>2, <2>3, <2>4, <1>1 DEF Save, Deletion
<1>5. ASSUME NEW e \in Events, server'[e] # server[e] PROVE Due(e)' /\ (server'[e] = Null => DueGone(e)')
  <2>1. e = r.id /\ ok
    BY <1>4, <1>5
  <2>2. server'[e] = Null => r.field = "delete"
    BY <2>1, <1>4
  <2>3. q \in detailsRequests' /\ q.id = e /\ q.state = "done"
    BY <1>2, <1>3, <2>1
  <2> QED BY <2>2, <2>3, <1>2 DEF Due, DueGone
<1>6. detailsRequests' \subseteq Save \cup Deletion
      /\ \A p \in detailsRequests : p.state = "done" => p \in detailsRequests'
  BY <1>1, <1>2, <1>3 DEF DetailsTypes
<1>7. announced' \in Nat /\ announced' >= announced
  BY <1>1, <1>3 DEF DetailsTypes
<1> HIDE DEF q, ok
<1> QED BY <1>3, <1>4, <1>5, <1>6, <1>7, ServerStep

(***************************************************************************)
(* The answers, and the list                                               *)
(***************************************************************************)
\* A list being asked for anew makes up for whatever the page has missed.
LEMMA AskedAgain ==
    ASSUME DetailsInv, detailsLoading' = Details!Ask, detailsRequests' \subseteq detailsRequests,
           announced' \in Nat, UNCHANGED <<server, rows, selectedId, isOpen, page, tab, strayed, behind>>
    PROVE  DetailsInv'
<1>1. detailsLoading' \in Details!Load /\ detailsLoading'.data = Null /\ ~detailsLoading'.dropped
      /\ detailsLoading' # Null
  <2>1. Details!Ask \in Details!Load
    BY DEF Details!Ask, Details!Load
  <2> QED BY <2>1, DetailsNone DEF Details!Ask
<1>2. DetailsTypes' /\ Dialog' /\ (~strayed' => TextIsOwn')
  BY <1>1 DEF DetailsInv, DetailsTypes, Dialog, TextIsOwn
<1>3. ListCatchesUp'
  BY <1>1 DEF ListCatchesUp
<1> QED BY <1>2, <1>3 DEF DetailsInv

LEMMA UpdateKeeps == ASSUME DetailsInv, Details!wsUpdate PROVE DetailsInv'
<1>1. detailsLoading' = Details!Ask /\ detailsRequests' \subseteq detailsRequests /\ announced' \in Nat
      /\ UNCHANGED <<server, rows, selectedId, isOpen, page, tab, strayed, behind>>
  BY DEF Details!wsUpdate, Details!view, DetailsInv, DetailsTypes
<1> QED BY <1>1, AskedAgain

LEMMA DeleteAnswerKeeps ==
    ASSUME DetailsInv, NEW r \in detailsRequests, Details!DeleteAnswer(r) PROVE DetailsInv'
<1>1. detailsLoading' = Details!Ask /\ detailsRequests' \subseteq detailsRequests /\ announced' \in Nat
      /\ UNCHANGED <<server, rows, selectedId, isOpen, page, tab, strayed, behind>>
  BY DEF Details!DeleteAnswer, Details!view, DetailsInv, DetailsTypes
<1> QED BY <1>1, AskedAgain

LEMMA SaveFailKeeps ==
    ASSUME DetailsInv, NEW r \in detailsRequests, Details!SaveFail(r) PROVE DetailsInv'
<1>1. DetailsTypes /\ Dialog /\ r \in Save \cup Deletion
  BY DEF DetailsInv, DetailsTypes
<1>2. /\ detailsRequests' = detailsRequests \ {r} /\ behind' = (behind \/ r.state # "sent")
      /\ strayed' = (strayed \/ (tab # Null /\ r.field = "desc" /\ rows[selectedId].desc # r.old))
      /\ tab' = IF tab # Null /\ r.field = "desc" THEN [tab EXCEPT !.desc = r.old] ELSE tab
      /\ UNCHANGED <<server, rows, detailsLoading, selectedId, isOpen, page, announced>>
  BY DEF Details!SaveFail
<1>3. tab' \in Details!Tab \cup {Null} /\ (tab' = Null <=> tab = Null)
      /\ (tab # Null => tab'.editing = tab.editing /\ tab'.orig = tab.orig)
      /\ (tab # Null => tab'.desc = IF r.field = "desc" THEN r.old ELSE tab.desc)
  <2>1. CASE tab # Null /\ r.field = "desc"
    <3>1. tab \in Details!Tab /\ r.old \in Texts
      BY <1>1, <2>1 DEF DetailsTypes, Save, Deletion
    <3> QED BY <3>1, <2>1, <1>2, DetailsNone DEF Details!Tab, Texts
  <2>2. CASE tab = Null \/ r.field # "desc"
    BY <2>2, <1>1, <1>2 DEF DetailsTypes
  <2> QED BY <2>1, <2>2
<1>4. DetailsTypes' /\ Dialog'
  BY <1>1, <1>2, <1>3 DEF DetailsTypes, Dialog
<1>5. ~strayed' => TextIsOwn'
  BY <1>2, <1>3 DEF DetailsInv, TextIsOwn
<1>6. ~behind' => ListCatchesUp'
  <2> SUFFICES ASSUME ~behind' PROVE ListCatchesUp'
    OBVIOUS
  <2>1. r.state = "sent" /\ ListCatchesUp
    BY <1>2 DEF DetailsInv
  <2>2. ASSUME NEW e \in Events PROVE (Due(e) => Due(e)') /\ (DueGone(e) => DueGone(e)')
    BY <2>1, <1>2 DEF Due, DueGone
  <2> QED BY <2>1, <2>2, <1>2 DEF ListCatchesUp, Agrees
<1> QED BY <1>4, <1>5, <1>6 DEF DetailsInv

LEMMA ListReadKeeps == ASSUME DetailsInv, Details!ListRead PROVE DetailsInv'
<1>1. DetailsTypes /\ detailsLoading \in Details!Load
  BY DEF DetailsInv, DetailsTypes, Details!ListRead
<1>2. detailsLoading' \in Details!Load /\ detailsLoading'.data = server
      /\ detailsLoading'.dropped = detailsLoading.dropped /\ detailsLoading' # Null
  BY <1>1, DetailsNone DEF Details!ListRead, Details!Load, DetailsTypes
<1>3. UNCHANGED <<server, rows, selectedId, isOpen, page, tab, detailsRequests, announced, strayed, behind>>
  BY DEF Details!ListRead, Details!view
<1>4. DetailsTypes' /\ Dialog' /\ (~strayed' => TextIsOwn')
  BY <1>1, <1>2, <1>3 DEF DetailsInv, DetailsTypes, Dialog, TextIsOwn
<1>5. ~behind' => ListCatchesUp'
  BY <1>1, <1>2, <1>3, DetailsNone DEF DetailsInv, ListCatchesUp, Agrees, Details!ListRead
<1> QED BY <1>4, <1>5 DEF DetailsInv

LEMMA ListAnswerKeeps == ASSUME DetailsInv, Details!ListAnswer PROVE DetailsInv'
<1>1. DetailsTypes /\ Dialog /\ detailsLoading \in Details!Load /\ detailsLoading.data \in Details!List
  BY DEF DetailsInv, DetailsTypes, Details!ListAnswer, Details!Load
<1>2. detailsLoading' = Null
      /\ UNCHANGED <<server, detailsRequests, announced, strayed, behind>>
  BY DEF Details!ListAnswer
<1>3. CASE detailsLoading.dropped
  <2>1. UNCHANGED <<rows, selectedId, isOpen, page, tab>>
    BY <1>3 DEF Details!ListAnswer, Details!view
  <2>2. DetailsTypes' /\ Dialog' /\ (~strayed' => TextIsOwn')
    BY <1>1, <1>2, <2>1 DEF DetailsInv, DetailsTypes, Dialog, TextIsOwn
  <2>3. behind
    BY <1>1, <1>3, DetailsNone DEF DetailsInv, ListCatchesUp
  <2> QED BY <2>2, <2>3, <1>2 DEF DetailsInv
<1>4. CASE ~detailsLoading.dropped
  <2>1. rows' = detailsLoading.data
    BY <1>4 DEF Details!ListAnswer
  <2>2. /\ selectedId' \in Events \cup {Null} /\ isOpen' \in BOOLEAN
        /\ page' \in {"snapshot", "tracking_details"} /\ tab' \in Details!Tab \cup {Null}
        /\ Dialog' /\ (TextIsOwn => TextIsOwn')
    <3>1. CASE selectedId = Null
      <4>1. UNCHANGED <<selectedId, isOpen, page, tab>>
        BY <1>4, <3>1 DEF Details!ListAnswer
      <4> QED BY <4>1, <3>1, <1>1 DEF DetailsTypes, Dialog, TextIsOwn
    <3>2. CASE selectedId # Null
      <4>1. Details!Show(selectedId, page, detailsLoading.data, tab)
        BY <1>4, <3>2 DEF Details!ListAnswer
      <4> QED BY <4>1, <1>1, <2>1, ShowKeeps DEF DetailsTypes
    <3> QED BY <3>1, <3>2
  <2>3. DetailsTypes' /\ (~strayed' => TextIsOwn')
    BY <1>1, <1>2, <2>1, <2>2 DEF DetailsInv, DetailsTypes
  <2>4. ~behind' => ListCatchesUp'
    BY <1>1, <1>2, <2>1, DetailsNone DEF DetailsInv, ListCatchesUp, Agrees, Due, DueGone
  <2> QED BY <2>2, <2>3, <2>4 DEF DetailsInv
<1> QED BY <1>3, <1>4

\* The saved text or name in the cached list.
LEMMA RewrittenRows ==
    ASSUME DetailsTypes, NEW r \in detailsRequests, r.field # "delete"
    PROVE  /\ Details!Rewritten(r) \in Details!List
           /\ \A e \in Events : e # r.id => Details!Rewritten(r)[e] = rows[e]
           /\ rows[r.id] = Null => Details!Rewritten(r)[r.id] = Null
<1>1. r \in Save /\ r.id \in Events /\ rows[r.id] \in Rec \cup {Null}
  BY DEF DetailsTypes, Deletion, Save, Details!List, Rec
<1> DEFINE x == IF rows[r.id] = Null THEN Null
                ELSE IF r.field = "desc" THEN [rows[r.id] EXCEPT !.desc = r.value]
                ELSE [rows[r.id] EXCEPT !.sub = r.value]
<1>2. x \in Rec \cup {Null}
  <2>1. CASE rows[r.id] # Null /\ r.field = "desc"
    BY <2>1, <1>1 DEF Save, Rec, Details!Rec, Texts
  <2>2. CASE rows[r.id] # Null /\ r.field = "sub"
    BY <2>2, <1>1 DEF Save, Rec, Details!Rec, Texts
  <2> QED BY <2>1, <2>2, <1>1 DEF Save
<1>3. Details!Rewritten(r) = [rows EXCEPT ![r.id] = x]
  BY DEF Details!Rewritten
<1> HIDE DEF x
<1> QED BY <1>1, <1>2, <1>3 DEF DetailsTypes, Details!List, Rec, x

LEMMA SaveAnswerKeeps ==
    ASSUME DetailsInv, NEW r \in detailsRequests, Details!SaveAnswer(r) PROVE DetailsInv'
<1>1. DetailsTypes /\ Dialog /\ r \in Save \cup Deletion /\ r.id \in Events /\ r.field # "delete"
  BY DEF DetailsInv, DetailsTypes, Save, Deletion, Details!SaveAnswer
<1> DEFINE t == IF tab = Null THEN Null ELSE [tab EXCEPT !.dialog = "none"]
<1>2. /\ r.state = "done" /\ detailsRequests' = detailsRequests \ {r} /\ rows' = Details!Rewritten(r)
      /\ detailsLoading' = IF detailsLoading = Null THEN Null ELSE [detailsLoading EXCEPT !.dropped = TRUE]
      /\ behind' = (behind \/ detailsLoading # Null
                     \/ (server[r.id] # Null /\ server[r.id] # rows'[r.id] /\ announced = 0))
      /\ Details!Show(r.id, page, rows', t)
      /\ UNCHANGED <<server, announced, strayed>>
  BY DEF Details!SaveAnswer
<1>3. rows' \in Details!List /\ (\A e \in Events : e # r.id => rows'[e] = rows[e])
      /\ (rows[r.id] = Null => rows'[r.id] = Null)
  BY <1>1, <1>2, RewrittenRows
<1>4. tab # Null => t \in Details!Tab /\ t.desc = tab.desc /\ t.editing = tab.editing /\ t.orig = tab.orig
  BY <1>1 DEF DetailsTypes, Details!Tab
<1> HIDE DEF t
<1>5. /\ selectedId' \in Events \cup {Null} /\ isOpen' \in BOOLEAN
      /\ page' \in {"snapshot", "tracking_details"} /\ tab' \in Details!Tab \cup {Null}
      /\ Dialog' /\ (TextIsOwn => TextIsOwn')
  BY <1>1, <1>2, <1>3, <1>4, ShowKeeps DEF DetailsTypes
<1>6. detailsLoading' \in Details!Load \cup {Null}
  BY <1>1, <1>2 DEF DetailsTypes, Details!Load
<1>7. DetailsTypes' /\ Dialog' /\ (~strayed' => TextIsOwn')
  BY <1>1, <1>2, <1>3, <1>5, <1>6 DEF DetailsInv, DetailsTypes
<1>8. ~behind' => ListCatchesUp'
  <2> SUFFICES ASSUME ~behind' PROVE ListCatchesUp'
    OBVIOUS
  <2>1. ListCatchesUp /\ detailsLoading = Null /\ detailsLoading' = Null
        /\ (server[r.id] = Null \/ server[r.id] = rows'[r.id] \/ announced # 0)
    BY <1>2 DEF DetailsInv
  <2>2. ASSUME NEW e \in Events PROVE DueGone(e) => DueGone(e)'
    BY <1>1, <1>2 DEF DueGone
  <2>3. ASSUME NEW e \in Events, e # r.id PROVE Due(e) => Due(e)'
    BY <2>3, <1>2 DEF Due
  <2>4. announced # 0 => announced' > 0
    BY <1>1, <1>2 DEF DetailsTypes
  <2>5. ASSUME NEW e \in Events PROVE Agrees(rows, e)'
    <3>1. CASE e # r.id
      BY <3>1, <2>1, <2>2, <2>3, <1>2, <1>3 DEF ListCatchesUp, Agrees
    <3>2. CASE e = r.id /\ announced # 0
      BY <3>2, <2>4 DEF Agrees, Due, DueGone
    <3>3. CASE e = r.id /\ server[e] = Null
      <4>1. rows[e] = Null \/ DueGone(e)
        BY <3>3, <2>1 DEF ListCatchesUp, Agrees
      <4>2. DueGone(e)' => Due(e)'
        BY DEF Due, DueGone
      <4> QED BY <3>3, <4>1, <4>2, <2>2, <1>2, <1>3 DEF Agrees
    <3>4. CASE e = r.id /\ server[e] # Null /\ server[e] = rows'[e]
      BY <3>4, <1>2 DEF Agrees
    <3> QED BY <3>1, <3>2, <3>3, <3>4, <2>1
  <2> QED BY <2>1, <2>5 DEF ListCatchesUp
<1> QED BY <1>7, <1>8 DEF DetailsInv

LEMMA DetailsInvNext == ASSUME DetailsInv, Details!Next PROVE DetailsInv'
<1> USE DEF Details!Next
<1>1. ASSUME NEW e \in Events, NEW p \in {"snapshot", "tracking_details"}, Details!onSelectSearch(e, p)
      PROVE  DetailsInv'
  BY <1>1, SelectKeeps
<1>2. ASSUME NEW e \in Events, Details!handleDelete(e) \/ Details!Generated(e) PROVE DetailsInv'
  BY <1>2, DeleteKeeps, GeneratedKeeps
<1>3. ASSUME NEW p \in {"snapshot", "tracking_details"}, Details!SelectPage(p) PROVE DetailsInv'
  BY <1>3, SelectPageKeeps
<1>4. CASE Details!goToNext \/ Details!handleOpenChange \/ Details!Closed \/ Details!StartEdit \/ Details!Type
  BY <1>4, NextKeeps, OpenChangeKeeps, ClosedKeeps, StartEditKeeps, TypeKeeps
<1>5. CASE Details!CancelEdit \/ Details!OpenSubLabel \/ Details!updateDescription
           \/ Details!handleSubLabelSave \/ Details!regenerateDescription
  BY <1>5, CancelEditKeeps, OpenSubLabelKeeps, SaveKeeps, SubLabelKeeps, RegenerateKeeps
<1>6. CASE Details!wsUpdate \/ Details!ListRead \/ Details!ListAnswer
  BY <1>6, UpdateKeeps, ListReadKeeps, ListAnswerKeeps
<1>7. ASSUME NEW r \in detailsRequests,
             Details!Apply(r) \/ Details!SaveAnswer(r) \/ Details!DeleteAnswer(r) \/ Details!SaveFail(r)
      PROVE  DetailsInv'
  BY <1>7, ApplyKeeps, SaveAnswerKeeps, DeleteAnswerKeeps, SaveFailKeeps
<1> QED BY <1>1, <1>2, <1>3, <1>4, <1>5, <1>6, <1>7

LEMMA DetailsInvOwn ==
    DetailsInv => Details!TypeOK /\ Details!ShownIsOwnElse /\ Details!ListIsCurrent
<1> SUFFICES ASSUME DetailsInv PROVE Details!TypeOK /\ Details!ShownIsOwnElse /\ Details!ListIsCurrent
  OBVIOUS
<1>1. Details!TypeOK
  BY DEF DetailsInv, DetailsTypes, Dialog, Details!TypeOK, Save, Deletion
<1>2. Details!ShownIsOwnElse
  BY DEF DetailsInv, TextIsOwn, Details!ShownIsOwnElse, Details!ShownIsOwn
<1>3. Details!ListIsCurrent
  <2> SUFFICES ASSUME Details!Quiet, ~behind PROVE rows = server
    BY DEF Details!ListIsCurrent
  <2>1. \A e \in Events : rows[e] = server[e]
    BY DEF DetailsInv, ListCatchesUp, Agrees, Due, Details!Quiet
  <2> QED BY <2>1 DEF DetailsInv, DetailsTypes, Details!List
<1> QED BY <1>1, <1>2, <1>3

(***************************************************************************)
(* The pages together                                                      *)
(***************************************************************************)
\* What holds of the page or dialog the user is on.
PagesInv ==
    /\ shown = "review" => ReviewInv /\ ScreenFits
    /\ shown = "exports" => PageInv
    /\ shown = "export" => DialogInv
    /\ shown = "object" => DetailsInv

LEMMA PagesInvInit == Init => PagesInv
  BY ReviewInvInit, ScreenInit, PageInvInit, DialogInvInit, DetailsInvInit DEF Init, PagesInv

LEMMA PagesStay ==
    /\ ReviewInv /\ ScreenFits /\ UNCHANGED reviewVars => ReviewInv' /\ ScreenFits'
    /\ PageInv /\ UNCHANGED exportsVars => PageInv'
    /\ DialogInv /\ UNCHANGED exportVars => DialogInv'
    /\ DetailsInv /\ UNCHANGED detailsVars => DetailsInv'
<1>1. ASSUME ReviewInv, ScreenFits, UNCHANGED reviewVars PROVE ReviewInv' /\ ScreenFits'
  <2>1. selected' \in SUBSET Segs
    BY <1>1 DEF reviewVars, ReviewInv, ReviewTypes
  <2>2. UNCHANGED <<db, list, load, items, severity, posts, doubt>>
    BY <1>1 DEF reviewVars
  <2>3. ScreenFits'
    BY <1>1, <2>2, SameScreen DEF Kept, Deleting, Answered
  <2> QED BY <1>1, <2>1, <2>3, AsideKeeps DEF reviewVars
<1>2. ASSUME PageInv, UNCHANGED exportsVars PROVE PageInv'
  <2>1. selectedExports' \in SUBSET Jobs
    BY <1>2 DEF exportsVars, PageInv, PageTypes
  <2> QED BY <1>2, <2>1, SelectionKeeps DEF exportsVars
<1>3. ASSUME DialogInv, UNCHANGED exportVars PROVE DialogInv'
  <2>1. UNCHANGED <<device, ui, content, fetched, isStartingExport, batches, switched>>
    BY <1>3 DEF exportVars
  <2>2. DialogTypes' /\ SelectedIsSeen' /\ TabOfMode'
    BY <1>3, <2>1 DEF DialogInv, DialogTypes, SelectedIsSeen, TabOfMode, Exports!Mounted
  <2>3. StartedClean'
    BY <1>3, <2>1 DEF DialogInv, StartedClean, Exports!ClosedIsClean
  <2> QED BY <2>2, <2>3 DEF DialogInv
<1>4. ASSUME DetailsInv, UNCHANGED detailsVars PROVE DetailsInv'
  <2>1. UNCHANGED <<server, rows, detailsLoading, selectedId, isOpen, page, closing, tab, detailsRequests,
                    generating, announced, strayed, behind, detailsActs>>
    BY <1>4 DEF detailsVars
  <2>2. DetailsTypes'
    BY <1>4, <2>1 DEF DetailsInv, DetailsTypes
  <2>3. Dialog'
    BY <1>4, <2>1 DEF DetailsInv, Dialog
  <2>4. ~strayed' => TextIsOwn'
    BY <1>4, <2>1 DEF DetailsInv, TextIsOwn
  <2> QED BY <1>4, <2>1, <2>2, <2>3, <2>4 DEF DetailsInv, ListCatchesUp, Agrees, Due, DueGone
<1> QED BY <1>1, <1>2, <1>3, <1>4

LEMMA PagesInvNext == PagesInv /\ [Next]_vars => PagesInv'
<1> SUFFICES ASSUME PagesInv, [Next]_vars PROVE PagesInv'
  OBVIOUS
<1>1. shown' = shown
  BY DEF Next, vars
<1>2. ASSUME shown = "review" PROVE ReviewInv' /\ ScreenFits'
  <2>1. ReviewInv /\ ScreenFits /\ (Review!Next \/ UNCHANGED reviewVars)
    BY <1>2 DEF PagesInv, Next, vars
  <2> QED BY <2>1, ReviewInvNext, ScreenNext, PagesStay
<1>3. ASSUME shown = "exports" PROVE PageInv'
  <2>1. PageInv /\ (Exports!PageNext \/ UNCHANGED exportsVars)
    BY <1>3 DEF PagesInv, Next, vars
  <2> QED BY <2>1, PageInvNext, PagesStay
<1>4. ASSUME shown = "export" PROVE DialogInv'
  <2>1. DialogInv /\ (Exports!DialogNext \/ UNCHANGED exportVars)
    BY <1>4 DEF PagesInv, Next, vars
  <2> QED BY <2>1, DialogInvNext, PagesStay
<1>5. ASSUME shown = "object" PROVE DetailsInv'
  <2>1. DetailsInv /\ (Details!Next \/ UNCHANGED detailsVars)
    BY <1>5 DEF PagesInv, Next, vars
  <2> QED BY <2>1, DetailsInvNext, PagesStay
<1> QED BY <1>1, <1>2, <1>3, <1>4, <1>5 DEF PagesInv

LEMMA PagesInvAlways == Spec => []PagesInv
  BY PagesInvInit, PagesInvNext, PTL DEF Spec

\* Every variable of the page or dialog shown has its type.
THEOREM ReviewPagesTypeCorrect == Spec => []TypeOK
<1>1. PagesInv => TypeOK
  BY ReviewInvOwn, PageInvOwn, DialogInvOwn, DetailsInvOwn DEF PagesInv, TypeOK
<1> QED BY <1>1, PagesInvAlways, PTL

\* The list of reviews is shown or on its way, but for a load the answer of markItemAsReviewed
\* threw away; a listed review is on the server and marked as it is there, and on the screen
\* if it is not reviewed, but for reviews in doubt; and a review the screen lacks is announced,
\* but while one marked on this page lingers: for any number of reviews and of actions.
THEOREM ReviewsAreTrue == Spec => []ReviewsAgree
<1>1. PagesInv => ReviewsAgree
  BY ReviewInvOwn DEF PagesInv, ReviewsAgree
<1> QED BY <1>1, PagesInvAlways, PTL

\* The cards are the exports of the database once nothing is under way, and the export dialog
\* closes clean and chooses the cameras of its range: for any number of jobs and cameras.
THEOREM ExportsAreCards == Spec => []ExportsAgree
<1>1. PagesInv => ExportsAgree
  BY PageInvOwn, DialogInvOwn DEF PagesInv, ExportsAgree
<1> QED BY <1>1, PagesInvAlways, PTL

\* The details shown are of the object shown and the cached list catches up with the server,
\* for any number of tracked objects.
THEOREM DetailsAreOwn == Spec => []DetailsAgree
<1>1. PagesInv => DetailsAgree
  BY DetailsInvOwn DEF PagesInv, DetailsAgree
<1> QED BY <1>1, PagesInvAlways, PTL
=============================================================================
