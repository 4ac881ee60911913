---------------------------- MODULE EditsProofs ----------------------------
(***************************************************************************)
(* Proofs about the collection and application of edits, for any targets,  *)
(* files and texts: every accepted set of edits is pairwise disjoint, no   *)
(* edit is found stale unless another process writes to the replica, the   *)
(* code of a file stays, what is applied is what the targets agree on, a   *)
(* collection is given up exactly if they contradict each other, and what  *)
(* ends on disk is the plan, applied to what the compiler read.            *)
(* The last two rest on what offsets in the normalized text are in the     *)
(* file; the others use only what collect_edits itself checks.             *)
(***************************************************************************)
EXTENDS Edits, SequenceTheorems, WellFoundedInduction, TLAPS

-----------------------------------------------------------------------------
(* Sequences.                                                              *)

\* The characters of a slice.
LEMMA SliceFacts ==
    ASSUME NEW S, NEW t, NEW x \in Nat, NEW y \in Nat,
           \A i \in (x + 1)..y : t[i] \in S
    PROVE  /\ Slice(t, x, y) \in Seq(S)
           /\ Len(Slice(t, x, y)) = IF x <= y THEN y - x ELSE 0
           /\ \A i \in 1..(y - x) : Slice(t, x, y)[i] = t[x + i]
<1>1. x + 1 \in Int /\ y \in Int
  OBVIOUS
<1>2. /\ SubSeq(t, x + 1, y) \in Seq(S)
      /\ Len(SubSeq(t, x + 1, y)) = IF x + 1 <= y THEN y - (x + 1) + 1 ELSE 0
      /\ \A i \in 1..(y - (x + 1) + 1) : SubSeq(t, x + 1, y)[i] = t[(x + 1) + i - 1]
  BY ONLY <1>1, SubSeqProperties, \A i \in (x + 1)..y : t[i] \in S
<1>3. y - (x + 1) + 1 = y - x /\ (x + 1 <= y <=> x < y)
  OBVIOUS
<1>4. \A i \in 1..(y - x) : (x + 1) + i - 1 = x + i
  OBVIOUS
<1> QED BY <1>2, <1>3, <1>4 DEF Slice

\* Texts that begin alike have the same slices there.
LEMMA SamePrefix ==
    ASSUME NEW S, NEW s \in Seq(S), NEW r \in Seq(S), NEW n \in Nat,
           n <= Len(s), n <= Len(r), \A i \in 1..n : r[i] = s[i]
    PROVE  \A x, y \in Nat : x <= y /\ y <= n => Slice(r, x, y) = Slice(s, x, y)
<1> SUFFICES ASSUME NEW x \in Nat, NEW y \in Nat, x <= y, y <= n
             PROVE  Slice(r, x, y) = Slice(s, x, y)
  OBVIOUS
<1>1. \A i \in (x + 1)..y : s[i] \in S
  BY ElementOfSeq
<1>2. \A i \in (x + 1)..y : r[i] = s[i]
  OBVIOUS
<1>3. /\ Slice(s, x, y) \in Seq(S)
      /\ Len(Slice(s, x, y)) = IF x <= y THEN y - x ELSE 0
      /\ \A i \in 1..(y - x) : Slice(s, x, y)[i] = s[x + i]
  BY ONLY <1>1, SliceFacts, x \in Nat, y \in Nat
<1>4. \A i \in (x + 1)..y : r[i] \in S
  BY <1>1, <1>2
<1>5. /\ Slice(r, x, y) \in Seq(S)
      /\ Len(Slice(r, x, y)) = IF x <= y THEN y - x ELSE 0
      /\ \A i \in 1..(y - x) : Slice(r, x, y)[i] = r[x + i]
  BY ONLY <1>4, SliceFacts, x \in Nat, y \in Nat
<1>6. \A i \in 1..(y - x) : x + i \in (x + 1)..y
  OBVIOUS
<1>7. \A i \in 1..Len(Slice(s, x, y)) : Slice(r, x, y)[i] = Slice(s, x, y)[i]
  BY <1>2, <1>3, <1>5, <1>6
<1> QED BY <1>3, <1>5, <1>7, SeqEqual

\* What is prepended to two texts is a prefix.
LEMMA PrefixOfThree ==
    ASSUME NEW S, NEW a \in Seq(S), NEW b \in Seq(S), NEW c \in Seq(S)
    PROVE  /\ (a \o b) \o c \in Seq(S)
           /\ Len(a) <= Len((a \o b) \o c)
           /\ \A i \in 1..Len(a) : ((a \o b) \o c)[i] = a[i]
<1>1. /\ a \o b \in Seq(S)
      /\ Len(a \o b) = Len(a) + Len(b)
      /\ \A i \in 1..(Len(a) + Len(b)) :
            (a \o b)[i] = IF i <= Len(a) THEN a[i] ELSE b[i - Len(a)]
  BY ConcatProperties
<1>2. ASSUME NEW ab \in Seq(S)
      PROVE  /\ ab \o c \in Seq(S)
             /\ Len(ab \o c) = Len(ab) + Len(c)
             /\ \A i \in 1..(Len(ab) + Len(c)) :
                   (ab \o c)[i] = IF i <= Len(ab) THEN ab[i] ELSE c[i - Len(ab)]
  BY ConcatProperties
<1>3. Len(a) \in Nat /\ Len(b) \in Nat /\ Len(c) \in Nat
  BY LenProperties
<1> QED BY <1>1, <1>2, <1>3

\* A text spliced at [start, end] keeps every slice before start.
LEMMA SpliceKeeps ==
    ASSUME NEW S, NEW s \in Seq(S), NEW new \in Seq(S),
           NEW start \in Nat, NEW end \in Nat, start <= end, end <= Len(s)
    PROVE  /\ Splice(s, start, end, new) \in Seq(S)
           /\ \A x, y \in Nat :
                x <= y /\ y <= start =>
                    /\ y <= Len(Splice(s, start, end, new))
                    /\ Slice(Splice(s, start, end, new), x, y) = Slice(s, x, y)
<1>1. \A i \in 1..Len(s) : s[i] \in S
  BY ElementOfSeq
<1>2. Len(s) \in Nat
  BY LenProperties
<1>3. PICK head \in Seq(S) : /\ head = SubSeq(s, 1, start)
                            /\ Len(head) = start
                            /\ \A i \in 1..start : head[i] = s[i]
  <2>1. \A i \in (0 + 1)..start : s[i] \in S
    BY <1>1, <1>2
  <2>2. /\ Slice(s, 0, start) \in Seq(S)
        /\ Len(Slice(s, 0, start)) = start - 0
        /\ \A i \in 1..(start - 0) : Slice(s, 0, start)[i] = s[0 + i]
    BY <2>1, SliceFacts
  <2>3. Slice(s, 0, start) = SubSeq(s, 1, start)
    BY DEF Slice
  <2> QED BY <2>2, <2>3
<1>4. PICK tail \in Seq(S) : tail = SubSeq(s, end + 1, Len(s))
  <2>1. \A i \in (end + 1)..Len(s) : s[i] \in S
    BY <1>1
  <2>2. Slice(s, end, Len(s)) \in Seq(S)
    BY <2>1, <1>2, SliceFacts
  <2> QED BY <2>2 DEF Slice
<1>5. PICK result : result = (head \o new) \o tail
  OBVIOUS
<1>6. Splice(s, start, end, new) = result
  BY <1>3, <1>4, <1>5 DEF Splice
<1>7. /\ result \in Seq(S)
      /\ start <= Len(result)
      /\ \A i \in 1..start : result[i] = s[i]
  <2>1. /\ (head \o new) \o tail \in Seq(S)
        /\ Len(head) <= Len((head \o new) \o tail)
        /\ \A i \in 1..Len(head) : ((head \o new) \o tail)[i] = head[i]
    <3>1. head \in Seq(S) /\ new \in Seq(S) /\ tail \in Seq(S)
      OBVIOUS
    <3> QED BY ONLY <3>1, PrefixOfThree, SMTT(30)
  <2> QED BY <2>1, <1>3, <1>5
<1>8. \A x, y \in Nat : x <= y /\ y <= start => Slice(result, x, y) = Slice(s, x, y)
  <2>1. start <= Len(s)
    BY <1>2
  <2> QED BY <2>1, <1>7, SamePrefix
<1>9. Len(result) \in Nat
  BY <1>7, LenProperties
<1> QED BY <1>6, <1>7, <1>8, <1>9

-----------------------------------------------------------------------------
(* Overlaps.                                                               *)

Apart(d, e) == \/ d.start < e.start /\ d.end <= e.start
               \/ e.start < d.start /\ e.end <= d.start

\* A nonempty set of natural numbers has a least element.
LEMMA LeastExists ==
    ASSUME NEW T, T \subseteq Nat, T # {}
    PROVE  \E m \in T : \A a \in T : m <= a
<1> DEFINE less == OpToRel(<, Nat)
<1>1. IsWellFoundedOn(less, Nat)
  BY NatLessThanWellFounded
<1>2. \A a, b \in Nat : a < b => <<a, b>> \in less
  BY DEF OpToRel
<1> HIDE DEF less
<1>3. PICK m \in T : \A a \in T : ~(<<a, m>> \in less)
  BY <1>1, WFMin
<1>4. \A a \in T : ~(a < m)
  BY <1>2, <1>3
<1> QED BY <1>3, <1>4

\* Among the edits after d there is one with no other between it and d.
LEMMA NextExists ==
    ASSUME NEW E, \A x \in E : x.start \in Nat /\ x.end \in Nat,
           NEW d \in E, NEW e \in E, Before(d, e)
    PROVE  \E m \in E : Consecutive(d, m, E) /\ m.start <= e.start
<1> DEFINE later == {x \in E : Before(d, x)}
           starts == {x.start : x \in later}
<1>1. PICK first \in starts : \A a \in starts : first <= a
  <2>1. starts \subseteq Nat /\ starts # {}
    OBVIOUS
  <2> HIDE DEF starts
  <2> QED BY <2>1, LeastExists
<1>2. \A x \in later : first <= x.start
  BY <1>1
<1> DEFINE ends == {x.end : x \in {z \in later : z.start = first}}
<1>3. PICK last \in ends : \A a \in ends : last <= a
  <2>1. ends \subseteq Nat /\ ends # {}
    BY <1>1
  <2> HIDE DEF ends
  <2> QED BY <2>1, LeastExists
<1>4. PICK m \in later : m.start = first /\ m.end = last
  BY <1>3
<1>5. \A x \in later : x.start = first => last <= x.end
  BY <1>3
<1>6. \A x \in later : ~Before(x, m)
  BY <1>2, <1>4, <1>5 DEF Before
<1>7. Consecutive(d, m, E)
  BY <1>4, <1>6 DEF Consecutive
<1>8. m.start <= e.start
  BY <1>2, <1>4
<1> QED BY <1>4, <1>7, <1>8

\* Comparing each edit with the next one in the order of spans is enough: no
\* two edits of a file overlap, and none begins where another begins.
LEMMA NeighboursSuffice ==
    ASSUME NEW E, \A x \in E : x.start \in Nat /\ x.end \in Nat /\ x.start <= x.end,
           ~Overlapping(E),
           NEW d \in E, NEW e \in E, d.start # e.start \/ d.end # e.end
    PROVE  Apart(d, e)
<1>1. ASSUME NEW x \in E, NEW y \in E, Before(x, y)
      PROVE  x.start < y.start /\ x.end <= y.start
  <2>1. PICK m \in E : Consecutive(x, m, E) /\ m.start <= y.start
    BY <1>1, NextExists
  <2>2. x.end <= m.start /\ x.start # m.start
    BY <2>1 DEF Overlapping, Clash
  <2> QED BY <2>1, <2>2
<1>2. Before(d, e) \/ Before(e, d)
  BY DEF Before
<1> QED BY <1>1, <1>2 DEF Apart

-----------------------------------------------------------------------------
(* The invariant.                                                          *)

Sane(e, text) == /\ e.start <= e.end /\ e.end <= Len(text)
                 /\ e.before = Slice(text, e.start, e.end)

\* What the collected edits found, and that they still find it.
Untouched == /\ \A f \in Files \ written : disk[f] = orig[f]
             /\ \A e \in edits : Sane(e, orig[e.file])
             /\ phase = "splice" => \A e \in todo : Sane(e, data)

OneForSpan == \A d, e \in edits : Same(d, e) => d = e
Ordered == \A e \in edits : e.start <= e.end
Disjoint == phase \in {"apply", "splice", "stale", "done"} =>
               \A d, e \in edits : d.file = e.file /\ d # e => Apart(d, e)
Begun == /\ phase = "collect" => written = {}
         /\ phase = "splice" => file \notin written

IInv == /\ TypeOK
        /\ ~touched => Untouched
        /\ OneForSpan /\ Ordered /\ Disjoint /\ Begun
        /\ NeverStale

\* Whitespace is text.
LEMMA TriviaIsText == \A s \in Seq(Trivia) : s \in Seq(Char)
  BY CharAssumption, SeqMonotonic

\* An item belongs to the file it is found in.
LEMMA ItemFacts ==
    ASSUME NEW f \in Files, NEW i \in Items(f)
    PROVE  i.file = f /\ i.fix \in BOOLEAN
<1>1. CASE Readable(orig[f])
  BY <1>1 DEF Items
<1>2. CASE ~Readable(orig[f])
  BY <1>2 DEF Items
<1> QED BY <1>1, <1>2

LEMMA InitInv == Init => IInv
<1> SUFFICES ASSUME Init PROVE IInv
  OBVIOUS
<1>1. TypeOK
  <2>1. orig \in [Files -> Seq(Char)] /\ disk = orig
    BY TextAssumption DEF Init
  <2>2. <<>> \in Seq(Char)
    BY EmptySeq
  <2>3. findings \in [DOMAIN findings -> BOOLEAN]
    <3>1. findings = <<>>
      BY DEF Init
    <3>2. findings \in Seq(BOOLEAN) /\ Len(findings) = 0
      BY <3>1, EmptySeq
    <3> QED BY <3>2
  <2> QED BY <2>1, <2>2, <2>3 DEF Init, TypeOK
<1>2. Untouched
  BY DEF Init, Untouched
<1> QED BY <1>1, <1>2 DEF Init, IInv, OneForSpan, Ordered, Disjoint, Begun, NeverStale

\* A target reports a finding, and its suggestion is collected or rejected.
LEMMA ReportInv ==
    ASSUME IInv, NEW t \in Targets, NEW f \in Files, NEW i \in Items(f), Report(t, i)
    PROVE  IInv'
<1> USE DEF IInv
<1>1. i.file \in Files /\ i.fix \in BOOLEAN
  BY ItemFacts
<1>2. findings' \in [DOMAIN findings' -> BOOLEAN]
  <2>1. findings' = Merge(i) /\ findings \in [DOMAIN findings -> BOOLEAN]
    BY DEF Report, TypeOK
  <2> DEFINE keys == DOMAIN findings \cup {Key(i)}
             value(k) == IF k # Key(i) THEN findings[k]
                         ELSE i.fix /\ (k \in DOMAIN findings => findings[k])
  <2>2. \A k \in keys : value(k) \in BOOLEAN
    BY <2>1, <1>1
  <2>3. findings' = [k \in keys |-> value(k)]
    BY <2>1 DEF Merge
  <2> HIDE DEF keys, value
  <2> QED BY <2>2, <2>3
<1>3. CASE UNCHANGED edits /\ phase' \in {"collect", "rejected"}
  <2>1. phase = "collect" /\ ~(phase' \in {"apply", "splice", "stale", "done"})
    BY <1>3 DEF Report
  <2>2. TypeOK'
    BY <1>2, <1>3 DEF Report, TypeOK, Edit
  <2>3. (~touched => Untouched)'
    BY <1>3 DEF Report, Untouched, Sane
  <2>4. OneForSpan' /\ Ordered' /\ Disjoint' /\ Begun' /\ NeverStale'
    BY <2>1, <1>3 DEF Report, OneForSpan, Ordered, Disjoint, Begun, NeverStale, Same
  <2> QED BY <2>2, <2>3, <2>4
<1>4. CASE i.fix /\ InRange(i) /\ Acceptable(EditOf(i)) /\ edits' = Insert(EditOf(i))
           /\ UNCHANGED phase
  <2> DEFINE e == EditOf(i)
  <2>1. /\ e.file = i.file
        /\ e.start \in Nat /\ e.end \in Nat /\ e.start <= e.end
        /\ e.end <= Len(disk[i.file])
        /\ e.before = Slice(disk[i.file], e.start, e.end)
    <3>1. e.file = i.file /\ e.start = Span(i).start /\ e.end = Span(i).end
      BY DEF EditOf
    <3>2. Len(disk[i.file]) \in Nat
      BY <1>1, LenProperties DEF TypeOK
    <3>3. e.before = Slice(disk[i.file], e.start, e.end)
      BY DEF EditOf
    <3> QED BY <1>4, <3>1, <3>2, <3>3 DEF InRange
  <2>2. /\ e.before \in Seq(Trivia) /\ e.after \in Seq(Trivia)
        /\ \A d \in edits : Same(d, e) => d = e
    BY <1>4 DEF Acceptable
  <2>3. e \in Edit
    <3>1. e = [file |-> e.file, start |-> e.start, end |-> e.end,
               before |-> e.before, after |-> e.after]
      BY DEF EditOf
    <3> HIDE DEF e
    <3> QED BY <3>1, <1>1, <2>1, <2>2 DEF Edit
  <2>4. edits' \subseteq edits \cup {e} /\ phase' = "collect" /\ written = {} /\ phase = "collect"
    BY <1>4 DEF Insert, Report, Begun
  <2> HIDE DEF e
  <2>5. TypeOK'
    <3>1. edits' \subseteq Edit
      BY <2>3, <2>4 DEF TypeOK
    <3>2. todo' \subseteq edits'
      <4>1. \A d \in edits : d \in edits'
        BY <1>4, <2>2 DEF Insert, e
      <4> QED BY <4>1 DEF Report, TypeOK
    <3> QED BY <1>2, <2>4, <3>1, <3>2 DEF Report, TypeOK
  <2>6. (~touched => Untouched)'
    <3>1. ASSUME ~touched PROVE Sane(e, orig[e.file])
      BY <3>1, <2>1, <2>4, <1>1 DEF Untouched, Sane
    <3> QED BY <3>1, <2>4 DEF Report, Untouched
  <2>7. OneForSpan'
    BY <2>2, <2>4 DEF OneForSpan, Same
  <2>8. Ordered'
    BY <2>1, <2>4 DEF Ordered
  <2>9. Disjoint' /\ Begun' /\ NeverStale'
    BY <2>4 DEF Report, Disjoint, Begun, NeverStale
  <2> QED BY <2>5, <2>6, <2>7, <2>8, <2>9
<1>5. CASE ~i.fix
  BY <1>3, <1>5 DEF Report
<1>6. CASE i.fix
  BY <1>3, <1>4, <1>6 DEF Report
<1> QED BY <1>1, <1>5, <1>6

\* Every file's edits have passed the overlap check when application begins.
LEMMA CollectEndInv == ASSUME IInv, CollectEnd PROVE IInv'
<1> USE DEF IInv
<1>1. phase' \in {"rejected", "refused", "apply"} /\ written = {}
  BY DEF CollectEnd, Begun
<1>2. TypeOK'
  BY <1>1 DEF CollectEnd, TypeOK, Edit
<1>3. (~touched => Untouched)'
  BY <1>1 DEF CollectEnd, Untouched, Sane
<1>4. Disjoint'
  <2> SUFFICES ASSUME phase' = "apply", NEW d \in edits, NEW e \in edits,
                      d.file = e.file, d # e
               PROVE  Apart(d, e)
    BY <1>1 DEF CollectEnd, Disjoint, Apart
  <2>1. d.file \in Files
    BY DEF TypeOK, Edit
  <2>2. ~Overlapping(EditsOf(d.file))
    BY <2>1 DEF CollectEnd
  <2>3. \A x \in EditsOf(d.file) : x.start \in Nat /\ x.end \in Nat /\ x.start <= x.end
    BY DEF TypeOK, Edit, EditsOf, Ordered
  <2>4. d \in EditsOf(d.file) /\ e \in EditsOf(d.file)
    BY DEF EditsOf
  <2>5. d.start # e.start \/ d.end # e.end
    BY DEF OneForSpan, Same
  <2> QED BY <2>2, <2>3, <2>4, <2>5, NeighboursSuffice
<1>5. OneForSpan' /\ Ordered' /\ Begun' /\ NeverStale'
  BY <1>1 DEF CollectEnd, OneForSpan, Ordered, Begun, NeverStale, Same
<1> QED BY <1>2, <1>3, <1>4, <1>5

\* A file is read before it is written, with all its edits still due.
LEMMA OpenFileInv == ASSUME IInv, NEW f \in Files, OpenFile(f) PROVE IInv'
<1> USE DEF IInv
<1>1. TypeOK'
  BY DEF OpenFile, TypeOK, EditsOf, Edit
<1>2. (~touched => Untouched)'
  <2>1. ASSUME ~touched, NEW e \in todo' PROVE Sane(e, data')
    <3>1. e \in edits /\ e.file = f /\ data' = disk[f] /\ f \notin written
      BY <2>1 DEF OpenFile, EditsOf
    <3> QED BY <3>1, <2>1 DEF Untouched
  <2> QED BY <2>1 DEF OpenFile, Untouched, Sane
<1>3. OneForSpan' /\ Ordered' /\ Disjoint' /\ Begun' /\ NeverStale'
  BY DEF OpenFile, OneForSpan, Ordered, Disjoint, Begun, NeverStale, Same, Apart
<1> QED BY <1>1, <1>2, <1>3

\* The edit with the greatest start is spliced, and the edits before it still
\* find what they found.
LEMMA SpliceEditInv == ASSUME IInv, NEW e \in todo, SpliceEdit(e) PROVE IInv'
<1> USE DEF IInv
<1>1. /\ e \in edits /\ e.start \in Nat /\ e.end \in Nat /\ e.start <= e.end
      /\ e.before \in Seq(Char) /\ e.after \in Seq(Char)
      /\ data \in Seq(Char) /\ Len(data) \in Nat
  BY TriviaIsText, LenProperties DEF TypeOK, Edit, Ordered
<1>2. CASE Stale(e)
  <2>1. phase = "splice" /\ phase' = "stale" /\ UNCHANGED <<data, todo>>
    BY <1>2 DEF SpliceEdit
  <2>2. ~touched => Sane(e, data)
    BY <2>1 DEF Untouched
  <2>3. touched
    BY <1>1, <1>2, <2>2 DEF Sane, Stale
  <2>4. TypeOK' /\ touched'
    BY <2>1, <2>3 DEF SpliceEdit, TypeOK, Edit
  <2> QED BY <2>1, <2>4
        DEF SpliceEdit, OneForSpan, Ordered, Disjoint, Begun, NeverStale, Same, Apart
<1>3. CASE ~Stale(e)
  <2>1. /\ phase = "splice" /\ phase' = "splice" /\ todo' = todo \ {e}
        /\ data' = Splice(data, e.start, e.end, e.after)
        /\ e.end <= Len(data)
    BY <1>1, <1>3 DEF SpliceEdit, Stale
  <2>2. /\ Splice(data, e.start, e.end, e.after) \in Seq(Char)
        /\ \A x, y \in Nat :
              x <= y /\ y <= e.start =>
                 /\ y <= Len(Splice(data, e.start, e.end, e.after))
                 /\ Slice(Splice(data, e.start, e.end, e.after), x, y) = Slice(data, x, y)
    BY <1>1, <2>1, SpliceKeeps
  <2>3. TypeOK'
    BY <2>1, <2>2 DEF SpliceEdit, TypeOK, Edit
  <2>4. ASSUME ~touched, NEW d \in todo' PROVE Sane(d, data')
    <3>1. d \in todo /\ d # e /\ d \in edits /\ d.file = e.file
      BY <2>1, <2>4 DEF TypeOK
    <3>2. d.start <= e.start /\ d.start \in Nat /\ d.end \in Nat /\ d.start <= d.end
      BY <3>1 DEF SpliceEdit, IsNext, TypeOK, Edit, Ordered
    <3>3. d.end <= e.start
      BY <1>1, <2>1, <3>1, <3>2 DEF Disjoint, Apart
    <3>4. Sane(d, data)
      BY <2>1, <2>4, <3>1 DEF Untouched
    <3> QED BY <2>1, <2>2, <3>2, <3>3, <3>4 DEF Sane
  <2>5. (~touched => Untouched)'
    BY <2>1, <2>4 DEF SpliceEdit, Untouched, Sane
  <2>6. OneForSpan' /\ Ordered' /\ Disjoint' /\ Begun' /\ NeverStale'
    BY <2>1 DEF SpliceEdit, OneForSpan, Ordered, Disjoint, Begun, NeverStale, Same, Apart
  <2> QED BY <2>3, <2>5, <2>6
<1> QED BY <1>2, <1>3

LEMMA WriteFileInv == ASSUME IInv, WriteFile PROVE IInv'
<1> USE DEF IInv
<1>1. TypeOK'
  BY DEF WriteFile, TypeOK, Edit
<1>2. (~touched => Untouched)'
  BY DEF WriteFile, Untouched, Sane, TypeOK
<1>3. OneForSpan' /\ Ordered' /\ Disjoint' /\ Begun' /\ NeverStale'
  BY DEF WriteFile, OneForSpan, Ordered, Disjoint, Begun, NeverStale, Same, Apart
<1> QED BY <1>1, <1>2, <1>3

LEMMA ApplyEndInv == ASSUME IInv, ApplyEnd PROVE IInv'
<1> USE DEF IInv
<1>1. TypeOK'
  BY DEF ApplyEnd, TypeOK, Edit
<1>2. (~touched => Untouched)'
  BY DEF ApplyEnd, Untouched, Sane
<1>3. OneForSpan' /\ Ordered' /\ Disjoint' /\ Begun' /\ NeverStale'
  BY DEF ApplyEnd, OneForSpan, Ordered, Disjoint, Begun, NeverStale, Same, Apart
<1> QED BY <1>1, <1>2, <1>3

LEMMA LateWriteInv == ASSUME IInv, NEW f \in Files, LateWrite(f) PROVE IInv'
<1> USE DEF IInv
<1>1. PICK text \in Late : disk' = [disk EXCEPT ![f] = text]
  BY DEF LateWrite
<1>2. TypeOK'
  BY <1>1, TextAssumption DEF LateWrite, TypeOK, Edit
<1>3. touched' = TRUE
  BY DEF LateWrite
<1>4. OneForSpan' /\ Ordered' /\ Disjoint' /\ Begun' /\ NeverStale'
  BY <1>3 DEF LateWrite, OneForSpan, Ordered, Disjoint, Begun, NeverStale, Same, Apart
<1> QED BY <1>2, <1>3, <1>4

LEMMA StutterInv == ASSUME IInv, UNCHANGED vars PROVE IInv'
  BY DEF IInv, vars, TypeOK, Edit, Untouched, Sane, OneForSpan, Ordered, Disjoint,
         Begun, NeverStale, Same, Apart

LEMMA Invariance == Spec => []IInv
<1>1. ASSUME IInv, [Next]_vars PROVE IInv'
  <2>1. ASSUME NEW t \in Targets, NEW f \in Files, NEW i \in Items(f), Report(t, i)
        PROVE  IInv'
    BY <1>1, <2>1, ReportInv
  <2>2. CASE CollectEnd
    BY <1>1, <2>2, CollectEndInv
  <2>3. ASSUME NEW f \in Files, OpenFile(f) PROVE IInv'
    BY <1>1, <2>3, OpenFileInv
  <2>4. ASSUME NEW e \in todo, SpliceEdit(e) PROVE IInv'
    BY <1>1, <2>4, SpliceEditInv
  <2>5. CASE WriteFile
    BY <1>1, <2>5, WriteFileInv
  <2>6. CASE ApplyEnd
    BY <1>1, <2>6, ApplyEndInv
  <2>7. ASSUME NEW f \in Files, LateWrite(f) PROVE IInv'
    BY <1>1, <2>7, LateWriteInv
  <2>8. CASE Over \/ UNCHANGED vars
    BY <1>1, <2>8, StutterInv DEF Over
  <2> QED BY <1>1, <2>1, <2>2, <2>3, <2>4, <2>5, <2>6, <2>7, <2>8 DEF Next
<1> QED BY <1>1, InitInv, PTL DEF Spec

-----------------------------------------------------------------------------
(* The theorems.                                                           *)

\* Every collected edit is a whitespace replacement with a span in its file,
\* and the file in work holds text, whatever targets report and others write.
THEOREM TypeCorrect == Spec => []TypeOK
<1>1. IInv => TypeOK
  BY DEF IInv
<1> QED BY <1>1, Invariance, PTL

\* collect_edits compares neighbours only, and still no two edits that reach
\* apply touch one byte or one insertion point of a file.
THEOREM AcceptedEditsAreDisjoint == Spec => []Disjoint
<1>1. IInv => Disjoint
  BY DEF IInv
<1> QED BY <1>1, Invariance, PTL

\* Applied from the end of the file to its start, edits with the offsets of
\* the text that was linted all find the bytes they replace; apply reports
\* "stale suggestion" only if somebody else has written to the replica.
THEOREM EditsStayFresh == Spec => []NeverStale
<1>1. IInv => NeverStale
  BY DEF IInv
<1> QED BY <1>1, Invariance, PTL

-----------------------------------------------------------------------------
(* The code of a text.                                                     *)

\* Induction over numbers, for a set of them.
LEMMA SetInduction ==
    ASSUME NEW T, T \subseteq Nat, 0 \in T, \A n \in T : n + 1 \in T
    PROVE  T = Nat
<1> SUFFICES ASSUME Nat \ T # {} PROVE FALSE
  OBVIOUS
<1>1. PICK m \in Nat \ T : \A a \in Nat \ T : m <= a
  BY LeastExists
<1>2. m - 1 \in Nat /\ m - 1 \in T
  BY <1>1
<1> QED BY <1>1, <1>2

\* c[n] is the code of the first n characters of s, for all n up to m.
Counts(s, m, c) ==
    /\ c[0] = <<>>
    /\ \A n \in 1..m :
          c[n] = IF s[n] \in Trivia THEN c[n - 1] ELSE Append(c[n - 1], s[n])

\* The equation that defines Gather.
GatherBody(x, picked, m, c) ==
    [n \in 0..m |-> IF n = 0 THEN <<>>
                    ELSE IF n \in picked THEN Append(c[n - 1], x[n]) ELSE c[n - 1]]

LEMMA GatherExists ==
    ASSUME NEW x, NEW picked, NEW m \in Nat
    PROVE  \E c : c = GatherBody(x, picked, m, c)
<1> DEFINE body(c, k) == [n \in 0..k |->
                            IF n = 0 THEN <<>>
                            ELSE IF n \in picked THEN Append(c[n - 1], x[n]) ELSE c[n - 1]]
           good == {k \in Nat : \E c : c = body(c, k)}
<1>1. 0 \in good
  <2> DEFINE e == [n \in 0..0 |-> <<>>]
  <2>1. e = body(e, 0)
    OBVIOUS
  <2> QED BY <2>1
<1>2. ASSUME NEW k \in good PROVE k + 1 \in good
  <2>1. PICK c : c = body(c, k)
    BY <1>2
  <2> DEFINE d == [n \in 0..(k + 1) |->
                     IF n <= k THEN c[n]
                     ELSE IF n \in picked THEN Append(c[n - 1], x[n]) ELSE c[n - 1]]
  <2>2. \A n \in 0..k : d[n] = c[n]
    OBVIOUS
  <2>3. \A n \in 0..(k + 1) : n # 0 => n - 1 \in 0..k
    OBVIOUS
  <2>4. \A n \in 0..k : c[n] = IF n = 0 THEN <<>>
                               ELSE IF n \in picked THEN Append(c[n - 1], x[n])
                               ELSE c[n - 1]
    BY <2>1
  <2>5. \A n \in 0..(k + 1) : d[n] = IF n = 0 THEN <<>>
                                     ELSE IF n \in picked THEN Append(d[n - 1], x[n])
                                     ELSE d[n - 1]
    <3> SUFFICES ASSUME NEW n \in 0..(k + 1)
                 PROVE  d[n] = IF n = 0 THEN <<>>
                               ELSE IF n \in picked THEN Append(d[n - 1], x[n])
                               ELSE d[n - 1]
      OBVIOUS
    <3>1. n # 0 => d[n - 1] = c[n - 1]
      BY <2>2, <2>3
    <3>2. d[n] = IF n <= k THEN c[n]
                 ELSE IF n \in picked THEN Append(c[n - 1], x[n]) ELSE c[n - 1]
      OBVIOUS
    <3>3. n <= k => n \in 0..k
      OBVIOUS
    <3> HIDE DEF d
    <3> QED BY <3>1, <3>2, <3>3, <2>4
  <2>6. d = body(d, k + 1)
    <3>1. d = [n \in 0..(k + 1) |-> d[n]]
      OBVIOUS
    <3> HIDE DEF d
    <3> QED BY <3>1, <2>5
  <2>7. k \in Nat
    BY <1>2
  <2>8. \E e : e = body(e, k + 1)
    <3> HIDE DEF d, body
    <3> QED BY <2>6
  <2> HIDE DEF d, body
  <2> QED BY <2>7, <2>8
<1>3. good = Nat
  <2> HIDE DEF good
  <2>1. good \subseteq Nat
    BY DEF good
  <2> QED BY <1>1, <1>2, <2>1, SetInduction
<1> QED BY <1>3 DEF GatherBody

\* c[n] is gathered from the first n positions, for all n up to m.
Gathers(x, picked, m, c) ==
    /\ c[0] = <<>>
    /\ \A n \in 1..m : c[n] = IF n \in picked THEN Append(c[n - 1], x[n]) ELSE c[n - 1]

\* What the definition of Gather computes on the way.
LEMMA GatherSteps ==
    ASSUME NEW x, NEW picked, NEW m \in Nat
    PROVE  \E c : Gathers(x, picked, m, c) /\ c[m] = Gather(x, picked, m)
<1> DEFINE c == CHOOSE d : d = GatherBody(x, picked, m, d)
<1>1. c = GatherBody(x, picked, m, c)
  <2>1. \E d : d = GatherBody(x, picked, m, d)
    BY GatherExists
  <2> QED BY <2>1
<1>2. Gather(x, picked, m) = c[m]
  BY DEF Gather, GatherBody
<1> HIDE DEF c
<1>3. \A n \in 0..m : GatherBody(x, picked, m, c)[n]
                          = IF n = 0 THEN <<>>
                            ELSE IF n \in picked THEN Append(c[n - 1], x[n])
                            ELSE c[n - 1]
  BY DEF GatherBody
<1>4. \A n \in 0..m : c[n] = IF n = 0 THEN <<>>
                             ELSE IF n \in picked THEN Append(c[n - 1], x[n])
                             ELSE c[n - 1]
  BY <1>1, <1>3
<1>5. 0 \in 0..m /\ \A n \in 1..m : n \in 0..m /\ n # 0
  OBVIOUS
<1>6. Gathers(x, picked, m, c)
  BY <1>4, <1>5 DEF Gathers
<1> QED BY <1>2, <1>6

LEMMA CodeCounts ==
    ASSUME NEW S, NEW s \in Seq(S)
    PROVE  \E c : /\ Counts(s, Len(s), c)
                  /\ c[Len(s)] = Code(s)
                  /\ \A n \in 0..Len(s) : c[n] \in Seq(S)
<1> DEFINE code == {n \in 1..Len(s) : s[n] \notin Trivia}
<1>1. Len(s) \in Nat
  BY LenProperties
<1>2. PICK c : Gathers(s, code, Len(s), c) /\ c[Len(s)] = Gather(s, code, Len(s))
  BY <1>1, GatherSteps
<1>3. Code(s) = c[Len(s)]
  BY <1>2 DEF Code
<1>4. Counts(s, Len(s), c)
  <2>1. \A n \in 1..Len(s) : n \in code <=> s[n] \notin Trivia
    OBVIOUS
  <2> HIDE DEF code
  <2> QED BY <1>2, <2>1 DEF Counts, Gathers
<1> DEFINE typed == {n \in Nat : n <= Len(s) => c[n] \in Seq(S)}
<1>5. 0 \in typed
  BY <1>4, EmptySeq DEF Counts
<1>6. ASSUME NEW n \in typed PROVE n + 1 \in typed
  <2> SUFFICES ASSUME n + 1 <= Len(s) PROVE c[n + 1] \in Seq(S)
    OBVIOUS
  <2>1. n + 1 \in 1..Len(s) /\ (n + 1) - 1 = n /\ c[n] \in Seq(S)
    BY <1>1, <1>6
  <2>2. c[n + 1] = IF s[n + 1] \in Trivia THEN c[n] ELSE Append(c[n], s[n + 1])
    BY <1>4, <2>1 DEF Counts
  <2>3. s[n + 1] \in S
    BY <2>1, ElementOfSeq
  <2> QED BY <2>1, <2>2, <2>3, AppendProperties
<1>7. typed = Nat
  <2>1. typed \subseteq Nat
    OBVIOUS
  <2> HIDE DEF typed
  <2> QED BY <1>5, <1>6, <2>1, SetInduction
<1>8. \A n \in 0..Len(s) : c[n] \in Seq(S)
  BY <1>7, <1>1
<1> QED BY <1>3, <1>4, <1>8

\* Nothing else counts as the code of a text.
LEMMA CodeIs ==
    ASSUME NEW S, NEW s \in Seq(S), NEW c, Counts(s, Len(s), c)
    PROVE  Code(s) = c[Len(s)]
<1>1. PICK d : Counts(s, Len(s), d) /\ d[Len(s)] = Code(s)
  BY CodeCounts
<1>2. Len(s) \in Nat
  BY LenProperties
<1> DEFINE same == {n \in Nat : n <= Len(s) => c[n] = d[n]}
<1>3. 0 \in same
  BY <1>1 DEF Counts
<1>4. ASSUME NEW n \in same PROVE n + 1 \in same
  <2> SUFFICES ASSUME n + 1 <= Len(s) PROVE c[n + 1] = d[n + 1]
    OBVIOUS
  <2>1. n + 1 \in 1..Len(s) /\ (n + 1) - 1 = n /\ c[n] = d[n]
    BY <1>2, <1>4
  <2> QED BY <1>1, <2>1 DEF Counts
<1>5. same = Nat
  <2>1. same \subseteq Nat
    OBVIOUS
  <2> HIDE DEF same
  <2> QED BY <1>3, <1>4, <2>1, SetInduction
<1> QED BY <1>1, <1>2, <1>5

\* What is appended to the second of two texts is appended to both.
LEMMA ConcatAppend ==
    ASSUME NEW S, NEW a \in Seq(S), NEW b \in Seq(S), NEW x \in S
    PROVE  a \o Append(b, x) = Append(a \o b, x)
<1>1. Append(b, x) = b \o <<x>>
  BY AppendIsConcat
<1>2. a \o b \in Seq(S)
  BY ConcatProperties
<1>3. Append(a \o b, x) = (a \o b) \o <<x>>
  BY <1>2, AppendIsConcat
<1>4. PICK last \in Seq(S) : last = <<x>>
  <2>1. <<x>> \in Seq(S)
    <3>1. <<>> \in Seq(S)
      BY EmptySeq
    <3>2. Append(<<>>, x) \in Seq(S)
      BY <3>1, AppendProperties
    <3> QED BY <3>2
  <2> QED BY <2>1
<1>5. (a \o b) \o last = a \o (b \o last)
  BY ConcatAssociative
<1> QED BY <1>1, <1>3, <1>4, <1>5

\* The code of two texts in a row.
LEMMA CodeOfConcat ==
    ASSUME NEW S, NEW s \in Seq(S), NEW t \in Seq(S)
    PROVE  Code(s \o t) = Code(s) \o Code(t)
<1>1. PICK c : /\ Counts(s, Len(s), c) /\ c[Len(s)] = Code(s)
               /\ \A n \in 0..Len(s) : c[n] \in Seq(S)
  BY CodeCounts
<1>2. PICK d : /\ Counts(t, Len(t), d) /\ d[Len(t)] = Code(t)
               /\ \A n \in 0..Len(t) : d[n] \in Seq(S)
  BY CodeCounts
<1>3. Len(s) \in Nat /\ Len(t) \in Nat
  BY LenProperties
<1>4. /\ s \o t \in Seq(S) /\ Len(s \o t) = Len(s) + Len(t)
      /\ \A n \in 1..(Len(s) + Len(t)) :
            (s \o t)[n] = IF n <= Len(s) THEN s[n] ELSE t[n - Len(s)]
  BY ConcatProperties
<1>5. Code(s) \in Seq(S)
  BY <1>1, <1>3
<1> DEFINE both == [n \in 0..(Len(s) + Len(t)) |->
                      IF n <= Len(s) THEN c[n] ELSE Code(s) \o d[n - Len(s)]]
<1>6. both[0] = <<>>
  BY <1>1, <1>3 DEF Counts
<1>7. \A n \in 0..Len(s) : both[n] = c[n]
  BY <1>3
<1>8. \A n \in 0..Len(t) : both[Len(s) + n] = Code(s) \o d[n]
  <2> SUFFICES ASSUME NEW n \in 0..Len(t) PROVE both[Len(s) + n] = Code(s) \o d[n]
    OBVIOUS
  <2>1. CASE n = 0
    <3>1. both[Len(s) + n] = Code(s) /\ d[n] = <<>>
      BY <2>1, <1>1, <1>2, <1>3, <1>7 DEF Counts
    <3> QED BY <3>1, <1>5, ConcatEmptySeq
  <2>2. CASE n # 0
    <3>1. /\ Len(s) + n \in 0..(Len(s) + Len(t)) /\ ~(Len(s) + n <= Len(s))
          /\ (Len(s) + n) - Len(s) = n
      BY <2>2, <1>3
    <3> QED BY <3>1
  <2> QED BY <2>1, <2>2
<1> HIDE DEF both
<1>9. ASSUME NEW n \in 1..(Len(s) + Len(t))
      PROVE  both[n] = IF (s \o t)[n] \in Trivia THEN both[n - 1]
                       ELSE Append(both[n - 1], (s \o t)[n])
  <2>1. CASE n <= Len(s)
    <3>1. n \in 1..Len(s) /\ n \in 0..Len(s) /\ n - 1 \in 0..Len(s)
      BY <2>1, <1>3
    <3>2. (s \o t)[n] = s[n]
      BY <2>1, <1>4
    <3> QED BY <3>1, <3>2, <1>1, <1>7 DEF Counts
  <2>2. CASE ~(n <= Len(s))
    <3>1. PICK m \in 1..Len(t) : n = Len(s) + m
      <4>1. n - Len(s) \in 1..Len(t) /\ n = Len(s) + (n - Len(s))
        BY <2>2, <1>3
      <4> QED BY <4>1
    <3>2. m \in 0..Len(t) /\ m - 1 \in 0..Len(t) /\ n - 1 = Len(s) + (m - 1) /\ n - Len(s) = m
      BY <3>1, <1>3
    <3>3. (s \o t)[n] = t[m]
      BY <2>2, <3>2, <1>4
    <3>4. both[n] = Code(s) \o d[m] /\ both[n - 1] = Code(s) \o d[m - 1]
      BY <3>1, <3>2, <1>8
    <3>5. d[m] = IF t[m] \in Trivia THEN d[m - 1] ELSE Append(d[m - 1], t[m])
      BY <1>2, <3>1 DEF Counts
    <3>6. d[m - 1] \in Seq(S) /\ t[m] \in S
      BY <1>2, <3>1, <3>2, ElementOfSeq
    <3>7. \A a, b \in Seq(S) : \A x \in S : a \o Append(b, x) = Append(a \o b, x)
      BY ConcatAppend
    <3>8. Code(s) \o Append(d[m - 1], t[m]) = Append(Code(s) \o d[m - 1], t[m])
      BY ONLY <1>5, <3>6, <3>7
    <3> QED BY <3>3, <3>4, <3>5, <3>8
  <2> QED BY <2>1, <2>2
<1>10. Counts(s \o t, Len(s \o t), both)
  BY <1>4, <1>6, <1>9 DEF Counts
<1>11. Code(s \o t) = both[Len(s) + Len(t)]
  BY <1>4, <1>10, CodeIs
<1>12. Len(t) \in 0..Len(t)
  BY <1>3
<1>13. both[Len(s) + Len(t)] = Code(s) \o d[Len(t)]
  BY <1>8, <1>12
<1> QED BY <1>2, <1>11, <1>13

\* Whitespace has no code.
LEMMA CodeOfTrivia ==
    ASSUME NEW s \in Seq(Trivia)
    PROVE  Code(s) = <<>>
<1> DEFINE none == [n \in 0..Len(s) |-> <<>>]
<1>1. Len(s) \in Nat
  BY LenProperties
<1>2. \A n \in 1..Len(s) : s[n] \in Trivia
  BY ElementOfSeq
<1>3. Counts(s, Len(s), none)
  BY <1>1, <1>2 DEF Counts
<1>4. Code(s) = none[Len(s)]
  <2> HIDE DEF none
  <2> QED BY <1>3, CodeIs
<1> QED BY <1>1, <1>4

\* Whitespace in the place of whitespace leaves the code as it is.
LEMMA CodeOfSplice ==
    ASSUME NEW S, Trivia \subseteq S, NEW s \in Seq(S),
           NEW start \in Nat, NEW end \in Nat, start <= end, end <= Len(s),
           Slice(s, start, end) \in Seq(Trivia), NEW new \in Seq(Trivia)
    PROVE  Code(Splice(s, start, end, new)) = Code(s)
<1>1. Len(s) \in Nat
  BY LenProperties
<1> DEFINE head == SubSeq(s, 1, start)
           gap  == SubSeq(s, start + 1, end)
           tail == SubSeq(s, end + 1, Len(s))
<1>2. head \in Seq(S) /\ gap \in Seq(S) /\ tail \in Seq(S)
  <2>1. \A n \in 1..Len(s) : s[n] \in S
    BY ElementOfSeq
  <2>2. /\ \A n \in 1..start : s[n] \in S
        /\ \A n \in (start + 1)..end : s[n] \in S
        /\ \A n \in (end + 1)..Len(s) : s[n] \in S
    BY <2>1, <1>1
  <2>3. 1 \in Int /\ start \in Int /\ start + 1 \in Int /\ end \in Int
        /\ end + 1 \in Int /\ Len(s) \in Int
    BY <1>1
  <2> QED BY <2>2, <2>3, SubSeqProperties
<1>3. new \in Seq(S)
  BY SeqMonotonic
<1>4. s = (head \o gap) \o tail
  <2>1. /\ 1 \in 1..(Len(s) + 1) /\ start \in (1 - 1)..Len(s) /\ end \in start..Len(s)
        /\ end \in (1 - 1)..Len(s) /\ Len(s) \in end..Len(s)
    BY <1>1
  <2>2. head \o gap = SubSeq(s, 1, end)
    BY <2>1, ConcatAdjacentSubSeq
  <2>3. SubSeq(s, 1, end) \o tail = SubSeq(s, 1, Len(s))
    BY <2>1, ConcatAdjacentSubSeq
  <2> QED BY <2>2, <2>3, SubSeqFull
<1>5. gap \in Seq(Trivia)
  BY DEF Slice
<1>6. Splice(s, start, end, new) = (head \o new) \o tail
  BY DEF Splice
<1> HIDE DEF head, gap, tail
<1>7. Code(head) \in Seq(S)
  <2>1. PICK c : /\ c[Len(head)] = Code(head)
                 /\ \A n \in 0..Len(head) : c[n] \in Seq(S)
    BY <1>2, CodeCounts
  <2>2. Len(head) \in 0..Len(head)
    BY <1>2, LenProperties
  <2> QED BY <2>1, <2>2
<1>8. ASSUME NEW mid \in Seq(S), mid \in Seq(Trivia)
      PROVE  Code((head \o mid) \o tail) = Code(head) \o Code(tail)
  <2>1. head \o mid \in Seq(S)
    BY <1>2, ConcatProperties
  <2>2. Code((head \o mid) \o tail) = Code(head \o mid) \o Code(tail)
    BY <2>1, <1>2, CodeOfConcat
  <2>3. Code(head \o mid) = Code(head) \o Code(mid)
    BY <1>2, CodeOfConcat
  <2>4. Code(mid) = <<>>
    BY <1>8, CodeOfTrivia
  <2> QED BY <2>2, <2>3, <2>4, <1>7, ConcatEmptySeq
<1>9. Code((head \o new) \o tail) = Code(head) \o Code(tail)
  BY <1>3, <1>8
<1>10. Code((head \o gap) \o tail) = Code(head) \o Code(tail)
  BY <1>2, <1>5, <1>8
<1> QED BY <1>4, <1>6, <1>9, <1>10

-----------------------------------------------------------------------------
(* Code and agreement.                                                     *)

\* The text in work, too, has the code of its original or of a late text.
WorkKept ==
    phase = "splice" => \E text \in {orig[file]} \cup Late : Code(data) = Code(text)

\* A finding is fixable only if every target that reported it had the fix, and
\* nothing is applied while one is not.
Agreed ==
    /\ reported = [t \in Targets |-> reported[t]]
    /\ \A i \in AllItems : Key(i) \in DOMAIN findings /\ (findings[Key(i)] => i.fix)
    /\ phase \in {"apply", "splice", "stale", "done"} =>
          \A k \in DOMAIN findings : findings[k]

LEMMA InitKept == Init => CodeKept /\ WorkKept
  BY DEF Init, CodeKept, WorkKept

LEMMA KeptStep ==
    ASSUME IInv, CodeKept, WorkKept, [Next]_vars
    PROVE  CodeKept' /\ WorkKept'
<1>1. ASSUME NEW f \in Files, OpenFile(f)
      PROVE  CodeKept' /\ WorkKept'
  <2>1. f \in Files /\ file' = f /\ data' = disk[f] /\ orig' = orig /\ disk' = disk
    BY <1>1 DEF OpenFile
  <2> QED BY <2>1 DEF CodeKept, WorkKept
<1>2. ASSUME NEW e \in todo, SpliceEdit(e)
      PROVE  CodeKept' /\ WorkKept'
  <2>1. orig' = orig /\ disk' = disk /\ file' = file /\ phase = "splice"
    BY <1>2 DEF SpliceEdit
  <2>2. CASE Stale(e)
    BY <1>2, <2>1, <2>2 DEF SpliceEdit, CodeKept, WorkKept
  <2>3. CASE ~Stale(e)
    <3>1. data' = Splice(data, e.start, e.end, e.after)
      BY <1>2, <2>3 DEF SpliceEdit
    <3>2. /\ e.start \in Nat /\ e.end \in Nat /\ e.start <= e.end
          /\ e.before \in Seq(Trivia) /\ e.after \in Seq(Trivia)
          /\ data \in Seq(Char) /\ Len(data) \in Nat
      BY LenProperties DEF IInv, TypeOK, Edit, Ordered
    <3>3. e.end <= Len(data) /\ Slice(data, e.start, e.end) \in Seq(Trivia)
      BY <2>3, <3>2 DEF Stale
    <3>4. Code(data') = Code(data)
      BY <3>1, <3>2, <3>3, CharAssumption, CodeOfSplice
    <3> QED BY <2>1, <3>4 DEF CodeKept, WorkKept
  <2> QED BY <2>2, <2>3
<1>3. CASE WriteFile
  <2>1. /\ orig' = orig /\ phase = "splice" /\ phase' = "apply"
        /\ disk' = [disk EXCEPT ![file] = data]
    BY <1>3 DEF WriteFile
  <2>2. disk \in [Files -> Seq(Char)]
    BY DEF IInv, TypeOK
  <2>3. \A f \in Files : disk'[f] = IF f = file THEN data ELSE disk[f]
    BY <2>1, <2>2
  <2> QED BY <2>1, <2>3 DEF CodeKept, WorkKept
<1>4. ASSUME NEW f \in Files, LateWrite(f)
      PROVE  CodeKept' /\ WorkKept'
  <2>1. PICK text \in Late : disk' = [disk EXCEPT ![f] = text]
    BY <1>4 DEF LateWrite
  <2>2. orig' = orig /\ phase' = phase /\ file' = file /\ data' = data
    BY <1>4 DEF LateWrite
  <2>3. disk \in [Files -> Seq(Char)]
    BY DEF IInv, TypeOK
  <2>4. \A g \in Files : disk'[g] = IF g = f THEN text ELSE disk[g]
    BY <2>1, <2>3
  <2> QED BY <2>1, <2>2, <2>4 DEF CodeKept, WorkKept
<1>5. ASSUME NEW t \in Targets, NEW f \in Files, NEW i \in Items(f), Report(t, i)
      PROVE  CodeKept' /\ WorkKept'
  BY <1>5 DEF Report, CodeKept, WorkKept
<1>6. CASE CollectEnd
  BY <1>6 DEF CollectEnd, CodeKept, WorkKept
<1>7. CASE ApplyEnd
  BY <1>7 DEF ApplyEnd, CodeKept, WorkKept
<1>8. CASE Over \/ UNCHANGED vars
  BY <1>8 DEF Over, vars, CodeKept, WorkKept
<1> QED BY <1>1, <1>2, <1>3, <1>4, <1>5, <1>6, <1>7, <1>8 DEF Next

LEMMA InitAgreed == Init => Agreed
  BY DEF Init, Agreed, AllItems

LEMMA AgreedStep ==
    ASSUME IInv, Agreed, [Next]_vars
    PROVE  Agreed'
<1>1. ASSUME NEW t \in Targets, NEW f \in Files, NEW i \in Items(f), Report(t, i)
      PROVE  Agreed'
  <2>1. /\ reported' = [reported EXCEPT ![t] = @ \cup {i}]
        /\ findings' = Merge(i)
        /\ phase' \in {"collect", "rejected"}
    BY <1>1 DEF Report
  <2>2. reported' = [u \in Targets |-> reported'[u]]
    BY <2>1 DEF Agreed
  <2>3. AllItems' \subseteq AllItems \cup {i}
    BY <2>1 DEF Agreed, AllItems
  <2>4. DOMAIN findings' = DOMAIN findings \cup {Key(i)}
    BY <2>1 DEF Merge
  <2>5. ASSUME NEW k \in DOMAIN findings'
        PROVE  findings'[k] = IF k # Key(i) THEN findings[k]
                              ELSE i.fix /\ (k \in DOMAIN findings => findings[k])
    BY <2>1, <2>4 DEF Merge
  <2>6. ASSUME NEW j \in AllItems'
        PROVE  Key(j) \in DOMAIN findings' /\ (findings'[Key(j)] => j.fix)
    <3>1. CASE j \in AllItems
      <4>1. Key(j) \in DOMAIN findings /\ (findings[Key(j)] => j.fix)
        BY <3>1 DEF Agreed
      <4> QED BY <4>1, <2>4, <2>5
    <3>2. CASE j = i
      BY <3>2, <2>4, <2>5
    <3> QED BY <3>1, <3>2, <2>3
  <2>7. \A j \in AllItems' : Key(j)' = Key(j)
    BY DEF Key
  <2> QED BY <2>1, <2>2, <2>6 DEF Agreed, Key
<1>2. CASE CollectEnd
  BY <1>2 DEF CollectEnd, Agreed, AllItems, Key
<1>3. ASSUME NEW f \in Files, OpenFile(f)
      PROVE  Agreed'
  BY <1>3 DEF OpenFile, Agreed, AllItems, Key
<1>4. ASSUME NEW e \in todo, SpliceEdit(e)
      PROVE  Agreed'
  BY <1>4 DEF SpliceEdit, Agreed, AllItems, Key
<1>5. CASE WriteFile
  BY <1>5 DEF WriteFile, Agreed, AllItems, Key
<1>6. CASE ApplyEnd
  BY <1>6 DEF ApplyEnd, Agreed, AllItems, Key
<1>7. ASSUME NEW f \in Files, LateWrite(f)
      PROVE  Agreed'
  BY <1>7 DEF LateWrite, Agreed, AllItems, Key
<1>8. CASE Over \/ UNCHANGED vars
  BY <1>8 DEF Over, vars, Agreed, AllItems, Key
<1> QED BY <1>1, <1>2, <1>3, <1>4, <1>5, <1>6, <1>7, <1>8 DEF Next

\* Whatever another process writes and whenever, apply never moves anything
\* but whitespace: what it splices into a file it has compared with whitespace
\* first, and the code of a text does not depend on the whitespace in it.
THEOREM CodeStays == Spec => []CodeKept
<1>1. Init => CodeKept /\ WorkKept
  BY InitKept
<1>2. IInv /\ (CodeKept /\ WorkKept) /\ [Next]_vars => (CodeKept /\ WorkKept)'
  BY KeptStep
<1> QED BY <1>1, <1>2, Invariance, PTL DEF Spec

\* A finding that one target could not fix is not fixed, whichever target
\* reported it first and whatever fixes the others had.
THEOREM AgreedIsApplied == Spec => []AppliesOnlyAgreed
<1>1. Init => Agreed
  BY InitAgreed
<1>2. IInv /\ Agreed /\ [Next]_vars => Agreed'
  BY AgreedStep
<1>3. Agreed => AppliesOnlyAgreed
  BY DEF Agreed, AppliesOnlyAgreed
<1> QED BY <1>1, <1>2, <1>3, Invariance, PTL DEF Spec

-----------------------------------------------------------------------------
(* Offsets.                                                                *)

\* v lists the members of P up to n, in order.
Lists(v, P, n) ==
    /\ v \in Seq(Nat)
    /\ \A k \in 1..Len(v) : v[k] \in P /\ v[k] \in 1..n
    /\ \A j, k \in 1..Len(v) : j < k => v[j] < v[k]
    /\ \A p \in 1..n : p \in P => \E k \in 1..Len(v) : v[k] = p

LEMMA ListsAppend ==
    ASSUME NEW P, NEW n \in Nat, NEW v, Lists(v, P, n), n + 1 \in P
    PROVE  Lists(Append(v, n + 1), P, n + 1)
<1>1. v \in Seq(Nat) /\ Len(v) \in Nat
  BY LenProperties DEF Lists
<1> DEFINE w == Append(v, n + 1)
<1>2. /\ w \in Seq(Nat) /\ Len(w) = Len(v) + 1
      /\ \A k \in 1..Len(v) : w[k] = v[k]
      /\ w[Len(v) + 1] = n + 1
  BY <1>1, AppendProperties
<1> HIDE DEF w
<1>3. \A k \in 1..Len(w) : k \in 1..Len(v) \/ k = Len(v) + 1
  BY <1>1, <1>2
<1>4. ASSUME NEW k \in 1..Len(w) PROVE w[k] \in P /\ w[k] \in 1..(n + 1)
  <2>1. CASE k \in 1..Len(v)
    <3>1. w[k] = v[k] /\ v[k] \in P /\ v[k] \in 1..n
      BY <2>1, <1>2 DEF Lists
    <3> QED BY <3>1
  <2>2. CASE k = Len(v) + 1
    BY <2>2, <1>2
  <2> QED BY <1>3, <2>1, <2>2
<1>5. \A j, k \in 1..Len(w) : j < k => w[j] < w[k]
  <2> SUFFICES ASSUME NEW j \in 1..Len(w), NEW k \in 1..Len(w), j < k PROVE w[j] < w[k]
    OBVIOUS
  <2>1. j \in 1..Len(v)
    BY <1>1, <1>2
  <2>2. w[j] = v[j] /\ v[j] \in 1..n
    BY <2>1, <1>2 DEF Lists
  <2>3. CASE k \in 1..Len(v)
    BY <2>1, <2>2, <2>3, <1>2 DEF Lists
  <2>4. CASE k = Len(v) + 1
    BY <2>2, <2>4, <1>2
  <2> QED BY <1>3, <2>3, <2>4
<1>6. ASSUME NEW p \in 1..(n + 1), p \in P PROVE \E k \in 1..Len(w) : w[k] = p
  <2>1. CASE p \in 1..n
    <3>1. PICK k \in 1..Len(v) : v[k] = p
      BY <2>1, <1>6 DEF Lists
    <3>2. k \in 1..Len(w)
      BY <1>1, <1>2
    <3> QED BY <3>1, <3>2, <1>2
  <2>2. CASE p = n + 1
    BY <2>2, <1>1, <1>2
  <2> QED BY <2>1, <2>2
<1> QED BY <1>2, <1>4, <1>5, <1>6 DEF Lists, w

LEMMA ListsSkip ==
    ASSUME NEW P, NEW n \in Nat, NEW v, Lists(v, P, n), n + 1 \notin P
    PROVE  Lists(v, P, n + 1)
<1>1. \A p \in 1..(n + 1) : p \in P => p \in 1..n
  OBVIOUS
<1>2. \A p \in 1..n : p \in 1..(n + 1)
  OBVIOUS
<1> QED BY <1>1, <1>2 DEF Lists

LEMMA InOrderLists ==
    ASSUME NEW P, NEW m \in Nat PROVE Lists(InOrder(P, m), P, m)
<1> DEFINE id == [i \in 1..m |-> i]
<1>1. PICK c : Gathers(id, P, m, c) /\ c[m] = Gather(id, P, m)
  BY GatherSteps
<1>2. InOrder(P, m) = c[m]
  BY <1>1 DEF InOrder
<1>3. \A n \in 1..m : id[n] = n
  OBVIOUS
<1> HIDE DEF id
<1> DEFINE good == {n \in Nat : n <= m => Lists(c[n], P, n)}
<1>4. 0 \in good
  <2>1. c[0] = <<>> /\ <<>> \in Seq(Nat) /\ Len(<<>>) = 0
    BY <1>1, EmptySeq DEF Gathers
  <2>2. Lists(<<>>, P, 0)
    BY <2>1 DEF Lists
  <2>3. Lists(c[0], P, 0)
    BY <2>1, <2>2
  <2> QED BY <2>3
<1>5. ASSUME NEW n \in good PROVE n + 1 \in good
  <2> SUFFICES ASSUME n + 1 <= m PROVE Lists(c[n + 1], P, n + 1)
    OBVIOUS
  <2>1. n \in Nat /\ n + 1 \in 1..m /\ (n + 1) - 1 = n /\ Lists(c[n], P, n)
    BY <1>5
  <2>2. c[n + 1] = IF n + 1 \in P THEN Append(c[n], n + 1) ELSE c[n]
    BY <1>1, <1>3, <2>1 DEF Gathers
  <2> HIDE DEF good
  <2>3. CASE n + 1 \in P
    BY <2>1, <2>2, <2>3, ListsAppend
  <2>4. CASE n + 1 \notin P
    BY <2>1, <2>2, <2>4, ListsSkip
  <2> QED BY <2>3, <2>4
<1>6. good = Nat
  <2>1. good \subseteq Nat
    OBVIOUS
  <2> HIDE DEF good
  <2> QED BY <1>4, <1>5, <2>1, SetInduction
<1> QED BY <1>2, <1>6

\* The offsets in the raw text keep the order of those in the normalized one,
\* and stay in the text.
LEMMA VisitedLists ==
    ASSUME NEW S, NEW raw \in Seq(S)
    PROVE  Lists(VisitedSeq(raw), Visited(raw), Len(raw))
BY InOrderLists, LenProperties DEF VisitedSeq

LEMMA NormalizedFacts ==
    ASSUME NEW S, Trivia \subseteq S, NEW raw \in Seq(S)
    PROVE  /\ Normalized(raw) \in Seq(S)
           /\ Len(Normalized(raw)) = Len(VisitedSeq(raw))
           /\ \A k \in 1..Len(VisitedSeq(raw)) :
                 Normalized(raw)[k] = IF CrLfAt(raw, VisitedSeq(raw)[k]) THEN "lf"
                                      ELSE raw[VisitedSeq(raw)[k]]
<1> DEFINE v == VisitedSeq(raw)
           text == [k \in 1..Len(v) |-> IF CrLfAt(raw, v[k]) THEN "lf" ELSE raw[v[k]]]
<1>1. Lists(v, Visited(raw), Len(raw))
  BY VisitedLists
<1>2. Len(v) \in Nat
  BY <1>1, LenProperties DEF Lists
<1>3. \A k \in 1..Len(v) : v[k] \in 1..Len(raw)
  BY <1>1 DEF Lists
<1>4. Normalized(raw) = text
  BY DEF Normalized
<1> HIDE DEF v
<1>5. \A p \in 1..Len(raw) : raw[p] \in S
  BY ElementOfSeq
<1>6. \A k \in 1..Len(v) : text[k] \in S
  BY <1>3, <1>5 DEF Trivia
<1>7. text \in Seq(S) /\ Len(text) = Len(v)
  <2>1. text \in [1..Len(v) -> S]
    BY <1>6
  <2>2. DOMAIN text = 1..Len(v)
    OBVIOUS
  <2> HIDE DEF text
  <2> QED BY <2>1, <2>2, <1>2, LenProperties, SeqDef
<1> QED BY <1>4, <1>7 DEF v

LEMMA RawOffsetFacts ==
    ASSUME NEW S, Trivia \subseteq S, NEW raw \in Seq(S),
           NEW n \in 0..Len(Normalized(raw))
    PROVE  /\ RawOffset(raw, n) \in 0..Len(raw)
           /\ n < Len(Normalized(raw)) =>
                RawOffset(raw, n) + 1 = VisitedSeq(raw)[n + 1]
           /\ n = Len(Normalized(raw)) => RawOffset(raw, n) = Len(raw)
<1> DEFINE v == VisitedSeq(raw)
<1>1. Lists(v, Visited(raw), Len(raw)) /\ Len(Normalized(raw)) = Len(v) /\ Len(raw) \in Nat
  BY VisitedLists, NormalizedFacts, LenProperties
<1>2. v \in Seq(Nat) /\ Len(v) \in Nat
  BY <1>1, LenProperties DEF Lists
<1>3. RawOffset(raw, n) = Append(v, Len(raw) + 1)[n + 1] - 1
  BY DEF RawOffset
<1> HIDE DEF v
<1>4. /\ \A k \in 1..Len(v) : Append(v, Len(raw) + 1)[k] = v[k]
      /\ Append(v, Len(raw) + 1)[Len(v) + 1] = Len(raw) + 1
  BY <1>1, <1>2, AppendProperties
<1>5. CASE n < Len(v)
  <2>1. n + 1 \in 1..Len(v) /\ v[n + 1] \in 1..Len(raw)
    BY <1>1, <1>2, <1>5 DEF Lists
  <2>2. RawOffset(raw, n) = v[n + 1] - 1
    BY <1>3, <1>4, <2>1
  <2> QED BY <1>1, <1>5, <2>1, <2>2 DEF v
<1>6. CASE n = Len(v)
  BY <1>1, <1>3, <1>4, <1>6
<1> QED BY <1>1, <1>2, <1>5, <1>6

LEMMA RawOffsetOrder ==
    ASSUME NEW S, Trivia \subseteq S, NEW raw \in Seq(S),
           NEW a \in 0..Len(Normalized(raw)), NEW b \in 0..Len(Normalized(raw))
    PROVE  a < b <=> RawOffset(raw, a) < RawOffset(raw, b)
<1>1. ASSUME NEW x \in 0..Len(Normalized(raw)), NEW y \in 0..Len(Normalized(raw)), x < y
      PROVE  RawOffset(raw, x) < RawOffset(raw, y)
  <2> DEFINE v == VisitedSeq(raw)
  <2>1. Lists(v, Visited(raw), Len(raw)) /\ Len(Normalized(raw)) = Len(v) /\ Len(raw) \in Nat
    BY VisitedLists, NormalizedFacts, LenProperties
  <2>2. v \in Seq(Nat) /\ Len(v) \in Nat
    BY <2>1, LenProperties DEF Lists
  <2>3. /\ RawOffset(raw, x) + 1 = v[x + 1] /\ RawOffset(raw, x) \in Int
        /\ RawOffset(raw, y) \in Int
    <3>1. x < Len(Normalized(raw))
      BY <1>1, <2>1, <2>2
    <3>2. RawOffset(raw, x) \in 0..Len(raw) /\ RawOffset(raw, x) + 1 = v[x + 1]
      BY <3>1, RawOffsetFacts
    <3>3. RawOffset(raw, y) \in 0..Len(raw)
      BY RawOffsetFacts
    <3> QED BY <3>2, <3>3, <2>1
  <2>4. x + 1 \in 1..Len(v) /\ v[x + 1] \in 1..Len(raw)
    BY <1>1, <2>1, <2>2 DEF Lists
  <2>5. CASE y = Len(v)
    <3>1. RawOffset(raw, y) = Len(raw)
      BY <2>1, <2>5, RawOffsetFacts
    <3> HIDE DEF v
    <3> QED BY <2>1, <2>3, <2>4, <3>1
  <2>6. CASE y < Len(v)
    <3>1. RawOffset(raw, y) + 1 = v[y + 1]
      BY <2>1, <2>6, RawOffsetFacts
    <3>2. y + 1 \in 1..Len(v) /\ x + 1 < y + 1
      BY <1>1, <2>1, <2>2, <2>6
    <3>3. v[x + 1] < v[y + 1]
      BY <2>1, <2>4, <3>2 DEF Lists
    <3>4. v[y + 1] \in Int
      BY <2>1, <3>2 DEF Lists
    <3> HIDE DEF v
    <3> QED BY <2>3, <2>4, <3>1, <3>3, <3>4
  <2> QED BY <2>1, <2>2, <2>5, <2>6
<1>2. RawOffset(raw, a) \in Int /\ RawOffset(raw, b) \in Int
  BY RawOffsetFacts
<1>3. a < b \/ a = b \/ b < a
  OBVIOUS
<1> QED BY <1>1, <1>2, <1>3

\* What is between two offsets in the raw text is whitespace if it is in the
\* normalized one: a byte order mark precedes them all.
LEMMA RawTrivia ==
    ASSUME NEW S, Trivia \subseteq S, NEW raw \in Seq(S),
           NEW a \in 0..Len(Normalized(raw)), NEW b \in 0..Len(Normalized(raw)), a < b,
           \A k \in (a + 1)..b : Normalized(raw)[k] \in Trivia
    PROVE  Slice(raw, RawOffset(raw, a), RawOffset(raw, b)) \in Seq(Trivia)
<1> DEFINE v == VisitedSeq(raw)
           N == Normalized(raw)
           x == RawOffset(raw, a)
           y == RawOffset(raw, b)
<1>1. Lists(v, Visited(raw), Len(raw)) /\ Len(N) = Len(v) /\ Len(raw) \in Nat
  BY VisitedLists, NormalizedFacts, LenProperties
<1>2. v \in Seq(Nat) /\ Len(v) \in Nat
  BY <1>1, LenProperties DEF Lists
<1>3. a < Len(N)
  BY <1>1, <1>2
<1>4. x \in 0..Len(raw) /\ y \in 0..Len(raw) /\ x + 1 = v[a + 1]
  BY <1>3, RawOffsetFacts
<1>5. b < Len(N) => y + 1 = v[b + 1]
  BY RawOffsetFacts
<1>6. \A k \in 1..Len(v) : N[k] = IF CrLfAt(raw, v[k]) THEN "lf" ELSE raw[v[k]]
  BY NormalizedFacts
<1>7. \A k \in (a + 1)..b : N[k] \in Trivia
  OBVIOUS
<1>8. b \in 0..Len(v)
  BY <1>1
<1>9. Slice(raw, RawOffset(raw, a), RawOffset(raw, b)) = Slice(raw, x, y)
  OBVIOUS
<1> HIDE DEF v, N, x, y
<1>10. a + 1 \in 1..Len(v)
  BY <1>1, <1>2, <1>3
<1>11. ASSUME NEW p \in (x + 1)..y PROVE raw[p] \in Trivia
  <2>1. p \in 1..Len(raw) /\ p >= v[a + 1]
    BY <1>1, <1>4
  <2>2. CASE p \in Visited(raw)
    <3>1. PICK k \in 1..Len(v) : v[k] = p
      BY <1>1, <2>1, <2>2 DEF Lists
    <3>2. a + 1 <= k
      <4>1. k < a + 1 => v[k] < v[a + 1]
        BY <1>1, <1>10 DEF Lists
      <4>2. v[k] \in 1..Len(raw) /\ v[a + 1] \in 1..Len(raw)
        BY <1>1, <1>10 DEF Lists
      <4> QED BY <2>1, <3>1, <4>1, <4>2
    <3>3. k <= b
      <4> SUFFICES ASSUME b < k PROVE FALSE
        BY <1>8
      <4>1. b + 1 \in 1..Len(v) /\ b < Len(N)
        BY <1>1, <1>2, <1>8
      <4>2. v[b + 1] = y + 1
        BY <1>5, <4>1
      <4>3. b + 1 < k => v[b + 1] < v[k]
        BY <1>1, <4>1 DEF Lists
      <4>4. b + 1 < k \/ b + 1 = k
        BY <1>8
      <4>5. p <= y /\ y \in Int /\ p \in Int
        BY <1>4
      <4>6. v[b + 1] <= v[k]
        BY <4>2, <4>3, <4>4, <3>1, <4>5
      <4> QED BY <4>2, <4>5, <4>6, <3>1
    <3>4. k \in (a + 1)..b
      BY <3>2, <3>3
    <3>5. N[k] \in Trivia
      BY <3>4, <1>7
    <3>6. N[k] = IF CrLfAt(raw, p) THEN "lf" ELSE raw[p]
      BY <1>6, <3>1
    <3>7. CrLfAt(raw, p) => raw[p] \in Trivia
      BY DEF CrLfAt, Trivia
    <3> QED BY <3>5, <3>6, <3>7
  <2>3. CASE p \notin Visited(raw)
    <3>1. CrLfAt(raw, p - 1) \/ (HasBom(raw) /\ p = 1)
      BY <2>1, <2>3 DEF Visited
    <3>2. CASE CrLfAt(raw, p - 1)
      <4>1. raw[(p - 1) + 1] = "lf" /\ (p - 1) + 1 = p
        BY <2>1, <3>2 DEF CrLfAt
      <4> QED BY <4>1 DEF Trivia
    <3>3. CASE HasBom(raw) /\ p = 1
      <4>1. v[a + 1] \in Visited(raw) /\ v[a + 1] \in 1..Len(raw)
        BY <1>1, <1>10 DEF Lists
      <4>2. v[a + 1] # 1
        BY <4>1, <3>3 DEF Visited
      <4>3. v[a + 1] = 1
        BY <2>1, <3>3, <4>1
      <4> QED BY <4>2, <4>3
    <3> QED BY <3>1, <3>2, <3>3
  <2> QED BY <2>2, <2>3
<1>12. x \in Nat /\ y \in Nat
  BY <1>1, <1>4
<1> QED BY <1>9, <1>11, <1>12, SliceFacts

-----------------------------------------------------------------------------
(* Gaps.                                                                   *)

LEMMA GreatestExists ==
    ASSUME NEW n \in Nat, NEW T, T \subseteq 0..n, T # {}
    PROVE  \E m \in T : \A t \in T : t <= m
<1> DEFINE below == {n - t : t \in T}
<1>1. below \subseteq Nat /\ below # {}
  <2>1. \A t \in T : n - t \in Nat
    OBVIOUS
  <2> QED BY <2>1
<1>2. PICK g \in below : \A h \in below : g <= h
  <2> HIDE DEF below
  <2> QED BY <1>1, LeastExists
<1>3. PICK m \in T : g = n - m
  BY <1>2
<1>4. \A t \in T : n - m <= n - t
  BY <1>2, <1>3
<1> QED BY <1>3, <1>4

LEMMA LineBreaks ==
    ASSUME NEW S, NEW gap \in Seq(S), LfPositions(gap) # {}
    PROVE  /\ FirstLf(gap) \in 1..Len(gap) /\ LastLf(gap) \in 1..Len(gap)
           /\ FirstLf(gap) <= LastLf(gap)
           /\ gap[FirstLf(gap)] = "lf" /\ gap[LastLf(gap)] = "lf"
<1> DEFINE P == LfPositions(gap)
<1>1. Len(gap) \in Nat
  BY LenProperties
<1>2. P \subseteq 1..Len(gap) /\ \A i \in P : gap[i] = "lf"
  BY DEF LfPositions
<1>3. P \subseteq Nat /\ P \subseteq 0..Len(gap)
  BY <1>1, <1>2
<1>4. \E i \in P : \A j \in P : i <= j
  <2> HIDE DEF P
  <2>1. P # {}
    BY DEF P
  <2> QED BY <2>1, <1>3, LeastExists
<1>5. \E i \in P : \A j \in P : j <= i
  <2> HIDE DEF P
  <2>1. P # {}
    BY DEF P
  <2> QED BY <2>1, <1>1, <1>3, GreatestExists
<1>6. FirstLf(gap) \in P /\ \A j \in P : FirstLf(gap) <= j
  BY <1>4 DEF FirstLf
<1>7. LastLf(gap) \in P
  BY <1>5 DEF LastLf
<1> QED BY <1>2, <1>6, <1>7

\* A gap is not empty and consists of whitespace.
LEMMA GapFacts ==
    ASSUME NEW S, NEW s \in Seq(S), NEW g \in Gaps(s)
    PROVE  /\ g[1] \in 0..Len(s) /\ g[2] \in 0..Len(s) /\ g[1] < g[2]
           /\ g = <<g[1], g[2]>>
           /\ \A k \in (g[1] + 1)..g[2] : s[k] \in Trivia
<1>1. Len(s) \in Nat
  BY LenProperties
<1>2. PICK r \in TriviaRuns(s) : g \in GapsOf(r, Slice(s, r[1], r[2]))
  BY DEF Gaps
<1>3. /\ r[1] \in 1..Len(s) /\ r[2] \in 1..Len(s) /\ r[1] < r[2]
      /\ r = <<r[1], r[2]>>
      /\ AllTrivia(Slice(s, r[1], r[2]))
  BY DEF TriviaRuns
<1> DEFINE gap == Slice(s, r[1], r[2])
<1>4. /\ gap \in Seq(S) /\ Len(gap) = r[2] - r[1]
      /\ \A k \in 1..(r[2] - r[1]) : gap[k] = s[r[1] + k]
  <2>1. r[1] \in Nat /\ r[2] \in Nat /\ r[1] <= r[2]
    BY <1>1, <1>3
  <2>2. \A k \in (r[1] + 1)..r[2] : s[k] \in S
    <3>1. \A k \in (r[1] + 1)..r[2] : k \in 1..Len(s)
      BY <1>1, <1>3
    <3> QED BY <3>1, ElementOfSeq
  <2>3. ASSUME NEW a \in Nat, NEW b \in Nat, a <= b, \A k \in (a + 1)..b : s[k] \in S
        PROVE  /\ Slice(s, a, b) \in Seq(S) /\ Len(Slice(s, a, b)) = b - a
               /\ \A k \in 1..(b - a) : Slice(s, a, b)[k] = s[a + k]
    <3>1. /\ Slice(s, a, b) \in Seq(S)
          /\ Len(Slice(s, a, b)) = IF a <= b THEN b - a ELSE 0
          /\ \A k \in 1..(b - a) : Slice(s, a, b)[k] = s[a + k]
      BY ONLY <2>3, a \in Nat, b \in Nat, SliceFacts
    <3> QED BY <2>3, <3>1
  <2> QED BY ONLY <2>1, <2>2, <2>3
<1>5. ASSUME NEW k \in (r[1] + 1)..r[2] PROVE s[k] \in Trivia
  <2>1. /\ k - r[1] \in 1..(r[2] - r[1]) /\ k - r[1] \in 1..Len(gap)
        /\ r[1] + (k - r[1]) = k
    BY <1>3, <1>4
  <2>2. gap[k - r[1]] \in Trivia
    BY <1>3, <2>1 DEF AllTrivia
  <2> QED BY <1>4, <2>1, <2>2
<1>6. CASE LfPositions(gap) = {}
  <2>1. g = r
    BY <1>2, <1>6 DEF GapsOf
  <2> QED BY <1>1, <1>3, <1>5, <2>1
<1>7. CASE LfPositions(gap) # {}
  <2>1. g \in {r[1], r[1] + FirstLf(gap) - 1} \X {r[2], r[1] + LastLf(gap)}
    BY <1>2, <1>7 DEF GapsOf
  <2>2. /\ FirstLf(gap) \in 1..(r[2] - r[1]) /\ LastLf(gap) \in 1..(r[2] - r[1])
        /\ FirstLf(gap) <= LastLf(gap)
    <3> HIDE DEF gap
    <3> QED BY <1>4, <1>7, LineBreaks
  <2> HIDE DEF gap
  <2>3. /\ g = <<g[1], g[2]>>
        /\ g[1] \in {r[1], r[1] + FirstLf(gap) - 1}
        /\ g[2] \in {r[2], r[1] + LastLf(gap)}
    BY <2>1
  <2>4. r[1] <= g[1] /\ g[1] < g[2] /\ g[2] <= r[2] /\ g[1] \in Int /\ g[2] \in Int
    BY <1>1, <1>3, <2>2, <2>3
  <2>5. \A k \in (g[1] + 1)..g[2] : k \in (r[1] + 1)..r[2]
    BY <1>3, <2>4
  <2>6. g[1] \in 0..Len(s) /\ g[2] \in 0..Len(s)
    BY <1>1, <1>3, <2>4
  <2> QED BY <1>5, <2>3, <2>4, <2>5, <2>6
<1> QED BY <1>6, <1>7

-----------------------------------------------------------------------------
(* Replacements.                                                           *)

\* The equation that defines FlattenSeq.
FlattenBody(q, m, c) == [i \in 1..m |-> IF i = 1 THEN q[i] ELSE c[i - 1] \o q[i]]

LEMMA FlattenExists ==
    ASSUME NEW q, NEW m \in Nat PROVE \E c : c = FlattenBody(q, m, c)
<1> DEFINE good == {k \in Nat : \E c : c = FlattenBody(q, k, c)}
<1>1. 0 \in good
  <2> DEFINE e == [i \in 1..0 |-> q[i]]
  <2>1. e = FlattenBody(q, 0, e)
    BY DEF FlattenBody
  <2> QED BY <2>1
<1>2. ASSUME NEW k \in good PROVE k + 1 \in good
  <2>1. PICK c : c = FlattenBody(q, k, c)
    BY <1>2
  <2> DEFINE d == [i \in 1..(k + 1) |->
                     IF i <= k THEN c[i] ELSE IF i = 1 THEN q[i] ELSE c[i - 1] \o q[i]]
  <2>2. \A i \in 1..k : d[i] = c[i]
    OBVIOUS
  <2>3. \A i \in 1..k : c[i] = IF i = 1 THEN q[i] ELSE c[i - 1] \o q[i]
    BY <2>1 DEF FlattenBody
  <2>4. ASSUME NEW i \in 1..(k + 1)
        PROVE  d[i] = IF i = 1 THEN q[i] ELSE d[i - 1] \o q[i]
    <3>1. i # 1 => d[i - 1] = c[i - 1]
      <4>1. i # 1 => i - 1 \in 1..k
        OBVIOUS
      <4> HIDE DEF d
      <4> QED BY <4>1, <2>2
    <3>2. d[i] = IF i <= k THEN c[i] ELSE IF i = 1 THEN q[i] ELSE c[i - 1] \o q[i]
      OBVIOUS
    <3>3. i <= k => i \in 1..k
      OBVIOUS
    <3> HIDE DEF d
    <3> QED BY <3>1, <3>2, <3>3, <2>3
  <2>5. d = [i \in 1..(k + 1) |-> d[i]]
    OBVIOUS
  <2> HIDE DEF d
  <2>6. d = FlattenBody(q, k + 1, d)
    BY <2>4, <2>5 DEF FlattenBody
  <2>7. k + 1 \in Nat
    BY <1>2
  <2> QED BY <2>6, <2>7
<1>3. good = Nat
  <2>1. good \subseteq Nat
    OBVIOUS
  <2> HIDE DEF good
  <2> QED BY <1>1, <1>2, <2>1, SetInduction
<1> QED BY <1>3

\* What the definition of FlattenSeq computes on the way.
LEMMA FlattenSteps ==
    ASSUME NEW q, NEW m \in Nat \ {0}, Len(q) = m
    PROVE  \E c : /\ c[1] = q[1] /\ \A i \in 2..m : c[i] = c[i - 1] \o q[i]
                  /\ c[m] = FlattenSeq(q)
<1> DEFINE c == CHOOSE d : d = FlattenBody(q, m, d)
<1>1. c = FlattenBody(q, m, c)
  <2>1. \E d : d = FlattenBody(q, m, d)
    BY FlattenExists
  <2> QED BY <2>1
<1>2. FlattenSeq(q) = c[m]
  BY DEF FlattenSeq, FlattenBody
<1> HIDE DEF c
<1>3. \A i \in 1..m : FlattenBody(q, m, c)[i] = IF i = 1 THEN q[i] ELSE c[i - 1] \o q[i]
  BY DEF FlattenBody
<1>4. \A i \in 1..m : c[i] = IF i = 1 THEN q[i] ELSE c[i - 1] \o q[i]
  BY <1>1, <1>3
<1>5. 1 \in 1..m /\ \A i \in 2..m : i \in 1..m /\ i # 1
  OBVIOUS
<1> QED BY <1>2, <1>4, <1>5

Newline(x) == IF x = "lf" THEN <<"cr", "lf">> ELSE <<x>>

LEMMA NewlineFacts ==
    ASSUME NEW x \in Trivia
    PROVE  /\ Newline(x) \in Seq(Trivia) /\ Len(Newline(x)) >= 1
           /\ Len(Newline("lf")) = 2 /\ Newline("lf") \in Seq(Trivia)
           /\ Len(Newline(x)) \in Nat
<1>1. "cr" \in Trivia /\ "lf" \in Trivia
  BY DEF Trivia
<1>2. <<"cr", "lf">> \in Seq(Trivia) /\ Len(<<"cr", "lf">>) = 2
  BY <1>1
<1>3. <<x>> \in Seq(Trivia) /\ Len(<<x>>) = 1
  OBVIOUS
<1> QED BY <1>2, <1>3 DEF Newline

\* c[n] are the first n characters of s with the line endings of the file.
Breaks(s, c) ==
    /\ c[1] = Newline(s[1])
    /\ \A i \in 2..Len(s) : c[i] = c[i - 1] \o Newline(s[i])
    /\ \A i \in 1..Len(s) : c[i] \in Seq(Trivia)

LEMMA NewlineSteps ==
    ASSUME NEW raw, IsCrLf(raw), NEW s \in Seq(Trivia), s # <<>>
    PROVE  \E c : Breaks(s, c) /\ c[Len(s)] = OriginalNewlines(raw, s)
<1>1. Len(s) \in Nat \ {0}
  BY EmptySeq
<1>2. \A i \in 1..Len(s) : s[i] \in Trivia
  BY ElementOfSeq
<1> DEFINE q == [i \in 1..Len(s) |-> Newline(s[i])]
<1>3. \A i \in 1..Len(s) : q[i] = Newline(s[i]) /\ q[i] \in Seq(Trivia)
  BY <1>2, NewlineFacts
<1>4. Len(q) = Len(s)
  <2>1. q \in [1..Len(s) -> Seq(Trivia)]
    BY <1>3
  <2>2. DOMAIN q = 1..Len(s)
    OBVIOUS
  <2> HIDE DEF q
  <2>3. q \in Seq(Seq(Trivia))
    BY <2>1, <1>1, SeqDef
  <2> QED BY <1>1, <2>2, <2>3, LenProperties
<1>5. OriginalNewlines(raw, s) = FlattenSeq(q)
  BY DEF OriginalNewlines, Newline
<1> HIDE DEF q
<1>6. PICK c : /\ c[1] = q[1] /\ \A i \in 2..Len(s) : c[i] = c[i - 1] \o q[i]
               /\ c[Len(s)] = FlattenSeq(q)
  BY <1>1, <1>4, FlattenSteps
<1>7. 1 \in 1..Len(s) /\ \A i \in 2..Len(s) : i \in 1..Len(s)
  BY <1>1
<1>8. /\ c[1] = Newline(s[1])
      /\ \A i \in 2..Len(s) : c[i] = c[i - 1] \o Newline(s[i])
  BY <1>3, <1>6, <1>7
<1> DEFINE typed == {n \in Nat : n + 1 \in 1..Len(s) => c[n + 1] \in Seq(Trivia)}
<1>9. 0 \in typed
  BY <1>3, <1>6, <1>7
<1>10. ASSUME NEW n \in typed PROVE n + 1 \in typed
  <2> SUFFICES ASSUME (n + 1) + 1 \in 1..Len(s) PROVE c[(n + 1) + 1] \in Seq(Trivia)
    OBVIOUS
  <2>1. /\ n + 1 \in 1..Len(s) /\ (n + 1) + 1 \in 2..Len(s) /\ ((n + 1) + 1) - 1 = n + 1
        /\ c[n + 1] \in Seq(Trivia)
    BY <1>10, <1>1
  <2>2. c[(n + 1) + 1] = c[n + 1] \o q[(n + 1) + 1]
    BY <1>6, <2>1
  <2>3. q[(n + 1) + 1] \in Seq(Trivia)
    BY <1>3
  <2> QED BY <2>1, <2>2, <2>3, ConcatProperties
<1>11. typed = Nat
  <2>1. typed \subseteq Nat
    OBVIOUS
  <2> HIDE DEF typed
  <2> QED BY <1>9, <1>10, <2>1, SetInduction
<1>12. ASSUME NEW i \in 1..Len(s) PROVE c[i] \in Seq(Trivia)
  <2>1. i - 1 \in Nat /\ (i - 1) + 1 = i
    BY <1>1
  <2> QED BY <1>11, <2>1
<1>13. Breaks(s, c)
  BY <1>8, <1>12 DEF Breaks
<1> QED BY <1>5, <1>6, <1>13

LEMMA NewlinesType ==
    ASSUME NEW raw, NEW s \in Seq(Trivia), s # <<>>
    PROVE  OriginalNewlines(raw, s) \in Seq(Trivia)
<1>1. CASE IsCrLf(raw)
  <2>1. PICK c : Breaks(s, c) /\ c[Len(s)] = OriginalNewlines(raw, s)
    BY <1>1, NewlineSteps
  <2>2. Len(s) \in 1..Len(s)
    BY EmptySeq
  <2> QED BY <2>1, <2>2 DEF Breaks
<1>2. CASE ~IsCrLf(raw)
  BY <1>2 DEF OriginalNewlines
<1> QED BY <1>1, <1>2

\* A text with one line break more gives another replacement.
LEMMA NewlineAdded ==
    ASSUME NEW raw, NEW p \in Nat \ {0},
           NEW s \in Seq(Trivia), NEW t \in Seq(Trivia),
           p <= Len(s), Len(t) = Len(s) + 1, t[p + 1] = "lf",
           \A i \in 1..p : t[i] = s[i],
           \A i \in (p + 1)..Len(s) : t[i + 1] = s[i]
    PROVE  OriginalNewlines(raw, s) # OriginalNewlines(raw, t)
<1>1. Len(s) \in Nat \ {0} /\ Len(t) \in Nat \ {0} /\ s # <<>> /\ t # <<>>
  BY LenProperties, EmptySeq
<1>2. CASE ~IsCrLf(raw)
  BY <1>1, <1>2 DEF OriginalNewlines
<1>3. CASE IsCrLf(raw)
  <2>1. PICK c : Breaks(s, c) /\ c[Len(s)] = OriginalNewlines(raw, s)
    BY <1>1, <1>3, NewlineSteps
  <2>2. PICK d : Breaks(t, d) /\ d[Len(t)] = OriginalNewlines(raw, t)
    BY <1>1, <1>3, NewlineSteps
  <2> DEFINE alike == {n \in Nat : n + 1 \in 1..p => d[n + 1] = c[n + 1]}
  <2>3. 0 \in alike
    <3>1. 1 \in 1..p
      OBVIOUS
    <3> QED BY <3>1, <2>1, <2>2 DEF Breaks
  <2>4. ASSUME NEW n \in alike PROVE n + 1 \in alike
    <3> SUFFICES ASSUME (n + 1) + 1 \in 1..p PROVE d[(n + 1) + 1] = c[(n + 1) + 1]
      OBVIOUS
    <3>1. /\ n + 1 \in 1..p /\ d[n + 1] = c[n + 1]
          /\ (n + 1) + 1 \in 2..Len(s) /\ (n + 1) + 1 \in 2..Len(t)
          /\ ((n + 1) + 1) - 1 = n + 1
      BY <2>4, <1>1
    <3>2. t[(n + 1) + 1] = s[(n + 1) + 1]
      OBVIOUS
    <3>3. c[(n + 1) + 1] = c[n + 1] \o Newline(s[(n + 1) + 1])
      BY <2>1, <3>1 DEF Breaks
    <3>4. d[(n + 1) + 1] = d[n + 1] \o Newline(t[(n + 1) + 1])
      BY <2>2, <3>1 DEF Breaks
    <3> QED BY <3>1, <3>2, <3>3, <3>4
  <2>5. alike = Nat
    <3>1. alike \subseteq Nat
      OBVIOUS
    <3> HIDE DEF alike
    <3> QED BY <2>3, <2>4, <3>1, SetInduction
  <2>6. d[p] = c[p]
    <3>1. p - 1 \in Nat /\ (p - 1) + 1 = p /\ p \in 1..p
      OBVIOUS
    <3> QED BY <2>5, <3>1
  <2> HIDE DEF alike
  <2> DEFINE longer == {n \in Nat : p + n <= Len(s) =>
                           Len(d[(p + n) + 1]) = Len(c[p + n]) + 2}
  <2>7. 0 \in longer
    <3>1. /\ p + 1 \in 2..Len(t) /\ (p + 1) - 1 = p /\ p \in 1..Len(s) /\ p \in 1..Len(t)
          /\ p + 0 = p
      BY <1>1
    <3>2. d[p + 1] = d[p] \o Newline("lf")
      BY <2>2, <3>1 DEF Breaks
    <3>3. d[p] \in Seq(Trivia)
      BY <2>2, <3>1 DEF Breaks
    <3>4. Newline("lf") \in Seq(Trivia) /\ Len(Newline("lf")) = 2
      BY NewlineFacts DEF Trivia
    <3>5. Len(d[p + 1]) = Len(c[p]) + 2
      <4>1. Len(d[p] \o Newline("lf")) = Len(d[p]) + Len(Newline("lf"))
        BY <3>3, <3>4, ConcatProperties
      <4> QED BY <2>6, <3>2, <3>4, <4>1
    <3> QED BY <3>1, <3>5
  <2>8. ASSUME NEW n \in longer PROVE n + 1 \in longer
    <3> SUFFICES ASSUME p + (n + 1) <= Len(s)
                 PROVE  Len(d[(p + (n + 1)) + 1]) = Len(c[p + (n + 1)]) + 2
      OBVIOUS
    <3>1. n \in Nat /\ Len(d[(p + n) + 1]) = Len(c[p + n]) + 2
      BY <2>8, <1>1
    <3> DEFINE k == p + (n + 1)
    <3>2. /\ k \in 2..Len(s) /\ k - 1 = p + n /\ k - 1 \in 1..Len(s)
          /\ k + 1 \in 2..Len(t) /\ (k + 1) - 1 = k /\ k \in 1..Len(t)
          /\ k \in (p + 1)..Len(s) /\ k \in 1..Len(s) /\ (p + n) + 1 = k
      BY <3>1, <1>1
    <3> HIDE DEF k
    <3>3. c[k] = c[k - 1] \o Newline(s[k]) /\ c[k - 1] \in Seq(Trivia)
      BY <2>1, <3>2 DEF Breaks
    <3>4. d[k + 1] = d[k] \o Newline(t[k + 1]) /\ d[k] \in Seq(Trivia)
      BY <2>2, <3>2 DEF Breaks
    <3>5. t[k + 1] = s[k] /\ s[k] \in Trivia
      BY <3>2, ElementOfSeq
    <3>6. Newline(s[k]) \in Seq(Trivia) /\ Len(Newline(s[k])) \in Nat
      BY <3>5, NewlineFacts
    <3>7. Len(c[k]) = Len(c[k - 1]) + Len(Newline(s[k]))
      BY <3>3, <3>6, ConcatProperties
    <3>8. Len(d[k + 1]) = Len(d[k]) + Len(Newline(s[k]))
      BY <3>4, <3>5, <3>6, ConcatProperties
    <3>9. Len(c[k - 1]) \in Nat /\ Len(d[k]) = Len(c[k - 1]) + 2
      BY <3>1, <3>2, <3>3, LenProperties
    <3>10. Len(d[k + 1]) = Len(c[k]) + 2
      <4>1. \A a, b \in Nat : (a + 2) + b = (a + b) + 2
        OBVIOUS
      <4> QED BY ONLY <3>6, <3>7, <3>8, <3>9, <4>1
    <3> QED BY <3>10 DEF k
  <2>9. longer = Nat
    <3>1. longer \subseteq Nat
      OBVIOUS
    <3> HIDE DEF longer
    <3> QED BY <2>7, <2>8, <3>1, SetInduction
  <2>10. Len(d[Len(t)]) = Len(c[Len(s)]) + 2
    <3>1. /\ Len(s) - p \in Nat /\ p + (Len(s) - p) = Len(s)
          /\ (p + (Len(s) - p)) + 1 = Len(t)
      BY <1>1
    <3>2. p + (Len(s) - p) <= Len(s)
      BY <3>1, <1>1
    <3>3. Len(s) - p \in longer
      BY <2>9, <3>1
    <3>4. Len(d[(p + (Len(s) - p)) + 1]) = Len(c[p + (Len(s) - p)]) + 2
      BY <3>2, <3>3
    <3> QED BY <3>1, <3>4
  <2>11. Len(c[Len(s)]) \in Nat
    <3>1. Len(s) \in 1..Len(s)
      BY <1>1
    <3>2. c[Len(s)] \in Seq(Trivia)
      BY <3>1, <2>1 DEF Breaks
    <3> QED BY <3>2, LenProperties
  <2> QED BY <2>1, <2>2, <2>10, <2>11
<1> QED BY <1>2, <1>3

LEMMA ReplacementFacts ==
    ASSUME NEW gap \in Seq(Trivia), LfPositions(gap) # {}, NEW blanks \in 0..1
    PROVE  LET r == BlankLineReplacement(gap, blanks)
               kept == Len(gap) - LastLf(gap)
           IN  /\ r \in Seq(Trivia) /\ r # <<>>
               /\ Len(r) = FirstLf(gap) + blanks + kept
               /\ \A k \in 1..FirstLf(gap) : r[k] = gap[k]
               /\ blanks = 1 => r[FirstLf(gap) + 1] = "lf"
               /\ \A k \in 1..kept : r[FirstLf(gap) + blanks + k] = gap[LastLf(gap) + k]
<1> DEFINE F == FirstLf(gap)
           L == LastLf(gap)
           kept == Len(gap) - L
           head == SubSeq(gap, 1, F)
           lines == [k \in 1..blanks |-> "lf"]
           tail == SubSeq(gap, L + 1, Len(gap))
           r == (head \o lines) \o tail
<1>1. Len(gap) \in Nat /\ F \in 1..Len(gap) /\ L \in 1..Len(gap)
  BY LenProperties, LineBreaks
<1>2. \A k \in 1..Len(gap) : gap[k] \in Trivia
  BY ElementOfSeq
<1>3. BlankLineReplacement(gap, blanks) = r
  BY DEF BlankLineReplacement
<1> HIDE DEF F, L
<1>4. head \in Seq(Trivia) /\ Len(head) = F /\ \A k \in 1..F : head[k] = gap[k]
  <2>1. 1 \in Int /\ F \in Int /\ \A k \in 1..F : gap[k] \in Trivia
    BY <1>1, <1>2
  <2>2. /\ head \in Seq(Trivia) /\ Len(head) = IF 1 <= F THEN F - 1 + 1 ELSE 0
        /\ \A k \in 1..(F - 1 + 1) : head[k] = gap[1 + k - 1]
    BY ONLY <2>1, SubSeqProperties
  <2>3. F - 1 + 1 = F /\ 1 <= F /\ \A k \in 1..F : 1 + k - 1 = k
    BY <1>1
  <2> HIDE DEF head
  <2> QED BY <2>2, <2>3
<1>5. tail \in Seq(Trivia) /\ Len(tail) = kept /\ \A k \in 1..kept : tail[k] = gap[L + k]
  <2>1. L + 1 \in Int /\ Len(gap) \in Int /\ \A k \in (L + 1)..Len(gap) : gap[k] \in Trivia
    BY <1>1, <1>2
  <2>2. /\ tail \in Seq(Trivia)
        /\ Len(tail) = IF L + 1 <= Len(gap) THEN Len(gap) - (L + 1) + 1 ELSE 0
        /\ \A k \in 1..(Len(gap) - (L + 1) + 1) : tail[k] = gap[(L + 1) + k - 1]
    BY ONLY <2>1, SubSeqProperties
  <2>3. /\ Len(gap) - (L + 1) + 1 = kept
        /\ ~(L + 1 <= Len(gap)) => kept = 0
        /\ \A k \in 1..kept : (L + 1) + k - 1 = L + k
    BY <1>1
  <2> HIDE DEF tail
  <2> QED BY <2>2, <2>3
<1>6. lines \in Seq(Trivia) /\ Len(lines) = blanks
  <2>1. lines \in [1..blanks -> Trivia] /\ DOMAIN lines = 1..blanks
    BY DEF Trivia
  <2> HIDE DEF lines
  <2>2. lines \in Seq(Trivia)
    BY <2>1, SeqDef
  <2> QED BY <2>1, <2>2, LenProperties
<1>7. \A k \in 1..blanks : lines[k] = "lf"
  OBVIOUS
<1> HIDE DEF head, tail, lines
<1> DEFINE both == head \o lines
<1>8. /\ both \in Seq(Trivia) /\ Len(both) = F + blanks
      /\ \A k \in 1..(F + blanks) : both[k] = IF k <= F THEN head[k] ELSE lines[k - F]
  BY <1>4, <1>6, ConcatProperties
<1>9. r = both \o tail
  OBVIOUS
<1>11. kept \in Nat /\ F \in Nat \ {0}
  BY <1>1
<1> HIDE DEF both, r, kept
<1>10. /\ r \in Seq(Trivia) /\ Len(r) = (F + blanks) + kept
       /\ \A k \in 1..((F + blanks) + kept) :
             r[k] = IF k <= F + blanks THEN both[k] ELSE tail[k - (F + blanks)]
  <2>1. /\ both \o tail \in Seq(Trivia) /\ Len(both \o tail) = Len(both) + Len(tail)
        /\ \A k \in 1..(Len(both) + Len(tail)) :
              (both \o tail)[k] = IF k <= Len(both) THEN both[k] ELSE tail[k - Len(both)]
    BY ONLY <1>5, <1>8, ConcatProperties
  <2> QED BY <2>1, <1>5, <1>8, <1>9
<1>12. \A k \in 1..F : r[k] = gap[k]
  <2>1. \A k \in 1..F : k \in 1..(F + blanks) /\ k \in 1..((F + blanks) + kept) /\ k <= F + blanks
    BY <1>11
  <2> QED BY <2>1, <1>4, <1>8, <1>10
<1>13. blanks = 1 => r[F + 1] = "lf"
  <2> SUFFICES ASSUME blanks = 1 PROVE r[F + 1] = "lf"
    OBVIOUS
  <2>1. /\ F + 1 \in 1..(F + blanks) /\ F + 1 \in 1..((F + blanks) + kept)
        /\ F + 1 <= F + blanks /\ ~(F + 1 <= F) /\ (F + 1) - F = 1 /\ 1 \in 1..blanks
    BY <1>11
  <2> QED BY <2>1, <1>7, <1>8, <1>10
<1>14. \A k \in 1..kept : r[F + blanks + k] = gap[L + k]
  <2> SUFFICES ASSUME NEW k \in 1..kept PROVE r[F + blanks + k] = gap[L + k]
    OBVIOUS
  <2>1. /\ F + blanks + k \in 1..((F + blanks) + kept)
        /\ ~(F + blanks + k <= F + blanks) /\ (F + blanks + k) - (F + blanks) = k
    BY <1>11
  <2> QED BY <2>1, <1>5, <1>10
<1>15. r # <<>>
  <2>1. Len(r) # 0
    BY <1>10, <1>11
  <2> QED BY <2>1, EmptySeq
<1> QED BY <1>3, <1>10, <1>12, <1>13, <1>14, <1>15 DEF F, L, kept

LEMMA ReplacementsDiffer ==
    ASSUME NEW raw, NEW gap \in Seq(Trivia), LfPositions(gap) # {}
    PROVE  OriginalNewlines(raw, BlankLineReplacement(gap, 0))
              # OriginalNewlines(raw, BlankLineReplacement(gap, 1))
<1> DEFINE F == FirstLf(gap)
           L == LastLf(gap)
           kept == Len(gap) - L
           s == BlankLineReplacement(gap, 0)
           t == BlankLineReplacement(gap, 1)
<1>1. F \in Nat \ {0} /\ kept \in Nat
  BY LineBreaks, LenProperties
<1>2. /\ s \in Seq(Trivia) /\ Len(s) = F + 0 + kept
      /\ \A k \in 1..F : s[k] = gap[k]
      /\ \A k \in 1..kept : s[F + 0 + k] = gap[L + k]
  BY ReplacementFacts
<1>3. /\ t \in Seq(Trivia) /\ Len(t) = F + 1 + kept
      /\ \A k \in 1..F : t[k] = gap[k]
      /\ t[F + 1] = "lf"
      /\ \A k \in 1..kept : t[F + 1 + k] = gap[L + k]
  BY ReplacementFacts
<1> HIDE DEF F, L, kept, s, t
<1>4. F <= Len(s) /\ Len(t) = Len(s) + 1 /\ \A i \in 1..F : t[i] = s[i]
  BY <1>1, <1>2, <1>3
<1>5. ASSUME NEW i \in (F + 1)..Len(s) PROVE t[i + 1] = s[i]
  <2>1. i - F \in 1..kept /\ F + 0 + (i - F) = i /\ F + 1 + (i - F) = i + 1
    BY <1>1, <1>2
  <2> QED BY <2>1, <1>2, <1>3
<1>6. OriginalNewlines(raw, s) # OriginalNewlines(raw, t)
  BY <1>1, <1>2, <1>3, <1>4, <1>5, NewlineAdded
<1> QED BY <1>6 DEF s, t

-----------------------------------------------------------------------------
(* Items and the edits they become.                                        *)

Texts == orig \in [Files -> Seq(Char)]

\* A finding with a fix, in the terms of what the compiler reads.
LEMMA FixFacts ==
    ASSUME Texts, NEW f \in Files, NEW i \in Items(f), i.fix
    PROVE  /\ ~Mixed(orig[f]) /\ i.file = f /\ i.blanks \in 0..1
           /\ Normalized(orig[f]) \in Seq(Char) /\ orig[f] \in Seq(Char)
           /\ i.gap[1] \in 0..Len(Normalized(orig[f]))
           /\ i.gap[2] \in 0..Len(Normalized(orig[f]))
           /\ i.gap[1] < i.gap[2] /\ i.gap = <<i.gap[1], i.gap[2]>>
           /\ \A k \in (i.gap[1] + 1)..i.gap[2] : Normalized(orig[f])[k] \in Trivia
           /\ Slice(Normalized(orig[f]), i.gap[1], i.gap[2]) \in Seq(Trivia)
           /\ LfPositions(Slice(Normalized(orig[f]), i.gap[1], i.gap[2])) # {}
<1> DEFINE s == Normalized(orig[f])
<1>1. Readable(orig[f])
  BY DEF Items
<1>2. /\ i.file = f /\ i.gap \in Gaps(s) /\ i.blanks \in 0..1
      /\ Vertical(s, i.gap)
  BY <1>1 DEF Items
<1>3. orig[f] \in Seq(Char)
  BY DEF Texts
<1>4. s \in Seq(Char)
  BY <1>3, CharAssumption, NormalizedFacts
<1> HIDE DEF s
<1>5. /\ i.gap[1] \in 0..Len(s) /\ i.gap[2] \in 0..Len(s) /\ i.gap[1] < i.gap[2]
      /\ i.gap = <<i.gap[1], i.gap[2]>>
      /\ \A k \in (i.gap[1] + 1)..i.gap[2] : s[k] \in Trivia
  BY <1>2, <1>4, GapFacts
<1>6. Slice(s, i.gap[1], i.gap[2]) \in Seq(Trivia)
  <2>1. i.gap[1] \in Nat /\ i.gap[2] \in Nat
    BY <1>5
  <2> QED BY ONLY <1>5, <2>1, SliceFacts
<1> QED BY <1>1, <1>2, <1>3, <1>4, <1>5, <1>6 DEF s, Readable, Vertical

\* Its suggestion is a replacement of whitespace by whitespace within the file.
LEMMA SpanFacts ==
    ASSUME Texts, NEW f \in Files, NEW i \in Items(f), i.fix
    PROVE  /\ Span(i).start \in Nat /\ Span(i).end \in Nat
           /\ Span(i).start < Span(i).end /\ Span(i).end \in 0..Len(orig[f])
           /\ Slice(orig[f], Span(i).start, Span(i).end) \in Seq(Trivia)
           /\ After(i) \in Seq(Trivia)
<1> DEFINE s == Normalized(orig[f])
<1>1. /\ i.file = f /\ orig[f] \in Seq(Char) /\ i.blanks \in 0..1
      /\ i.gap[1] \in 0..Len(s) /\ i.gap[2] \in 0..Len(s) /\ i.gap[1] < i.gap[2]
      /\ \A k \in (i.gap[1] + 1)..i.gap[2] : s[k] \in Trivia
      /\ Slice(s, i.gap[1], i.gap[2]) \in Seq(Trivia)
      /\ LfPositions(Slice(s, i.gap[1], i.gap[2])) # {}
  BY FixFacts
<1>2. /\ Span(i).start = RawOffset(orig[f], i.gap[1])
      /\ Span(i).end = RawOffset(orig[f], i.gap[2])
  BY <1>1 DEF Span
<1>3. /\ RawOffset(orig[f], i.gap[1]) \in 0..Len(orig[f])
      /\ RawOffset(orig[f], i.gap[2]) \in 0..Len(orig[f])
  BY <1>1, CharAssumption, RawOffsetFacts
<1>4. RawOffset(orig[f], i.gap[1]) < RawOffset(orig[f], i.gap[2])
  BY <1>1, CharAssumption, RawOffsetOrder
<1>5. Slice(orig[f], RawOffset(orig[f], i.gap[1]), RawOffset(orig[f], i.gap[2])) \in Seq(Trivia)
  BY <1>1, CharAssumption, RawTrivia
<1>6. After(i) \in Seq(Trivia)
  <2> DEFINE r == BlankLineReplacement(Slice(s, i.gap[1], i.gap[2]), i.blanks)
  <2>1. r \in Seq(Trivia) /\ r # <<>>
    BY <1>1, ReplacementFacts
  <2>2. After(i) = OriginalNewlines(orig[f], r)
    BY <1>1 DEF After, Planned
  <2> HIDE DEF r
  <2> QED BY <2>1, <2>2, NewlinesType
<1> QED BY <1>2, <1>3, <1>4, <1>5, <1>6

\* Suggestions lie to each other as the gaps do, and two for one gap ask for
\* the same text if and only if the planner did.
LEMMA PairFacts ==
    ASSUME Texts, NEW f \in Files, NEW i \in Items(f), i.fix, NEW j \in Items(f), j.fix
    PROVE  /\ Span(i).start < Span(j).end <=> i.gap[1] < j.gap[2]
           /\ Span(i).start = Span(j).start <=> i.gap[1] = j.gap[1]
           /\ Span(i).end = Span(j).end <=> i.gap[2] = j.gap[2]
           /\ i.gap = j.gap => (After(i) = After(j) <=> Planned(i) = Planned(j))
<1> DEFINE s == Normalized(orig[f])
           R(n) == RawOffset(orig[f], n)
<1>1. /\ i.file = f /\ orig[f] \in Seq(Char) /\ i.blanks \in 0..1
      /\ i.gap[1] \in 0..Len(s) /\ i.gap[2] \in 0..Len(s)
      /\ Slice(s, i.gap[1], i.gap[2]) \in Seq(Trivia)
      /\ LfPositions(Slice(s, i.gap[1], i.gap[2])) # {}
  BY FixFacts
<1>2. /\ j.file = f /\ j.blanks \in 0..1
      /\ j.gap[1] \in 0..Len(s) /\ j.gap[2] \in 0..Len(s)
  BY FixFacts
<1>3. /\ Span(i).start = R(i.gap[1]) /\ Span(i).end = R(i.gap[2])
      /\ Span(j).start = R(j.gap[1]) /\ Span(j).end = R(j.gap[2])
  BY <1>1, <1>2 DEF Span
<1>4. ASSUME NEW a \in 0..Len(s), NEW b \in 0..Len(s)
      PROVE  (a < b <=> R(a) < R(b)) /\ R(a) \in Int
  <2>1. R(a) \in 0..Len(orig[f])
    BY <1>1, CharAssumption, RawOffsetFacts
  <2>2. a < b <=> R(a) < R(b)
    BY <1>1, CharAssumption, RawOffsetOrder
  <2> QED BY <2>1, <2>2
<1> HIDE DEF R, s
<1>5. ASSUME NEW a \in 0..Len(s), NEW b \in 0..Len(s) PROVE a = b <=> R(a) = R(b)
  <2>1. (a < b <=> R(a) < R(b)) /\ (b < a <=> R(b) < R(a)) /\ R(a) \in Int /\ R(b) \in Int
    BY <1>4
  <2>2. a \in Int /\ b \in Int
    OBVIOUS
  <2> QED BY <2>1, <2>2
<1>6. ASSUME i.gap = j.gap PROVE After(i) = After(j) <=> Planned(i) = Planned(j)
  <2> DEFINE gap == Slice(s, i.gap[1], i.gap[2])
             fix(n) == BlankLineReplacement(gap, n)
  <2>1. /\ Planned(i) = [start |-> i.gap[1], end |-> i.gap[2], fix |-> fix(i.blanks)]
        /\ Planned(j) = [start |-> i.gap[1], end |-> i.gap[2], fix |-> fix(j.blanks)]
    BY <1>1, <1>2, <1>6 DEF Planned, s
  <2>2. /\ After(i) = OriginalNewlines(orig[f], fix(i.blanks))
        /\ After(j) = OriginalNewlines(orig[f], fix(j.blanks))
    BY <1>1, <1>2, <2>1 DEF After
  <2>3. OriginalNewlines(orig[f], fix(0)) # OriginalNewlines(orig[f], fix(1))
    BY <1>1, ReplacementsDiffer
  <2>4. Planned(i) = Planned(j) <=> fix(i.blanks) = fix(j.blanks)
    BY <2>1
  <2> HIDE DEF fix
  <2>5. \/ i.blanks = j.blanks
        \/ i.blanks = 0 /\ j.blanks = 1
        \/ i.blanks = 1 /\ j.blanks = 0
    BY <1>1, <1>2
  <2>6. CASE i.blanks = j.blanks
    BY <2>2, <2>4, <2>6
  <2>7. CASE i.blanks = 0 /\ j.blanks = 1
    <3>1. fix(0) # fix(1)
      BY <2>3
    <3>2. After(i) # After(j)
      BY <2>2, <2>3, <2>7
    <3> QED BY <2>4, <2>7, <3>1, <3>2
  <2>8. CASE i.blanks = 1 /\ j.blanks = 0
    <3>1. fix(0) # fix(1)
      BY <2>3
    <3>2. After(i) # After(j)
      BY <2>2, <2>3, <2>8
    <3> QED BY <2>4, <2>8, <3>1, <3>2
  <2> QED BY <2>5, <2>6, <2>7, <2>8
<1>7. i.gap[1] < j.gap[2] <=> R(i.gap[1]) < R(j.gap[2])
  BY <1>1, <1>2, <1>4
<1>8. /\ i.gap[1] = j.gap[1] <=> R(i.gap[1]) = R(j.gap[1])
      /\ i.gap[2] = j.gap[2] <=> R(i.gap[2]) = R(j.gap[2])
  BY <1>1, <1>2, <1>5, SMTT(30)
<1> QED BY <1>3, <1>6, <1>7, <1>8

-----------------------------------------------------------------------------
(* The verdict of a collection.                                            *)

\* The edit that a finding's suggestion becomes, if the file is what was linted.
OrigEdit(i) ==
    [file |-> i.file, start |-> Span(i).start, end |-> Span(i).end,
     before |-> Slice(orig[i.file], Span(i).start, Span(i).end), after |-> After(i)]

Fixed == {i \in AllItems : i.fix}

\* Reports are about findings of the lint.
Known == /\ reported = [t \in Targets |-> reported[t]]
         /\ \A i \in AllItems : i.file \in Files /\ i \in Items(i.file)

Conflict == \E f \in Files : \/ Mixed(orig[f])
                             \/ \E d, e \in Fixes(f) : Contradict(d, e)

\* Nothing that targets agree on is lost before the verdict, and the verdict
\* is about all of it.
Exact ==
    ~touched =>
        /\ phase = "rejected" => Conflict
        /\ phase # "rejected" => edits = {OrigEdit(i) : i \in Fixed}
        /\ phase \notin {"collect", "rejected"} =>
              \A f \in Files : ~Mixed(orig[f]) /\ ~Overlapping(EditsOf(f))

\* What the lint finds depends on what it reads only.
LEMMA SameReading ==
    ASSUME orig' = orig
    PROVE  /\ \A i : Planned(i)' = Planned(i) /\ OrigEdit(i)' = OrigEdit(i)
           /\ \A f : Items(f)' = Items(f)
  BY DEF Planned, OrigEdit, Span, After, Items

LEMMA SameConflict ==
    ASSUME orig' = orig, reported' = reported
    PROVE  Conflict' = Conflict /\ Fixed' = Fixed /\ AllItems' = AllItems
  BY DEF Conflict, Fixes, Planned, AllItems, Fixed

\* Overlapping suggestions come from overlapping fixes.
LEMMA OverlapsConflict ==
    ASSUME Texts, Known, edits = {OrigEdit(i) : i \in Fixed},
           NEW f \in Files, Overlapping(EditsOf(f))
    PROVE  Conflict
<1>1. PICK d \in EditsOf(f), e \in EditsOf(f) : Before(d, e) /\ Clash(d, e)
  BY DEF Overlapping, Consecutive
<1>2. PICK i \in Fixed : d = OrigEdit(i)
  BY DEF EditsOf
<1>3. PICK j \in Fixed : e = OrigEdit(j)
  BY DEF EditsOf
<1>4. /\ d.file = f /\ d.start = Span(i).start /\ d.end = Span(i).end /\ i.file = f
      /\ e.file = f /\ e.start = Span(j).start /\ e.end = Span(j).end /\ j.file = f
  BY <1>2, <1>3 DEF OrigEdit, EditsOf
<1>5. i \in Items(f) /\ i.fix /\ j \in Items(f) /\ j.fix
  BY <1>2, <1>3, <1>4 DEF Known, Fixed
<1>6. /\ Span(i).start \in Nat /\ Span(i).end \in Nat /\ Span(i).start < Span(i).end
      /\ Span(j).start \in Nat /\ Span(j).end \in Nat /\ Span(j).start < Span(j).end
  BY <1>5, SpanFacts
<1>7. Span(i).start < Span(j).end /\ Span(j).start < Span(i).end
  BY <1>1, <1>4, <1>6 DEF Before, Clash
<1>8. i.gap[1] < j.gap[2] /\ j.gap[1] < i.gap[2]
  BY <1>5, <1>7, PairFacts
<1>9. Span(i).start # Span(j).start \/ Span(i).end # Span(j).end
  BY <1>1, <1>4, <1>6 DEF Before
<1>10. i.gap[1] # j.gap[1] \/ i.gap[2] # j.gap[2]
  BY <1>5, <1>9, PairFacts
<1>11. /\ Planned(i).start = i.gap[1] /\ Planned(i).end = i.gap[2]
       /\ Planned(j).start = j.gap[1] /\ Planned(j).end = j.gap[2]
  BY DEF Planned
<1>12. Contradict(Planned(i), Planned(j))
  BY <1>8, <1>10, <1>11 DEF Contradict
<1>13. Planned(i) \in Fixes(f) /\ Planned(j) \in Fixes(f)
  BY <1>2, <1>3, <1>4 DEF Fixes, Fixed
<1> QED BY <1>12, <1>13 DEF Conflict

\* Without overlap, and with one edit for a span, nothing contradicts.
LEMMA NoConflict ==
    ASSUME Texts, Known, OneForSpan, edits = {OrigEdit(i) : i \in Fixed},
           \A f \in Files : ~Mixed(orig[f]) /\ ~Overlapping(EditsOf(f))
    PROVE  ~Conflict
<1> SUFFICES ASSUME NEW f \in Files, NEW p \in Fixes(f), NEW q \in Fixes(f), Contradict(p, q)
             PROVE  FALSE
  BY DEF Conflict
<1>1. PICK i \in Fixed : i.file = f /\ p = Planned(i)
  BY DEF Fixes, Fixed
<1>2. PICK j \in Fixed : j.file = f /\ q = Planned(j)
  BY DEF Fixes, Fixed
<1>3. i \in Items(f) /\ i.fix /\ j \in Items(f) /\ j.fix
  BY <1>1, <1>2 DEF Known, Fixed
<1>4. /\ p.start = i.gap[1] /\ p.end = i.gap[2] /\ q.start = j.gap[1] /\ q.end = j.gap[2]
  BY <1>1, <1>2 DEF Planned
<1>5. /\ i.gap = <<i.gap[1], i.gap[2]>> /\ i.gap[1] < i.gap[2]
      /\ j.gap = <<j.gap[1], j.gap[2]>> /\ j.gap[1] < j.gap[2]
  BY <1>3, FixFacts
<1> DEFINE d == OrigEdit(i)
           e == OrigEdit(j)
<1>6. d \in EditsOf(f) /\ e \in EditsOf(f)
  BY <1>1, <1>2 DEF EditsOf, OrigEdit
<1>7. /\ d.file = f /\ d.start = Span(i).start /\ d.end = Span(i).end /\ d.after = After(i)
      /\ e.file = f /\ e.start = Span(j).start /\ e.end = Span(j).end /\ e.after = After(j)
  BY <1>1, <1>2 DEF OrigEdit
<1> HIDE DEF d, e
<1>8. ASSUME i.gap = j.gap PROVE FALSE
  <2>1. p # q
    BY <1>4, <1>8 DEF Contradict
  <2>2. After(i) # After(j)
    BY <1>1, <1>2, <1>3, <1>8, <2>1, PairFacts
  <2>3. d.start = e.start /\ d.end = e.end
    BY <1>3, <1>7, <1>8, PairFacts
  <2>4. d = e
    BY <1>6, <1>7, <2>3 DEF OneForSpan, Same, EditsOf
  <2> QED BY <1>7, <2>2, <2>4
<1>9. i.gap[1] # j.gap[1] \/ i.gap[2] # j.gap[2]
  BY <1>5, <1>8
<1>10. i.gap[1] < j.gap[2] /\ j.gap[1] < i.gap[2]
  BY <1>4, <1>9 DEF Contradict
<1>11. Span(i).start < Span(j).end /\ Span(j).start < Span(i).end
  BY <1>3, <1>10, PairFacts
<1>12. d.start # e.start \/ d.end # e.end
  BY <1>3, <1>7, <1>9, PairFacts
<1>13. \A x \in EditsOf(f) : x.start \in Nat /\ x.end \in Nat /\ x.start <= x.end
  <2> SUFFICES ASSUME NEW x \in EditsOf(f)
               PROVE  x.start \in Nat /\ x.end \in Nat /\ x.start <= x.end
    OBVIOUS
  <2>1. PICK k \in Fixed : x = OrigEdit(k)
    BY DEF EditsOf
  <2>2. k.file = f /\ x.start = Span(k).start /\ x.end = Span(k).end
    BY <2>1 DEF EditsOf, OrigEdit
  <2>3. k \in Items(f) /\ k.fix
    BY <2>1, <2>2 DEF Known, Fixed
  <2>4. Span(k).start \in Nat /\ Span(k).end \in Nat /\ Span(k).start < Span(k).end
    BY <2>3, SpanFacts
  <2> QED BY <2>2, <2>4
<1>14. Apart(d, e)
  BY <1>6, <1>12, <1>13, NeighboursSuffice
<1>15. d.start \in Nat /\ d.end \in Nat /\ e.start \in Nat /\ e.end \in Nat
  BY <1>6, <1>13
<1> QED BY <1>7, <1>11, <1>14, <1>15 DEF Apart

LEMMA InitExact == Init => Known /\ Exact
<1> SUFFICES ASSUME Init PROVE Known /\ Exact
  OBVIOUS
<1>1. AllItems = {} /\ reported = [t \in Targets |-> reported[t]]
  BY DEF Init, AllItems
<1>2. Fixed = {} /\ edits = {} /\ phase = "collect"
  BY <1>1 DEF Init, Fixed
<1> QED BY <1>1, <1>2 DEF Known, Exact

\* A report is rejected only for a conflict with one before it.
LEMMA ReportExact ==
    ASSUME IInv, Known, Exact, NEW t \in Targets, NEW f \in Files, NEW i \in Items(f),
           Report(t, i)
    PROVE  Known' /\ Exact'
<1>1. /\ orig' = orig /\ disk' = disk /\ touched' = touched /\ phase = "collect"
      /\ reported' = [reported EXCEPT ![t] = @ \cup {i}]
  BY DEF Report
<1>2. AllItems' = AllItems \cup {i}
  BY <1>1 DEF Known, AllItems
<1>3. i.file = f /\ i.fix \in BOOLEAN
  BY ItemFacts
<1>4. Known'
  <2>1. reported' = [u \in Targets |-> reported'[u]]
    BY <1>1 DEF Known
  <2>2. \A j \in AllItems' : j.file \in Files /\ j \in Items(j.file)
    BY <1>2, <1>3 DEF Known
  <2> QED BY <1>1, <2>1, <2>2, SameReading DEF Known
<1>5. Texts
  BY DEF IInv, TypeOK, Texts
<1>6. \A k : Planned(k)' = Planned(k) /\ OrigEdit(k)' = OrigEdit(k)
  BY <1>1, SameReading
<1>7. ASSUME ~touched, ~i.fix PROVE Exact'
  <2>1. Fixed' = Fixed
    BY <1>2, <1>7 DEF Fixed
  <2>2. edits' = edits /\ phase' = "collect"
    BY <1>1, <1>7 DEF Report
  <2>3. edits = {OrigEdit(k) : k \in Fixed}
    BY <1>1, <1>7 DEF Exact
  <2>4. edits' = {OrigEdit(k)' : k \in Fixed'}
    BY <1>6, <2>1, <2>2, <2>3
  <2> QED BY <2>2, <2>4 DEF Exact
<1>8. ASSUME ~touched, i.fix PROVE Exact'
  <2>1. disk[f] = orig[f]
    BY <1>1, <1>8 DEF IInv, Untouched, Begun
  <2> DEFINE e == OrigEdit(i)
  <2>2. EditOf(i) = e
    BY <1>3, <2>1 DEF EditOf, OrigEdit
  <2>3. /\ Span(i).start \in Nat /\ Span(i).end \in Nat
        /\ Span(i).start < Span(i).end /\ Span(i).end \in 0..Len(orig[f])
        /\ Slice(orig[f], Span(i).start, Span(i).end) \in Seq(Trivia)
        /\ After(i) \in Seq(Trivia)
    BY <1>5, <1>8, SpanFacts
  <2>4. InRange(i)
    BY <1>3, <2>1, <2>3 DEF InRange
  <2>5. /\ e.file = f /\ e.start = Span(i).start /\ e.end = Span(i).end
        /\ e.before = Slice(orig[f], Span(i).start, Span(i).end) /\ e.after = After(i)
    BY <1>3 DEF OrigEdit
  <2>6. edits = {OrigEdit(k) : k \in Fixed}
    BY <1>1, <1>8 DEF Exact
  <2>7. Fixed' = Fixed \cup {i}
    BY <1>2, <1>8 DEF Fixed
  <2>8. CASE \A d \in edits : Same(d, e) => d = e
    <3>1. Acceptable(e)
      BY <2>3, <2>5, <2>8 DEF Acceptable
    <3>2. edits' = Insert(e) /\ phase' = "collect"
      BY <1>1, <1>8, <2>2, <2>4, <3>1 DEF Report
    <3> HIDE DEF e
    <3>3. edits' = edits \cup {e}
      BY <2>8, <3>2 DEF Insert
    <3>4. {OrigEdit(k) : k \in Fixed'} = edits \cup {e}
      BY <2>6, <2>7 DEF e
    <3>5. edits' = {OrigEdit(k)' : k \in Fixed'}
      BY <1>6, <3>3, <3>4
    <3> QED BY <3>2, <3>5 DEF Exact
  <2>9. ASSUME NEW d \in edits, Same(d, e), d # e PROVE Exact'
    <3>1. PICK j \in Fixed : d = OrigEdit(j)
      BY <2>6
    <3>2. /\ j.file = f /\ d.start = Span(j).start /\ d.end = Span(j).end
          /\ j \in Items(f) /\ j.fix
      BY <2>5, <2>9, <3>1 DEF Same, OrigEdit, Known, Fixed
    <3>3. Span(j).start = Span(i).start /\ Span(j).end = Span(i).end
      BY <2>5, <2>9, <3>2 DEF Same
    <3>4. i.gap[1] = j.gap[1] /\ i.gap[2] = j.gap[2]
      BY <1>5, <1>8, <3>2, <3>3, PairFacts
    <3>5. i.gap = j.gap
      <4>1. i.gap = <<i.gap[1], i.gap[2]>>
        BY <1>5, <1>8, FixFacts
      <4>2. j.gap = <<j.gap[1], j.gap[2]>>
        BY <1>5, <3>2, FixFacts
      <4> QED BY <3>4, <4>1, <4>2
    <3>6. After(i) # After(j)
      BY <1>3, <2>9, <3>1, <3>2, <3>3 DEF OrigEdit
    <3>7. Planned(i) # Planned(j)
      BY <1>5, <1>8, <3>2, <3>5, <3>6, PairFacts
    <3>8. Contradict(Planned(i), Planned(j))
      BY <3>5, <3>7 DEF Contradict, Planned
    <3>9. i \in AllItems' /\ j \in AllItems'
      BY <1>2, <3>1 DEF Fixed
    <3>10. Planned(i)' \in Fixes(f)' /\ Planned(j)' \in Fixes(f)'
      BY <1>3, <1>8, <3>2, <3>9 DEF Fixes
    <3>11. Conflict'
      BY <1>6, <3>8, <3>10 DEF Conflict
    <3>12. phase' = "rejected"
      <4>1. ~Acceptable(EditOf(i))
        BY <2>2, <2>9 DEF Acceptable
      <4> QED BY <1>8, <4>1 DEF Report
    <3> QED BY <3>11, <3>12 DEF Exact
  <2> QED BY <2>8, <2>9
<1>9. CASE touched
  BY <1>1, <1>4, <1>9 DEF Exact
<1> QED BY <1>3, <1>4, <1>7, <1>8, <1>9

LEMMA CollectEndExact ==
    ASSUME IInv, Known, Exact, CollectEnd
    PROVE  Known' /\ Exact'
<1>1. /\ orig' = orig /\ reported' = reported /\ edits' = edits /\ touched' = touched
      /\ phase = "collect"
  BY DEF CollectEnd
<1>2. Texts
  BY DEF IInv, TypeOK, Texts
<1>3. Known'
  BY <1>1, SameReading, SameConflict DEF Known
<1>4. ASSUME ~touched PROVE Exact'
  <2>1. edits = {OrigEdit(k) : k \in Fixed}
    BY <1>1, <1>4 DEF Exact
  <2>2. edits' = {OrigEdit(k)' : k \in Fixed'}
    BY <1>1, <2>1, SameReading, SameConflict
  <2>3. CASE \E f \in Files : Overlapping(EditsOf(f)) \/ Mixed(orig[f])
    <3>1. phase' = "rejected"
      BY <2>3 DEF CollectEnd, Readable
    <3>2. Conflict
      <4>1. PICK f \in Files : Overlapping(EditsOf(f)) \/ Mixed(orig[f])
        BY <2>3
      <4>2. CASE Overlapping(EditsOf(f))
        BY <1>2, <2>1, <4>2, OverlapsConflict
      <4>3. CASE Mixed(orig[f])
        BY <4>3 DEF Conflict
      <4> QED BY <4>1, <4>2, <4>3
    <3> QED BY <1>1, <3>1, <3>2, SameConflict DEF Exact
  <2>4. CASE \A f \in Files : ~Overlapping(EditsOf(f)) /\ ~Mixed(orig[f])
    <3>1. phase' \in {"refused", "apply"}
      BY <2>4 DEF CollectEnd, Readable
    <3>2. \A f : EditsOf(f)' = EditsOf(f)
      BY <1>1 DEF EditsOf
    <3>3. \A f \in Files : (~Mixed(orig[f]) /\ ~Overlapping(EditsOf(f)))'
      BY <1>1, <2>4, <3>2
    <3> QED BY <2>2, <3>1, <3>3 DEF Exact
  <2> QED BY <2>3, <2>4
<1>5. CASE touched
  BY <1>1, <1>3, <1>5 DEF Exact
<1> QED BY <1>3, <1>4, <1>5

\* Afterwards neither the reports nor the edits change.
LEMMA LaterExact ==
    ASSUME Known, Exact,
           UNCHANGED <<orig, reported, edits>>, touched => touched',
           \/ phase' = phase
           \/ phase \notin {"collect", "rejected"} /\ phase' \notin {"collect", "rejected"}
    PROVE  Known' /\ Exact'
<1>1. Known'
  BY SameReading, SameConflict DEF Known
<1>2. {OrigEdit(k)' : k \in Fixed'} = {OrigEdit(k) : k \in Fixed} /\ Conflict' = Conflict
  BY SameReading, SameConflict
<1>3. \A f : EditsOf(f)' = EditsOf(f)
  BY DEF EditsOf
<1>4. \A f \in Files : (~Mixed(orig[f]) /\ ~Overlapping(EditsOf(f)))'
                         = (~Mixed(orig[f]) /\ ~Overlapping(EditsOf(f)))
  BY <1>3
<1>5. Exact'
  BY <1>2, <1>4 DEF Exact
<1> QED BY <1>1, <1>5

LEMMA ExactStep ==
    ASSUME IInv, Known, Exact, [Next]_vars
    PROVE  Known' /\ Exact'
<1>1. ASSUME NEW t \in Targets, NEW f \in Files, NEW i \in Items(f), Report(t, i)
      PROVE  Known' /\ Exact'
  BY <1>1, ReportExact
<1>2. CASE CollectEnd
  BY <1>2, CollectEndExact
<1>3. ASSUME NEW f \in Files, OpenFile(f) PROVE Known' /\ Exact'
  BY <1>3, LaterExact DEF OpenFile
<1>4. ASSUME NEW e \in todo, SpliceEdit(e) PROVE Known' /\ Exact'
  BY <1>4, LaterExact DEF SpliceEdit
<1>5. CASE WriteFile
  BY <1>5, LaterExact DEF WriteFile
<1>6. CASE ApplyEnd
  BY <1>6, LaterExact DEF ApplyEnd
<1>7. ASSUME NEW f \in Files, LateWrite(f) PROVE Known' /\ Exact'
  BY <1>7, LaterExact DEF LateWrite
<1>8. CASE Over \/ UNCHANGED vars
  BY <1>8, LaterExact DEF Over, vars
<1> QED BY <1>1, <1>2, <1>3, <1>4, <1>5, <1>6, <1>7, <1>8 DEF Next

\* Whichever target reports first and in whatever order, exactly the
\* collections with a contradiction in them are given up: offsets in the
\* file, without its byte order mark and with its line endings, compare as
\* those the planner used do.
THEOREM VerdictStaysExact == Spec => []VerdictIsExact
<1>1. Init => Known /\ Exact
  BY InitExact
<1>2. IInv /\ (Known /\ Exact) /\ [Next]_vars => (Known /\ Exact)'
  BY ExactStep
<1>3. IInv /\ Known /\ Exact => VerdictIsExact
  <2> SUFFICES ASSUME IInv, Known, Exact, ~touched, phase # "collect"
               PROVE  phase = "rejected" <=> Conflict
    BY DEF VerdictIsExact, Conflict
  <2>1. CASE phase # "rejected"
    BY <2>1, NoConflict DEF Exact, IInv, TypeOK, Texts
  <2> QED BY <2>1 DEF Exact
<1> QED BY <1>1, <1>2, <1>3, Invariance, PTL DEF Spec

-----------------------------------------------------------------------------
(* Texts with the line endings of a file.                                  *)

\* Induction over texts, for a set of them: a text grows at its end.
LEMMA TextInduction ==
    ASSUME NEW S, NEW T, T \subseteq Seq(S), <<>> \in T,
           \A s \in T : \A x \in S : Append(s, x) \in T
    PROVE  T = Seq(S)
<1> DEFINE good == {n \in Nat : \A s \in Seq(S) : Len(s) = n => s \in T}
<1>1. 0 \in good
  <2>1. \A s \in Seq(S) : Len(s) = 0 => s = <<>>
    BY EmptySeq
  <2> QED BY <2>1
<1>2. ASSUME NEW n \in good PROVE n + 1 \in good
  <2> SUFFICES ASSUME NEW s \in Seq(S), Len(s) = n + 1 PROVE s \in T
    BY <1>2
  <2>1. n \in Nat /\ s # <<>>
    BY <1>2, EmptySeq
  <2>2. PICK t \in Seq(S), x \in S : s = Append(t, x)
    BY <2>1, SequenceEmptyOrAppend
  <2>3. Len(t) = n
    BY <2>1, <2>2, AppendProperties, LenProperties
  <2>4. t \in T
    BY <1>2, <2>3
  <2> QED BY <2>2, <2>4
<1>3. good = Nat
  <2>1. good \subseteq Nat
    OBVIOUS
  <2> HIDE DEF good
  <2> QED BY <1>1, <1>2, <2>1, SetInduction
<1>4. ASSUME NEW s \in Seq(S) PROVE s \in T
  <2>1. Len(s) \in good
    BY <1>3, LenProperties
  <2> QED BY <2>1
<1> QED BY <1>4

\* A flattened sequence grows as the sequence does.
LEMMA FlattenAppend ==
    ASSUME NEW S, NEW q \in Seq(Seq(S)), NEW y \in Seq(S)
    PROVE  FlattenSeq(Append(q, y)) = FlattenSeq(q) \o y
<1> DEFINE m == Len(q)
           r == Append(q, y)
<1>1. /\ m \in Nat /\ r \in Seq(Seq(S)) /\ Len(r) = m + 1 /\ r[m + 1] = y
      /\ \A i \in 1..m : r[i] = q[i]
  BY LenProperties, AppendProperties
<1>2. m + 1 \in Nat \ {0}
  BY <1>1
<1> HIDE DEF r
<1>3. PICK d : /\ d[1] = r[1] /\ \A i \in 2..(m + 1) : d[i] = d[i - 1] \o r[i]
               /\ d[m + 1] = FlattenSeq(r)
  BY <1>1, <1>2, FlattenSteps
<1>4. CASE m = 0
  <2>1. FlattenSeq(r) = y
    BY <1>1, <1>3, <1>4
  <2>2. q = <<>>
    BY <1>4, EmptySeq
  <2>3. FlattenSeq(q) = <<>>
    BY <2>2, EmptySeq DEF FlattenSeq
  <2>4. <<>> \o y = y
    BY ConcatEmptySeq
  <2> QED BY <2>1, <2>3, <2>4 DEF r
<1>5. CASE m # 0
  <2>0. m \in Nat \ {0}
    BY <1>1, <1>5
  <2>1. PICK c : /\ c[1] = q[1] /\ \A i \in 2..m : c[i] = c[i - 1] \o q[i]
                 /\ c[m] = FlattenSeq(q)
    BY <2>0, FlattenSteps
  <2> DEFINE same == {n \in Nat : n + 1 <= m => c[n + 1] = d[n + 1]}
  <2>2. 0 \in same
    BY <2>0, <2>1, <1>1, <1>3
  <2>3. ASSUME NEW n \in same PROVE n + 1 \in same
    <3> SUFFICES ASSUME (n + 1) + 1 <= m PROVE c[(n + 1) + 1] = d[(n + 1) + 1]
      BY <2>3
    <3>1. /\ n \in Nat /\ n + 1 <= m /\ ((n + 1) + 1) - 1 = n + 1
          /\ (n + 1) + 1 \in 2..m /\ (n + 1) + 1 \in 2..(m + 1) /\ (n + 1) + 1 \in 1..m
      BY <2>3, <1>1
    <3>2. c[n + 1] = d[n + 1]
      BY <2>3, <3>1
    <3> HIDE DEF same, m
    <3>3. c[(n + 1) + 1] = c[n + 1] \o q[(n + 1) + 1]
      BY <2>1, <3>1
    <3>4. d[(n + 1) + 1] = d[n + 1] \o q[(n + 1) + 1]
      BY <1>1, <1>3, <3>1
    <3> QED BY <3>2, <3>3, <3>4
  <2>4. same = Nat
    <3>1. same \subseteq Nat
      OBVIOUS
    <3> HIDE DEF same
    <3> QED BY <2>2, <2>3, <3>1, SetInduction
  <2>5. m - 1 \in Nat /\ (m - 1) + 1 = m
    BY <2>0
  <2>6. c[m] = d[m]
    <3>1. m - 1 \in same
      BY <2>4, <2>5
    <3>2. (m - 1) + 1 <= m => c[(m - 1) + 1] = d[(m - 1) + 1]
      BY <3>1
    <3> HIDE DEF m
    <3> QED BY <2>5, <3>2, <1>1
  <2>7. m + 1 \in 2..(m + 1) /\ (m + 1) - 1 = m
    BY <2>0
  <2>8. d[m + 1] = d[m] \o r[m + 1]
    BY <1>3, <2>7
  <2> QED BY <1>1, <1>3, <2>1, <2>6, <2>8 DEF r
<1> QED BY <1>4, <1>5

\* A character with the line endings of a file.
Ending(raw, x) == IF IsCrLf(raw) THEN Newline(x) ELSE <<x>>

LEMMA EndingFacts ==
    ASSUME NEW S, Trivia \subseteq S, NEW raw, NEW x \in S
    PROVE  /\ Ending(raw, x) \in Seq(S) /\ Newline(x) \in Seq(S)
           /\ Len(Ending(raw, x)) \in 1..2
           /\ Ending(raw, x)[Len(Ending(raw, x))] = x
<1>1. "cr" \in S /\ "lf" \in S
  BY DEF Trivia
<1>2. <<"cr", "lf">> \in Seq(S) /\ <<x>> \in Seq(S)
  BY <1>1
<1>3. Newline(x) \in Seq(S) /\ Len(Newline(x)) \in 1..2 /\ Newline(x)[Len(Newline(x))] = x
  <2>1. CASE x = "lf"
    <3>1. Newline(x) = <<"cr", "lf">>
      BY <2>1 DEF Newline
    <3>2. PICK d \in Seq(S) : d = <<"cr", "lf">>
      BY <1>2
    <3>3. Len(d) = 2 /\ d[2] = "lf"
      BY <3>2
    <3>4. Newline(x) = d
      BY <3>1, <3>2
    <3> QED BY <2>1, <3>3, <3>4
  <2>2. CASE x # "lf"
    <3>1. Newline(x) = <<x>>
      BY <2>2 DEF Newline
    <3>2. Len(<<x>>) = 1 /\ <<x>>[1] = x
      OBVIOUS
    <3> QED BY <3>1, <3>2, <1>2
  <2> QED BY <2>1, <2>2
<1>4. CASE IsCrLf(raw)
  BY <1>3, <1>4 DEF Ending
<1>5. CASE ~IsCrLf(raw)
  <2>1. Ending(raw, x) = <<x>>
    BY <1>5 DEF Ending
  <2> QED BY <1>2, <1>3, <2>1
<1> QED BY <1>4, <1>5

\* Line endings are those of one character after the other.
LEMMA NewlinesAppend ==
    ASSUME NEW S, Trivia \subseteq S, NEW raw, NEW s \in Seq(S), NEW x \in S
    PROVE  OriginalNewlines(raw, Append(s, x)) = OriginalNewlines(raw, s) \o Ending(raw, x)
<1>1. CASE ~IsCrLf(raw)
  BY <1>1, AppendIsConcat DEF OriginalNewlines, Ending
<1>2. CASE IsCrLf(raw)
  <2> DEFINE t == Append(s, x)
             q == [i \in 1..Len(s) |-> Newline(s[i])]
             r == [i \in 1..Len(t) |-> Newline(t[i])]
  <2>1. /\ Len(s) \in Nat /\ Len(t) = Len(s) + 1 /\ t[Len(s) + 1] = x
        /\ \A i \in 1..Len(s) : t[i] = s[i] /\ s[i] \in S
    BY LenProperties, AppendProperties, ElementOfSeq
  <2>2. \A i \in 1..Len(s) : q[i] \in Seq(S)
    BY <2>1, EndingFacts
  <2>3. q \in Seq(Seq(S)) /\ Len(q) = Len(s)
    <3>1. q \in [1..Len(s) -> Seq(S)] /\ DOMAIN q = 1..Len(s)
      BY <2>2
    <3> HIDE DEF q
    <3>2. q \in Seq(Seq(S))
      BY <3>1, <2>1, SeqDef
    <3> QED BY <3>1, <3>2, <2>1, LenProperties
  <2>4. Newline(x) \in Seq(S)
    BY EndingFacts
  <2>5. r = Append(q, Newline(x))
    <3> DEFINE w == Append(q, Newline(x))
    <3>1. /\ w \in Seq(Seq(S)) /\ Len(w) = Len(s) + 1 /\ w[Len(s) + 1] = Newline(x)
          /\ \A i \in 1..Len(s) : w[i] = q[i]
      BY <2>3, <2>4, AppendProperties
    <3>2. w \in [1..(Len(s) + 1) -> Seq(S)]
      BY <3>1, LenProperties
    <3>3. \A i \in 1..(Len(s) + 1) : r[i] = Newline(t[i])
      BY <2>1
    <3>4. ASSUME NEW i \in 1..(Len(s) + 1) PROVE r[i] = w[i]
      <4>1. CASE i = Len(s) + 1
        BY <4>1, <2>1, <3>1, <3>3
      <4>2. CASE i # Len(s) + 1
        <5>1. i \in 1..Len(s)
          BY <4>2, <2>1
        <5>2. q[i] = Newline(s[i])
          BY <5>1
        <5> QED BY <5>1, <5>2, <2>1, <3>1, <3>3
      <4> QED BY <4>1, <4>2
    <3>5. r = [i \in 1..(Len(s) + 1) |-> r[i]]
      BY <2>1
    <3>6. w = [i \in 1..(Len(s) + 1) |-> w[i]]
      BY <3>2
    <3> HIDE DEF r, w
    <3> QED BY <3>4, <3>5, <3>6 DEF w
  <2>6. OriginalNewlines(raw, s) = FlattenSeq(q) /\ OriginalNewlines(raw, t) = FlattenSeq(r)
    BY <1>2 DEF OriginalNewlines, Newline
  <2>7. Ending(raw, x) = Newline(x)
    BY <1>2 DEF Ending
  <2> HIDE DEF q, r
  <2> QED BY <2>3, <2>4, <2>5, <2>6, <2>7, FlattenAppend
<1> QED BY <1>1, <1>2

LEMMA NewlinesEmpty ==
    ASSUME NEW raw PROVE OriginalNewlines(raw, <<>>) = <<>>
<1> DEFINE q == [i \in 1..Len(<<>>) |-> IF <<>>[i] = "lf" THEN <<"cr", "lf">> ELSE <<(<<>>)[i]>>]
<1>1. q = <<>>
  OBVIOUS
<1>2. FlattenSeq(<<>>) = <<>>
  BY EmptySeq DEF FlattenSeq
<1> QED BY <1>1, <1>2 DEF OriginalNewlines

LEMMA NewlinesText ==
    ASSUME NEW S, Trivia \subseteq S, NEW raw
    PROVE  \A s \in Seq(S) : OriginalNewlines(raw, s) \in Seq(S)
<1> DEFINE T == {s \in Seq(S) : OriginalNewlines(raw, s) \in Seq(S)}
<1>1. <<>> \in T
  BY NewlinesEmpty, EmptySeq
<1>2. ASSUME NEW s \in T, NEW x \in S PROVE Append(s, x) \in T
  <2>1. s \in Seq(S) /\ OriginalNewlines(raw, s) \in Seq(S)
    BY <1>2
  <2>2. OriginalNewlines(raw, Append(s, x)) = OriginalNewlines(raw, s) \o Ending(raw, x)
    BY <2>1, NewlinesAppend
  <2>3. Ending(raw, x) \in Seq(S)
    BY EndingFacts
  <2>4. OriginalNewlines(raw, Append(s, x)) \in Seq(S)
    BY <2>1, <2>2, <2>3, ConcatProperties
  <2> QED BY <2>1, <2>4, AppendProperties
<1>3. T = Seq(S)
  <2>1. T \subseteq Seq(S)
    OBVIOUS
  <2> HIDE DEF T
  <2> QED BY <1>1, <1>2, <2>1, TextInduction
<1> QED BY <1>3

\* The line endings of two texts in a row are those of both.
LEMMA NewlinesConcat ==
    ASSUME NEW S, Trivia \subseteq S, NEW raw, NEW s \in Seq(S)
    PROVE  \A t \in Seq(S) : OriginalNewlines(raw, s \o t)
                                = OriginalNewlines(raw, s) \o OriginalNewlines(raw, t)
<1> DEFINE D(t) == OriginalNewlines(raw, t)
           T == {t \in Seq(S) : D(s \o t) = D(s) \o D(t)}
<1>0. \A t \in Seq(S) : D(t) \in Seq(S)
  BY NewlinesText
<1>1. <<>> \in T
  <2>1. s \o <<>> = s /\ D(s) \o <<>> = D(s) /\ <<>> \in Seq(S)
    BY <1>0, ConcatEmptySeq, EmptySeq
  <2> QED BY <2>1, NewlinesEmpty
<1>2. ASSUME NEW t \in T, NEW x \in S PROVE Append(t, x) \in T
  <2>1. t \in Seq(S) /\ D(s \o t) = D(s) \o D(t)
    BY <1>2
  <2>2. s \o t \in Seq(S) /\ Append(t, x) \in Seq(S)
    BY <2>1, ConcatProperties, AppendProperties
  <2>3. s \o Append(t, x) = Append(s \o t, x)
    BY <2>1, ConcatAppend
  <2>4. /\ D(Append(s \o t, x)) = D(s \o t) \o Ending(raw, x)
        /\ D(Append(t, x)) = D(t) \o Ending(raw, x)
    BY <2>1, <2>2, NewlinesAppend
  <2>5. Ending(raw, x) \in Seq(S)
    BY EndingFacts
  <2> HIDE DEF D
  <2>6. (D(s) \o D(t)) \o Ending(raw, x) = D(s) \o (D(t) \o Ending(raw, x))
    BY <1>0, <2>1, <2>5, ConcatAssociative, SMTT(30)
  <2>7. D(s \o Append(t, x)) = D(s) \o D(Append(t, x))
    BY <2>1, <2>3, <2>4, <2>6
  <2> QED BY <2>2, <2>7
<1>3. T = Seq(S)
  <2>1. T \subseteq Seq(S)
    OBVIOUS
  <2> HIDE DEF T
  <2> QED BY <1>1, <1>2, <2>1, TextInduction
<1> QED BY <1>3

\* Texts with the same line endings put in are the same.
LEMMA NewlinesInjective ==
    ASSUME NEW S, Trivia \subseteq S, NEW raw
    PROVE  \A s, t \in Seq(S) : OriginalNewlines(raw, s) = OriginalNewlines(raw, t) => s = t
<1> DEFINE D(t) == OriginalNewlines(raw, t)
           T == {s \in Seq(S) : \A t \in Seq(S) : D(s) = D(t) => s = t}
<1>0. D(<<>>) = <<>> /\ \A t \in Seq(S) : D(t) \in Seq(S)
  BY NewlinesText, NewlinesEmpty
<1>5. \A t \in Seq(S) : \A x \in S : /\ D(Append(t, x)) = D(t) \o Ending(raw, x)
                                      /\ Ending(raw, x) \in Seq(S)
                                      /\ Len(Ending(raw, x)) \in 1..2
                                      /\ Ending(raw, x)[Len(Ending(raw, x))] = x
  BY NewlinesAppend, EndingFacts
<1> HIDE DEF D
<1>1. ASSUME NEW t \in Seq(S), NEW x \in S
      PROVE  /\ Len(D(Append(t, x))) \in Nat \ {0}
             /\ D(Append(t, x))[Len(D(Append(t, x)))] = x
  <2>1. /\ D(t) \in Seq(S) /\ D(Append(t, x)) = D(t) \o Ending(raw, x)
        /\ Ending(raw, x) \in Seq(S) /\ Len(Ending(raw, x)) \in 1..2
        /\ Ending(raw, x)[Len(Ending(raw, x))] = x
    BY <1>0, <1>5
  <2>2. Len(D(t)) \in Nat
    BY <2>1, LenProperties
  <2>3. /\ Len(D(Append(t, x))) = Len(D(t)) + Len(Ending(raw, x))
        /\ \A i \in 1..(Len(D(t)) + Len(Ending(raw, x))) :
              D(Append(t, x))[i] = IF i <= Len(D(t)) THEN D(t)[i]
                                   ELSE Ending(raw, x)[i - Len(D(t))]
    BY <2>1, ConcatProperties
  <2> DEFINE a == Len(D(t))
             b == Len(Ending(raw, x))
             n == a + b
  <2>4. n \in 1..(a + b) /\ ~(n <= a) /\ n - a = b /\ n \in Nat \ {0}
    <3>1. a \in Nat /\ b \in 1..2
      BY <2>1, <2>2
    <3> HIDE DEF a, b
    <3> QED BY <3>1
  <2>5. D(Append(t, x))[n] = Ending(raw, x)[Len(Ending(raw, x))]
    BY <2>3, <2>4
  <2> QED BY <2>1, <2>3, <2>4, <2>5
<1>2. <<>> \in T
  <2> SUFFICES ASSUME NEW t \in Seq(S), D(t) = <<>> PROVE t = <<>>
    BY <1>0, EmptySeq
  <2> SUFFICES ASSUME t # <<>> PROVE FALSE
    OBVIOUS
  <2>1. PICK u \in Seq(S), x \in S : t = Append(u, x)
    BY SequenceEmptyOrAppend
  <2> QED BY <2>1, <1>1, EmptySeq
<1>3. ASSUME NEW s \in T, NEW x \in S PROVE Append(s, x) \in T
  <2>0. s \in Seq(S) /\ Append(s, x) \in Seq(S)
    BY <1>3, AppendProperties
  <2> SUFFICES ASSUME NEW t \in Seq(S), D(Append(s, x)) = D(t) PROVE Append(s, x) = t
    BY <2>0
  <2>1. t # <<>>
    BY <2>0, <1>0, <1>1, EmptySeq
  <2>2. PICK u \in Seq(S), y \in S : t = Append(u, y)
    BY <2>1, SequenceEmptyOrAppend
  <2> DEFINE d == D(t)
             ending == Ending(raw, x)
  <2>3. x = y
    <3>1. d[Len(d)] = x /\ d[Len(d)] = y
      BY <2>0, <2>2, <1>1
    <3> QED BY <3>1
  <2>4. /\ D(s) \in Seq(S) /\ D(u) \in Seq(S) /\ ending \in Seq(S)
        /\ d = D(s) \o ending /\ d = D(u) \o ending
    BY <2>0, <2>2, <2>3, <1>0, <1>5
  <2>5. D(s) = D(u)
    <3> HIDE DEF d, ending
    <3>1. \A a, b, c \in Seq(S) : a \o c = b \o c => a = b
      BY ConcatSimplifications
    <3> QED BY <2>4, <3>1
  <2>6. s = u
    BY <1>3, <2>2, <2>5
  <2> QED BY <2>2, <2>3, <2>6
<1>4. T = Seq(S)
  <2>1. T \subseteq Seq(S)
    OBVIOUS
  <2> HIDE DEF T
  <2> QED BY <1>2, <1>3, <2>1, TextInduction
<1> QED BY <1>4 DEF D

\* In a text with CRLFs, every LF follows a CR, and there are as many as asked for.
LEMMA NewlinesFollow ==
    ASSUME NEW S, Trivia \subseteq S, NEW raw, IsCrLf(raw)
    PROVE  \A s \in Seq(S) :
              LET d == OriginalNewlines(raw, s)
              IN  /\ \A i \in 1..Len(d) : d[i] = "lf" => i > 1 /\ d[i - 1] = "cr"
                  /\ LfPositions(d) = {} <=> LfPositions(s) = {}
<1> DEFINE D(t) == OriginalNewlines(raw, t)
           Follow(t) == \A i \in 1..Len(D(t)) : D(t)[i] = "lf" => i > 1 /\ D(t)[i - 1] = "cr"
           Equal(t) == LfPositions(D(t)) = {} <=> LfPositions(t) = {}
           T == {t \in Seq(S) : Follow(t) /\ Equal(t)}
<1>0. D(<<>>) = <<>> /\ \A t \in Seq(S) : D(t) \in Seq(S)
  BY NewlinesText, NewlinesEmpty
<1>1. <<>> \in T
  <2>1. LfPositions(<<>>) = {}
    BY EmptySeq DEF LfPositions
  <2> HIDE DEF D
  <2> QED BY <1>0, <2>1, EmptySeq
<1>2. ASSUME NEW t \in T, NEW x \in S PROVE Append(t, x) \in T
  <2> DEFINE u == Append(t, x)
  <2>1. /\ t \in Seq(S) /\ u \in Seq(S) /\ Len(t) \in Nat /\ Len(u) = Len(t) + 1
        /\ u[Len(t) + 1] = x /\ \A i \in 1..Len(t) : u[i] = t[i]
    BY <1>2, AppendProperties, LenProperties
  <2>2. Follow(t) /\ Equal(t)
    BY <1>2
  <2>3. D(u) = D(t) \o Newline(x) /\ Newline(x) \in Seq(S) /\ D(t) \in Seq(S)
    BY <1>0, <2>1, NewlinesAppend, EndingFacts DEF Ending
  <2>4. /\ Len(D(t)) \in Nat /\ Len(D(u)) = Len(D(t)) + Len(Newline(x))
        /\ \A i \in 1..(Len(D(t)) + Len(Newline(x))) :
              D(u)[i] = IF i <= Len(D(t)) THEN D(t)[i] ELSE Newline(x)[i - Len(D(t))]
    BY <2>3, ConcatProperties, LenProperties
  <2> HIDE DEF D, u
  <2>5. CASE x = "lf"
    <3>1. Newline(x) = <<"cr", "lf">>
      BY <2>5 DEF Newline
    <3>2. /\ Len(D(u)) = Len(D(t)) + 2 /\ D(u)[Len(D(t)) + 1] = "cr"
          /\ D(u)[Len(D(t)) + 2] = "lf" /\ \A i \in 1..Len(D(t)) : D(u)[i] = D(t)[i]
      BY <3>1, <2>4
    <3>3. ASSUME NEW i \in 1..Len(D(u)), D(u)[i] = "lf" PROVE i > 1 /\ D(u)[i - 1] = "cr"
      <4>1. CASE i <= Len(D(t))
        <5>1. i > 1 /\ D(t)[i - 1] = "cr"
          BY <4>1, <3>2, <3>3, <2>2, <2>4
        <5> QED BY <4>1, <5>1, <3>2, <2>4, SMTT(30)
      <4>2. CASE i = Len(D(t)) + 1
        BY <4>2, <3>2, <3>3
      <4>3. CASE i = Len(D(t)) + 2
        BY <4>3, <3>2, <2>4
      <4> QED BY <4>1, <4>2, <4>3, <3>2, <2>4
    <3>4. LfPositions(D(u)) # {}
      <4>1. Len(D(t)) + 2 \in 1..Len(D(u))
        BY <3>2, <2>4
      <4> QED BY <4>1, <3>2 DEF LfPositions
    <3>5. LfPositions(u) # {}
      <4>1. Len(t) + 1 \in 1..Len(u)
        BY <2>1
      <4> QED BY <4>1, <2>1, <2>5 DEF LfPositions
    <3> QED BY <2>1, <3>3, <3>4, <3>5 DEF u
  <2>6. CASE x # "lf"
    <3>1. Newline(x) = <<x>>
      BY <2>6 DEF Newline
    <3>2. /\ Len(D(u)) = Len(D(t)) + 1 /\ D(u)[Len(D(t)) + 1] = x
          /\ \A i \in 1..Len(D(t)) : D(u)[i] = D(t)[i]
      BY <3>1, <2>4
    <3>3. ASSUME NEW i \in 1..Len(D(u)), D(u)[i] = "lf" PROVE i > 1 /\ D(u)[i - 1] = "cr"
      <4>1. i <= Len(D(t))
        BY <3>2, <3>3, <2>4, <2>6
      <4>2. i > 1 /\ D(t)[i - 1] = "cr"
        BY <4>1, <3>2, <3>3, <2>2, <2>4
      <4> QED BY <4>1, <4>2, <3>2, <2>4
    <3>4. LfPositions(D(u)) = LfPositions(D(t))
      BY <3>2, <2>4, <2>6 DEF LfPositions
    <3>5. LfPositions(u) = LfPositions(t)
      BY <2>1, <2>6 DEF LfPositions
    <3> QED BY <2>1, <2>2, <3>3, <3>4, <3>5 DEF u
  <2> QED BY <2>5, <2>6
<1>3. T = Seq(S)
  <2>1. T \subseteq Seq(S)
    OBVIOUS
  <2> HIDE DEF T
  <2> QED BY <1>1, <1>2, <2>1, TextInduction
<1> QED BY <1>3

-----------------------------------------------------------------------------
(* Reading a file and writing it back.                                     *)

Mark(raw) == IF HasBom(raw) THEN <<"bom">> ELSE <<>>
\* A text with the byte order mark and the line endings of a file.
Writes(raw, s) == Mark(raw) \o OriginalNewlines(raw, s)

LEMMA MarkFacts ==
    ASSUME NEW S, NEW raw \in Seq(S)
    PROVE  /\ Mark(raw) \in Seq(S)
           /\ HasBom(raw) => Len(Mark(raw)) = 1 /\ Mark(raw)[1] = "bom" /\ Len(raw) >= 1
           /\ ~HasBom(raw) => Mark(raw) = <<>> /\ Len(Mark(raw)) = 0
           /\ Mark(raw) = SubSeq(raw, 1, Len(Mark(raw)))
<1>1. CASE HasBom(raw)
  <2>1. raw # <<>> /\ raw[1] = "bom" /\ Len(raw) \in Nat \ {0}
    BY <1>1, EmptySeq DEF HasBom
  <2>2. "bom" \in S
    BY <2>1, ElementOfSeq
  <2>3. PICK m \in Seq(S) : m = <<"bom">> /\ Len(m) = 1 /\ m[1] = "bom"
    <3>1. <<"bom">> \in Seq(S)
      BY <2>2
    <3> QED BY <3>1
  <2>4. Mark(raw) = m
    BY <1>1, <2>3 DEF Mark
  <2>5. SubSeq(raw, 1, 1) = m
    <3>1. 1 \in 1..Len(raw)
      BY <2>1
    <3>2. /\ SubSeq(raw, 1, 1) \in Seq(S) /\ Len(SubSeq(raw, 1, 1)) = 1
          /\ SubSeq(raw, 1, 1)[1] = raw[1]
      <4>1. \A i \in 1..1 : raw[i] \in S
        BY <2>1, <2>2
      <4>2. /\ SubSeq(raw, 1, 1) \in Seq(S)
            /\ Len(SubSeq(raw, 1, 1)) = IF 1 <= 1 THEN 1 - 1 + 1 ELSE 0
            /\ \A i \in 1..(1 - 1 + 1) : SubSeq(raw, 1, 1)[i] = raw[1 + i - 1]
        BY ONLY <4>1, SubSeqProperties
      <4> QED BY <4>2
    <3>3. \A i \in 1..Len(m) : m[i] = SubSeq(raw, 1, 1)[i]
      BY <2>1, <2>3, <3>2
    <3> QED BY <2>3, <3>2, <3>3, SeqEqual
  <2> QED BY <1>1, <2>1, <2>3, <2>4, <2>5
<1>2. CASE ~HasBom(raw)
  <2>1. Mark(raw) = <<>> /\ Len(<<>>) = 0 /\ <<>> \in Seq(S)
    BY <1>2, EmptySeq DEF Mark
  <2>2. SubSeq(raw, 1, 0) = <<>>
    BY SubSeqEmpty
  <2> QED BY <1>2, <2>1, <2>2
<1> QED BY <1>1, <1>2

LEMMA RawStart ==
    ASSUME NEW S, Trivia \subseteq S, NEW raw \in Seq(S)
    PROVE  RawOffset(raw, 0) = Len(Mark(raw))
<1> DEFINE v == VisitedSeq(raw)
           b == Len(Mark(raw))
           q == b + 1
<1>1. Lists(v, Visited(raw), Len(raw)) /\ Len(Normalized(raw)) = Len(v) /\ Len(raw) \in Nat
  BY VisitedLists, NormalizedFacts, LenProperties
<1>2. v \in Seq(Nat) /\ Len(v) \in Nat
  BY <1>1, LenProperties DEF Lists
<1>3. /\ b \in 0..1 /\ b <= Len(raw) /\ (b = 1 <=> HasBom(raw))
      /\ HasBom(raw) => raw[1] = "bom"
  <2>1. /\ HasBom(raw) => b = 1 /\ Len(raw) >= 1
        /\ ~HasBom(raw) => b = 0
    BY MarkFacts
  <2>2. HasBom(raw) => raw[1] = "bom"
    BY DEF HasBom
  <2> HIDE DEF b
  <2> QED BY <1>1, <2>1, <2>2
<1>4. q <= Len(raw) => q \in Visited(raw)
  <2> SUFFICES ASSUME q <= Len(raw) PROVE q \in Visited(raw)
    OBVIOUS
  <2> HIDE DEF b
  <2>1. ~CrLfAt(raw, q - 1)
    BY <1>3 DEF CrLfAt
  <2> QED BY <1>1, <1>3, <2>1 DEF Visited
<1>5. \A p \in Visited(raw) : p >= q
  <2> HIDE DEF b
  <2> QED BY <1>1, <1>3 DEF Visited
<1>6. /\ RawOffset(raw, 0) \in 0..Len(raw)
      /\ 0 < Len(Normalized(raw)) => RawOffset(raw, 0) + 1 = v[0 + 1]
      /\ 0 = Len(Normalized(raw)) => RawOffset(raw, 0) = Len(raw)
  <2>1. 0 \in 0..Len(Normalized(raw))
    BY <1>1, <1>2
  <2> QED BY <2>1, RawOffsetFacts
<1> HIDE DEF v, b
<1>7. CASE Len(v) = 0
  <2>1. ~(q <= Len(raw))
    BY <1>1, <1>2, <1>3, <1>4, <1>7 DEF Lists
  <2> QED BY <1>1, <1>3, <1>6, <1>7, <2>1 DEF b
<1>8. CASE Len(v) # 0
  <2>1. 1 \in 1..Len(v) /\ v[1] \in Visited(raw) /\ v[1] \in 1..Len(raw)
    BY <1>1, <1>2, <1>8 DEF Lists
  <2>2. v[1] >= q
    BY <1>5, <2>1
  <2>3. PICK k \in 1..Len(v) : v[k] = q
    <3>1. q \in 1..Len(raw)
      BY <1>1, <1>3, <2>1, <2>2
    <3> QED BY <1>1, <1>4, <3>1 DEF Lists
  <2>4. v[1] <= v[k]
    <3>1. k = 1 \/ 1 < k
      BY <1>2
    <3>2. 1 < k => v[1] < v[k]
      BY <1>1, <2>1 DEF Lists
    <3>3. v[k] \in Int
      BY <1>3, <2>3
    <3> QED BY <2>1, <3>1, <3>2, <3>3
  <2> QED BY <1>1, <1>2, <1>3, <1>6, <1>8, <2>1, <2>2, <2>3, <2>4 DEF b
<1> QED BY <1>7, <1>8

\* The offset after the next character of the text.
LEMMA RawNext ==
    ASSUME NEW S, Trivia \subseteq S, NEW raw \in Seq(S),
           NEW n \in Nat, n < Len(Normalized(raw))
    PROVE  LET p == RawOffset(raw, n) + 1
           IN  /\ p \in 1..Len(raw) /\ p \in Visited(raw)
               /\ RawOffset(raw, n + 1) = IF CrLfAt(raw, p) THEN p + 1 ELSE p
               /\ Normalized(raw)[n + 1] = IF CrLfAt(raw, p) THEN "lf" ELSE raw[p]
<1> DEFINE v == VisitedSeq(raw)
           p == RawOffset(raw, n) + 1
           q == IF CrLfAt(raw, p) THEN p + 2 ELSE p + 1
<1>1. Lists(v, Visited(raw), Len(raw)) /\ Len(Normalized(raw)) = Len(v) /\ Len(raw) \in Nat
  BY VisitedLists, NormalizedFacts, LenProperties
<1>2. v \in Seq(Nat) /\ Len(v) \in Nat
  BY <1>1, LenProperties DEF Lists
<1>3. n + 1 \in 1..Len(v)
  BY <1>1, <1>2
<1>4. p = v[n + 1]
  <2>1. n \in 0..Len(Normalized(raw))
    BY <1>1, <1>2
  <2> QED BY <2>1, RawOffsetFacts
<1>5. p \in 1..Len(raw) /\ p \in Visited(raw)
  BY <1>1, <1>3, <1>4 DEF Lists
<1>6. Normalized(raw)[n + 1] = IF CrLfAt(raw, p) THEN "lf" ELSE raw[p]
  BY <1>3, <1>4, NormalizedFacts
<1> HIDE DEF p, v
<1>7. q <= Len(raw) => q \in Visited(raw)
  <2> SUFFICES ASSUME q <= Len(raw) PROVE q \in Visited(raw)
    OBVIOUS
  <2>1. CASE CrLfAt(raw, p)
    <3>1. raw[p + 1] = "lf"
      BY <2>1 DEF CrLfAt
    <3>2. ~CrLfAt(raw, p + 1) /\ q = p + 2 /\ q - 1 = p + 1
      BY <2>1, <3>1, <1>5 DEF CrLfAt
    <3> QED BY <1>5, <3>2 DEF Visited
  <2>2. CASE ~CrLfAt(raw, p)
    <3>1. q = p + 1 /\ q - 1 = p
      BY <2>2, <1>5
    <3> QED BY <1>5, <2>2, <3>1 DEF Visited
  <2> QED BY <2>1, <2>2
<1>8. \A r \in Visited(raw) : r > p => r >= q
  <2> SUFFICES ASSUME NEW r \in Visited(raw), r > p PROVE r >= q
    OBVIOUS
  <2>1. r \in 1..Len(raw) /\ ~CrLfAt(raw, r - 1)
    BY DEF Visited
  <2>2. CASE CrLfAt(raw, p)
    <3>1. r # p + 1
      <4> SUFFICES ASSUME r = p + 1 PROVE FALSE
        OBVIOUS
      <4>1. r - 1 = p
        BY <1>5
      <4> QED BY <2>1, <2>2, <4>1
    <3> QED BY <2>1, <2>2, <3>1, <1>5
  <2>3. CASE ~CrLfAt(raw, p)
    BY <2>1, <2>3, <1>5
  <2> QED BY <2>2, <2>3
<1>9. q \in Int /\ q > p /\ q <= Len(raw) + 1
  BY <1>1, <1>5 DEF CrLfAt
<1> HIDE DEF q
<1>10. RawOffset(raw, n + 1) = q - 1
  <2>1. n + 1 \in 0..Len(Normalized(raw))
    BY <1>1, <1>3
  <2>2. CASE n + 1 = Len(v)
    <3>1. RawOffset(raw, n + 1) = Len(raw)
      BY <1>1, <2>1, <2>2, RawOffsetFacts
    <3>2. ~(q <= Len(raw))
      <4> SUFFICES ASSUME q <= Len(raw) PROVE FALSE
        OBVIOUS
      <4>1. PICK k \in 1..Len(v) : v[k] = q
        <5>1. q \in 1..Len(raw)
          BY <1>5, <1>9
        <5> QED BY <1>1, <1>7, <5>1 DEF Lists
      <4>2. k < n + 1 => v[k] < v[n + 1]
        BY <1>1, <1>3 DEF Lists
      <4>3. k = n + 1 \/ k < n + 1
        BY <1>2, <2>2
      <4> QED BY <1>4, <1>5, <1>9, <4>1, <4>2, <4>3
    <3> QED BY <1>1, <1>9, <3>1, <3>2
  <2>3. CASE n + 1 # Len(v)
    <3>1. n + 1 < Len(Normalized(raw)) /\ (n + 1) + 1 \in 1..Len(v)
      BY <1>1, <1>2, <1>3, <2>3
    <3>2. RawOffset(raw, n + 1) + 1 = v[(n + 1) + 1] /\ RawOffset(raw, n + 1) \in 0..Len(raw)
      BY <2>1, <3>1, RawOffsetFacts DEF v
    <3>3. /\ v[(n + 1) + 1] \in Visited(raw) /\ v[(n + 1) + 1] \in 1..Len(raw)
          /\ v[n + 1] < v[(n + 1) + 1]
      <4>1. n + 1 < (n + 1) + 1
        OBVIOUS
      <4> QED BY <1>1, <1>3, <3>1, <4>1 DEF Lists
    <3>4. v[(n + 1) + 1] >= q
      BY <1>4, <1>5, <1>8, <3>3
    <3>5. PICK k \in 1..Len(v) : v[k] = q
      <4>1. q \in 1..Len(raw)
        BY <1>1, <1>5, <1>9, <3>3, <3>4
      <4> QED BY <1>1, <1>7, <4>1 DEF Lists
    <3>6. ~(k < (n + 1) + 1)
      <4> SUFFICES ASSUME k < (n + 1) + 1 PROVE FALSE
        OBVIOUS
      <4>1. k = n + 1 \/ k < n + 1
        BY <1>2
      <4>2. k < n + 1 => v[k] < v[n + 1]
        BY <1>1, <1>3 DEF Lists
      <4> QED BY <1>4, <1>5, <1>9, <3>5, <4>1, <4>2
    <3>7. k > (n + 1) + 1 => v[(n + 1) + 1] < v[k]
      BY <1>1, <3>1 DEF Lists
    <3>8. v[(n + 1) + 1] = q
      <4>1. k = (n + 1) + 1 \/ k > (n + 1) + 1
        BY <3>6, <1>2
      <4>2. v[(n + 1) + 1] \in Int
        BY <3>3
      <4> QED BY <1>9, <3>4, <3>5, <3>7, <4>1, <4>2
    <3>9. RawOffset(raw, n + 1) \in Int
      BY <3>2
    <3> QED BY <3>2, <3>8, <3>9
  <2> QED BY <2>2, <2>3
<1>11. q - 1 = IF CrLfAt(raw, p) THEN p + 1 ELSE p
  BY <1>5 DEF q
<1> QED BY <1>5, <1>6, <1>10, <1>11 DEF p

\* A file that does not mix line endings is the text that is read from it, with
\* its mark and its line endings; so is the part of it before any offset.
LEMMA OwnText ==
    ASSUME NEW S, Trivia \subseteq S, NEW raw \in Seq(S), ~Mixed(raw)
    PROVE  /\ \A n \in 0..Len(Normalized(raw)) :
                 SubSeq(raw, 1, RawOffset(raw, n))
                     = Writes(raw, SubSeq(Normalized(raw), 1, n))
           /\ raw = Writes(raw, Normalized(raw))
<1> DEFINE N == Normalized(raw)
           R(n) == RawOffset(raw, n)
           Same1(n) == SubSeq(raw, 1, R(n)) = Writes(raw, SubSeq(N, 1, n))
           good == {n \in Nat : n <= Len(N) => Same1(n)}
<1>1. /\ N \in Seq(S) /\ Len(N) \in Nat /\ Len(raw) \in Nat
      /\ Mark(raw) \in Seq(S)
  BY NormalizedFacts, LenProperties, MarkFacts
<1>2. 0 \in good
  <2>1. R(0) = Len(Mark(raw)) /\ Mark(raw) = SubSeq(raw, 1, Len(Mark(raw)))
    BY RawStart, MarkFacts
  <2>2. SubSeq(N, 1, 0) = <<>> /\ OriginalNewlines(raw, <<>>) = <<>>
    BY SubSeqEmpty, NewlinesEmpty
  <2>3. Mark(raw) \o <<>> = Mark(raw)
    BY <1>1, ConcatEmptySeq
  <2> HIDE DEF N, R
  <2>4. Same1(0)
    BY <2>1, <2>2, <2>3 DEF Writes
  <2> QED BY <2>4
<1>3. ASSUME NEW n \in good PROVE n + 1 \in good
  <2> SUFFICES ASSUME n + 1 <= Len(N) PROVE Same1(n + 1)
    BY <1>3
  <2>1. n \in Nat /\ n < Len(N) /\ n + 1 \in 1..Len(N) /\ 1 \in 1..Len(N) /\ Same1(n)
    BY <1>1, <1>3
  <2> DEFINE p == R(n) + 1
             x == N[n + 1]
             head == SubSeq(N, 1, n)
  <2>2. /\ p \in 1..Len(raw) /\ p \in Visited(raw)
        /\ R(n + 1) = IF CrLfAt(raw, p) THEN p + 1 ELSE p
        /\ x = IF CrLfAt(raw, p) THEN "lf" ELSE raw[p]
    BY <2>1, RawNext
  <2>3. R(n) = p - 1
    <3>1. R(n) \in 0..Len(raw)
      <4>1. n \in 0..Len(N)
        BY <2>1
      <4> QED BY <4>1, RawOffsetFacts
    <3> QED BY <3>1
  <2>4. /\ head \in Seq(S) /\ x \in S
        /\ SubSeq(N, 1, n + 1) = Append(head, x)
    <3>1. x \in S
      BY <1>1, <2>1, ElementOfSeq
    <3>2. \A i \in 1..n : N[i] \in S
      BY <1>1, <2>1, ElementOfSeq
    <3>3. head \in Seq(S)
      BY <2>1, <3>2, SubSeqProperties
    <3>4. SubSeq(N, 1, n + 1) = SubSeq(N, 1, (n + 1) - 1) \o <<N[n + 1]>>
      <4>1. 1 \in 1..Len(N) /\ n + 1 \in 1..Len(N)
        BY <2>1
      <4> HIDE DEF N
      <4> QED BY <1>1, <4>1, SubSeqRecursiveSecond
    <3>5. (n + 1) - 1 = n
      BY <2>1
    <3> QED BY <3>1, <3>3, <3>4, <3>5, AppendIsConcat
  <2>5. /\ OriginalNewlines(raw, Append(head, x))
             = OriginalNewlines(raw, head) \o Ending(raw, x)
        /\ OriginalNewlines(raw, head) \in Seq(S) /\ Ending(raw, x) \in Seq(S)
    <3> HIDE DEF head, x
    <3>1. OriginalNewlines(raw, head) \in Seq(S)
      BY <2>4, NewlinesText
    <3>2. Ending(raw, x) \in Seq(S)
      BY <2>4, EndingFacts
    <3>3. OriginalNewlines(raw, Append(head, x))
             = OriginalNewlines(raw, head) \o Ending(raw, x)
      BY <2>4, NewlinesAppend
    <3> QED BY <3>1, <3>2, <3>3
  <2>6. Writes(raw, Append(head, x)) = Writes(raw, head) \o Ending(raw, x)
    <3> DEFINE m == Mark(raw)
               d == OriginalNewlines(raw, head)
               e == Ending(raw, x)
    <3>1. m \in Seq(S) /\ d \in Seq(S) /\ e \in Seq(S)
      BY <1>1, <2>5
    <3>2. (m \o d) \o e = m \o (d \o e)
      <4> HIDE DEF m, d, e
      <4> QED BY <3>1, ConcatAssociative, SMTT(30)
    <3> QED BY <2>5, <3>2 DEF Writes
  <2>7. SubSeq(raw, 1, R(n + 1)) = SubSeq(raw, 1, R(n)) \o Ending(raw, x)
    <3> HIDE DEF p, R, N, x, head
    <3>1. SubSeq(raw, 1, p) = SubSeq(raw, 1, p - 1) \o <<raw[p]>>
      <4>1. 1 \in 1..Len(raw) /\ p \in 1..Len(raw)
        BY <1>1, <2>2
      <4> QED BY <4>1, SubSeqRecursiveSecond
    <3>2. CASE CrLfAt(raw, p)
      <4>1. /\ raw[p] = "cr" /\ raw[p + 1] = "lf" /\ x = "lf" /\ p + 1 \in 1..Len(raw)
            /\ R(n + 1) = p + 1 /\ p \in 1..Len(raw) /\ 1 \in 1..Len(raw)
        BY <3>2, <1>1, <2>2 DEF CrLfAt
      <4>2. IsCrLf(raw)
        BY <3>2, <4>1 DEF Mixed, IsCrLf, AnyCrLf
      <4>3. Ending(raw, x) = <<"cr", "lf">>
        BY <4>1, <4>2 DEF Ending, Newline
      <4>4. SubSeq(raw, 1, p + 1) = SubSeq(raw, 1, (p + 1) - 1) \o <<raw[p + 1]>>
        BY <4>1, SubSeqRecursiveSecond
      <4>5. (p + 1) - 1 = p
        BY <2>2
      <4>6. SubSeq(raw, 1, p - 1) \in Seq(S)
        <5>1. \A i \in 1..(p - 1) : raw[i] \in S
          BY <1>1, <2>2, ElementOfSeq
        <5>2. 1 \in Int /\ p - 1 \in Int
          BY <2>2
        <5> QED BY ONLY <5>1, <5>2, SubSeqProperties
      <4>7. PICK a \in Seq(S), b \in Seq(S) : a = <<"cr">> /\ b = <<"lf">>
        <5>1. "cr" \in S /\ "lf" \in S
          BY DEF Trivia
        <5>2. <<"cr">> \in Seq(S) /\ <<"lf">> \in Seq(S)
          BY <5>1
        <5> QED BY <5>2
      <4>8. a \o b = Ending(raw, x)
        <5>1. Len(a) = 1 /\ a[1] = "cr" /\ Len(b) = 1 /\ b[1] = "lf"
          BY <4>7
        <5>2. /\ a \o b \in Seq(S) /\ Len(a \o b) = 2
              /\ (a \o b)[1] = "cr" /\ (a \o b)[2] = "lf"
          BY <5>1, ConcatProperties
        <5>3. /\ Ending(raw, x) \in Seq(S) /\ Len(Ending(raw, x)) = 2
              /\ Ending(raw, x)[1] = "cr" /\ Ending(raw, x)[2] = "lf"
          BY <2>5, <4>3
        <5>4. \A i \in 1..2 : i = 1 \/ i = 2
          OBVIOUS
        <5> QED BY <5>2, <5>3, <5>4, SeqEqual
      <4> DEFINE front == SubSeq(raw, 1, p - 1)
      <4>9. (front \o a) \o b = front \o (a \o b)
        <5>1. front \in Seq(S)
          BY <4>6
        <5> HIDE DEF front
        <5> QED BY <5>1, ConcatAssociative, SMTT(30)
      <4> QED BY <3>1, <4>1, <4>4, <4>5, <4>7, <4>8, <4>9, <2>3
    <3>3. CASE ~CrLfAt(raw, p)
      <4>1. x = raw[p] /\ R(n + 1) = p
        BY <3>3, <2>2
      <4>2. Ending(raw, x) = <<x>>
        <5>1. CASE IsCrLf(raw)
          <6>1. x # "lf"
            <7> SUFFICES ASSUME x = "lf" PROVE FALSE
              OBVIOUS
            <7>1. LfAt(raw, p)
              BY <4>1, <2>2 DEF LfAt, Visited
            <7> QED BY <5>1, <7>1, <2>2 DEF IsCrLf, AnyLf
          <6> QED BY <6>1 DEF Ending, Newline
        <5>2. CASE ~IsCrLf(raw)
          BY <5>2 DEF Ending
        <5> QED BY <5>1, <5>2
      <4> QED BY <3>1, <4>1, <4>2, <2>3
    <3> QED BY <3>2, <3>3
  <2> HIDE DEF p, R, N, x, head
  <2> QED BY <2>1, <2>4, <2>6, <2>7 DEF head
<1>4. good = Nat
  <2>1. good \subseteq Nat
    OBVIOUS
  <2> HIDE DEF good
  <2> QED BY <1>2, <1>3, <2>1, SetInduction
<1>5. \A n \in 0..Len(N) : Same1(n)
  <2> SUFFICES ASSUME NEW n \in 0..Len(N) PROVE Same1(n)
    OBVIOUS
  <2>1. n \in good /\ n <= Len(N)
    BY <1>1, <1>4
  <2> HIDE DEF N, R
  <2> QED BY <2>1
<1>6. raw = Writes(raw, N)
  <2>1. Len(N) \in 0..Len(N)
    BY <1>1
  <2>2. Same1(Len(N))
    BY <1>5, <2>1
  <2>3. R(Len(N)) = Len(raw)
    BY <2>1, RawOffsetFacts
  <2>4. SubSeq(raw, 1, Len(raw)) = raw /\ SubSeq(N, 1, Len(N)) = N
    BY <1>1, SubSeqFull
  <2> HIDE DEF N, R
  <2> QED BY <2>2, <2>3, <2>4
<1> QED BY <1>5, <1>6

\* A text that can be read back from a file with the mark and the line endings
\* of another: a mark or a CRLF in it would be taken for one of the file.
Plain(raw, s) == /\ ~HasBom(raw) => s[1] # "bom"
                 /\ ~IsCrLf(raw) => ~AnyCrLf(s)
                 /\ LfPositions(s) # {}

LEMMA MarkedText ==
    ASSUME NEW S, NEW m \in Seq(S), NEW s \in Seq(S),
           \A i \in 1..Len(m) : m[i] = "bom"
    PROVE  /\ m \o s \in Seq(S) /\ Len(m \o s) = Len(m) + Len(s)
           /\ Len(m) \in Nat /\ Len(s) \in Nat
           /\ \A i \in 1..Len(s) : (m \o s)[Len(m) + i] = s[i]
           /\ \A i \in 1..Len(m \o s) : \/ (m \o s)[i] = "bom"
                                        \/ \E k \in 1..Len(s) : i = Len(m) + k
           /\ AnyCrLf(m \o s) <=> AnyCrLf(s)
<1> DEFINE d == m \o s
<1>1. /\ d \in Seq(S) /\ Len(d) = Len(m) + Len(s) /\ Len(m) \in Nat /\ Len(s) \in Nat
      /\ \A i \in 1..(Len(m) + Len(s)) : d[i] = IF i <= Len(m) THEN m[i] ELSE s[i - Len(m)]
  BY ConcatProperties, LenProperties
<1> HIDE DEF d
<1>2. ASSUME NEW i \in 1..Len(s) PROVE d[Len(m) + i] = s[i]
  <2>1. /\ Len(m) + i \in 1..(Len(m) + Len(s)) /\ ~(Len(m) + i <= Len(m))
        /\ (Len(m) + i) - Len(m) = i
    BY <1>1
  <2> QED BY <1>1, <2>1
<1>3. ASSUME NEW i \in 1..Len(d) PROVE d[i] = "bom" \/ \E k \in 1..Len(s) : i = Len(m) + k
  <2>1. CASE i <= Len(m)
    <3>1. i \in 1..Len(m) /\ d[i] = m[i]
      BY <2>1, <1>1
    <3> QED BY <3>1
  <2>2. CASE ~(i <= Len(m))
    <3>1. i - Len(m) \in 1..Len(s) /\ i = Len(m) + (i - Len(m))
      BY <2>2, <1>1
    <3> QED BY <3>1
  <2> QED BY <2>1, <2>2
<1>4. ASSUME AnyCrLf(s) PROVE AnyCrLf(d)
  <2>1. PICK k \in 1..Len(s) : CrLfAt(s, k)
    BY <1>4 DEF AnyCrLf
  <2>2. /\ k + 1 \in 1..Len(s) /\ s[k] = "cr" /\ s[k + 1] = "lf"
        /\ Len(m) + k \in 1..(Len(d) - 1) /\ Len(m) + k \in 1..Len(d)
        /\ (Len(m) + k) + 1 = Len(m) + (k + 1)
    BY <2>1, <1>1 DEF CrLfAt
  <2>3. CrLfAt(d, Len(m) + k)
    BY <1>2, <2>2 DEF CrLfAt
  <2> QED BY <2>2, <2>3 DEF AnyCrLf
<1>5. ASSUME AnyCrLf(d) PROVE AnyCrLf(s)
  <2>1. PICK i \in 1..Len(d) : CrLfAt(d, i)
    BY <1>5 DEF AnyCrLf
  <2>2. d[i] = "cr" /\ d[i + 1] = "lf" /\ i + 1 \in 1..Len(d)
    BY <2>1, <1>1 DEF CrLfAt
  <2>3. PICK k \in 1..Len(s) : i = Len(m) + k
    BY <1>3, <2>2
  <2>4. k + 1 \in 1..Len(s) /\ i + 1 = Len(m) + (k + 1) /\ k \in 1..(Len(s) - 1)
    BY <1>1, <2>2, <2>3
  <2>5. CrLfAt(s, k)
    BY <1>2, <2>2, <2>3, <2>4 DEF CrLfAt
  <2> QED BY <2>5 DEF AnyCrLf
<1> QED BY <1>1, <1>2, <1>3, <1>4, <1>5 DEF d

LEMMA MarkIsMark ==
    ASSUME NEW S, NEW raw \in Seq(S)
    PROVE  Mark(raw) \in Seq(S) /\ \A i \in 1..Len(Mark(raw)) : Mark(raw)[i] = "bom"
<1>1. HasBom(raw) => Len(Mark(raw)) = 1 /\ Mark(raw)[1] = "bom"
  BY MarkFacts
<1>2. ~HasBom(raw) => Len(Mark(raw)) = 0
  BY MarkFacts
<1>3. Mark(raw) \in Seq(S)
  BY MarkFacts
<1> QED BY <1>1, <1>2, <1>3

\* A file that is not one of CRLFs is read as it is.
LEMMA LfFile ==
    ASSUME NEW raw, ~Mixed(raw), ~IsCrLf(raw)
    PROVE  ~AnyCrLf(raw) /\ \A s : OriginalNewlines(raw, s) = s
  BY DEF Mixed, IsCrLf, OriginalNewlines

LEMMA OwnPlain ==
    ASSUME NEW S, Trivia \subseteq S, NEW raw \in Seq(S), ~Mixed(raw),
           LfPositions(Normalized(raw)) # {}
    PROVE  Plain(raw, Normalized(raw))
<1> DEFINE N == Normalized(raw)
<1>1. N \in Seq(S) /\ Len(N) \in Nat
  BY NormalizedFacts, LenProperties
<1>2. ASSUME ~HasBom(raw) PROVE N[1] # "bom"
  <2>1. 0 < Len(N)
    BY <1>1 DEF LfPositions
  <2> DEFINE p == RawOffset(raw, 0) + 1
  <2>2. p \in 1..Len(raw) /\ N[0 + 1] = IF CrLfAt(raw, p) THEN "lf" ELSE raw[p]
    BY <2>1, RawNext
  <2>3. RawOffset(raw, 0) = Len(Mark(raw))
    BY RawStart
  <2>4. Len(Mark(raw)) = 0
    BY <1>2, MarkFacts
  <2>5. p = 1
    BY <2>3, <2>4
  <2>6. raw # <<>>
    BY <2>2, EmptySeq
  <2>7. raw[1] # "bom"
    BY <1>2, <2>6 DEF HasBom
  <2> HIDE DEF p, N
  <2> QED BY <2>2, <2>5, <2>7
<1>3. ASSUME ~IsCrLf(raw) PROVE ~AnyCrLf(N)
  <2>1. ~AnyCrLf(raw) /\ OriginalNewlines(raw, N) = N
    BY <1>3, LfFile
  <2>2. raw = Mark(raw) \o N
    BY <2>1, OwnText DEF Writes
  <2>3. Mark(raw) \in Seq(S) /\ \A i \in 1..Len(Mark(raw)) : Mark(raw)[i] = "bom"
    BY MarkIsMark
  <2>4. AnyCrLf(Mark(raw) \o N) <=> AnyCrLf(N)
    BY <1>1, <2>3, MarkedText
  <2> QED BY <2>1, <2>2, <2>4
<1> QED BY <1>2, <1>3 DEF Plain

\* The first character with the line endings of a CRLF file.
LEMMA NewlinesFirst ==
    ASSUME NEW S, Trivia \subseteq S, NEW raw, IsCrLf(raw), NEW s \in Seq(S), s # <<>>
    PROVE  LET d == OriginalNewlines(raw, s)
           IN  d # <<>> /\ (d[1] = s[1] \/ d[1] = "cr")
<1> DEFINE x == s[1]
           rest == SubSeq(s, 2, Len(s))
           D(t) == OriginalNewlines(raw, t)
<1>1. Len(s) \in Nat \ {0} /\ 1 \in 1..Len(s) /\ x \in S
  BY EmptySeq, ElementOfSeq
<1>2. PICK t \in Seq(S) : t = <<x>>
  <2>1. <<x>> \in Seq(S)
    BY <1>1
  <2> QED BY <2>1
<1>3. rest \in Seq(S)
  <2>1. \A i \in 2..Len(s) : s[i] \in S
    BY <1>1, ElementOfSeq
  <2>2. 2 \in Int /\ Len(s) \in Int
    BY <1>1
  <2> QED BY ONLY <2>1, <2>2, SubSeqProperties
<1>4. s = t \o rest
  <2>1. SubSeq(s, 1, Len(s)) = <<s[1]>> \o SubSeq(s, 1 + 1, Len(s))
    <3>1. 1 \in 1..Len(s) /\ Len(s) \in 1..Len(s)
      BY <1>1
    <3> QED BY <3>1, SubSeqRecursiveFirst
  <2>2. SubSeq(s, 1, Len(s)) = s
    BY SubSeqFull
  <2>3. SubSeq(s, 1 + 1, Len(s)) = rest
    OBVIOUS
  <2> HIDE DEF rest
  <2> QED BY <1>2, <2>1, <2>2, <2>3
<1>5. D(s) = D(t) \o D(rest) /\ D(t) \in Seq(S) /\ D(rest) \in Seq(S)
  <2>1. \A a, b \in Seq(S) : D(a \o b) = D(a) \o D(b)
    BY NewlinesConcat, SMTT(30)
  <2>2. \A a \in Seq(S) : D(a) \in Seq(S)
    BY NewlinesText
  <2> HIDE DEF D, rest
  <2> QED BY <1>3, <1>4, <2>1, <2>2
<1>6. D(t) = Newline(x)
  <2>1. t = Append(<<>>, x) /\ <<>> \in Seq(S)
    BY <1>2, EmptySeq
  <2>2. D(Append(<<>>, x)) = D(<<>>) \o Ending(raw, x)
    BY <1>1, <2>1, NewlinesAppend
  <2>3. D(<<>>) = <<>> /\ Ending(raw, x) = Newline(x) /\ Newline(x) \in Seq(S)
    BY <1>1, NewlinesEmpty, EndingFacts DEF Ending
  <2>4. <<>> \o Newline(x) = Newline(x)
    BY <2>3, ConcatEmptySeq
  <2> HIDE DEF D, x
  <2> QED BY <2>1, <2>2, <2>3, <2>4
<1>7. Len(Newline(x)) \in 1..2 /\ (Newline(x)[1] = x \/ Newline(x)[1] = "cr")
  <2>1. CASE x = "lf"
    <3>1. Newline(x) = <<"cr", "lf">>
      BY <2>1 DEF Newline
    <3>2. Len(<<"cr", "lf">>) = 2 /\ <<"cr", "lf">>[1] = "cr"
      OBVIOUS
    <3>3. Len(Newline(x)) = 2 /\ Newline(x)[1] = "cr"
      BY ONLY <3>1, <3>2
    <3> QED BY <3>3
  <2>2. CASE x # "lf"
    <3>1. Newline(x) = <<x>>
      BY <2>2 DEF Newline
    <3>2. Len(<<x>>) = 1 /\ <<x>>[1] = x
      OBVIOUS
    <3>3. Len(Newline(x)) = 1 /\ Newline(x)[1] = x
      BY ONLY <3>1, <3>2
    <3> QED BY <3>3
  <2> QED BY <2>1, <2>2
<1> HIDE DEF D, x, rest
<1>8. Len(D(s)) >= 1 /\ Len(D(s)) \in Nat /\ D(s)[1] = D(t)[1]
  <2>1. Len(D(t)) \in 1..2 /\ Len(D(rest)) \in Nat
    BY <1>5, <1>6, <1>7, LenProperties
  <2>2. /\ Len(D(s)) = Len(D(t)) + Len(D(rest))
        /\ \A i \in 1..(Len(D(t)) + Len(D(rest))) :
              D(s)[i] = IF i <= Len(D(t)) THEN D(t)[i] ELSE D(rest)[i - Len(D(t))]
    BY <1>5, ConcatProperties
  <2>3. 1 \in 1..(Len(D(t)) + Len(D(rest))) /\ 1 <= Len(D(t))
    <3> DEFINE a == Len(D(t))
               b == Len(D(rest))
    <3>1. a \in 1..2 /\ b \in Nat
      BY <2>1
    <3> HIDE DEF a, b
    <3>2. 1 \in 1..(a + b) /\ 1 <= a
      BY <3>1
    <3> QED BY <3>2 DEF a, b
  <2> QED BY <2>1, <2>2, <2>3
<1>9. D(s) # <<>>
  BY <1>8, EmptySeq
<1> QED BY <1>6, <1>7, <1>8, <1>9 DEF D, x

\* The mark and the line endings of what is written.
LEMMA WrittenStyle ==
    ASSUME NEW S, Trivia \subseteq S, NEW raw \in Seq(S), ~Mixed(raw),
           NEW s \in Seq(S), Plain(raw, s)
    PROVE  LET d == Writes(raw, s)
           IN  /\ d \in Seq(S)
               /\ (HasBom(d) <=> HasBom(raw))
               /\ (AnyCrLf(d) <=> IsCrLf(raw))
               /\ (AnyLf(d) <=> ~IsCrLf(raw))
<1> DEFINE m == Mark(raw)
           t == OriginalNewlines(raw, s)
           d == m \o t
<1>1. /\ m \in Seq(S) /\ \A i \in 1..Len(m) : m[i] = "bom"
      /\ t \in Seq(S)
  BY MarkIsMark, NewlinesText
<1>2. Writes(raw, s) = d
  BY DEF Writes
<1>3. s # <<>>
  BY EmptySeq DEF Plain, LfPositions
<1>4. t # <<>> /\ (~HasBom(raw) => t[1] # "bom")
  <2>1. CASE IsCrLf(raw)
    <3>1. t # <<>> /\ (t[1] = s[1] \/ t[1] = "cr")
      BY <1>3, <2>1, NewlinesFirst
    <3> QED BY <3>1 DEF Plain
  <2>2. CASE ~IsCrLf(raw)
    <3>1. t = s
      BY <2>2, LfFile
    <3> QED BY <1>3, <3>1 DEF Plain
  <2> QED BY <2>1, <2>2
<1>5. HasBom(raw) => Len(m) = 1 /\ m[1] = "bom"
  BY MarkFacts
<1>6. ~HasBom(raw) => Len(m) = 0
  BY MarkFacts
<1>7. LfPositions(t) # {} /\ (IsCrLf(raw) => \A k \in 1..Len(t) : t[k] = "lf" => k > 1 /\ t[k - 1] = "cr")
  <2>1. CASE IsCrLf(raw)
    BY <2>1, NewlinesFollow DEF Plain
  <2>2. CASE ~IsCrLf(raw)
    <3>1. t = s
      BY <2>2, LfFile
    <3> QED BY <2>2, <3>1 DEF Plain
  <2> QED BY <2>1, <2>2
<1>8. ~IsCrLf(raw) => ~AnyCrLf(t)
  <2>1. ~IsCrLf(raw) => t = s
    BY LfFile
  <2> QED BY <2>1 DEF Plain
<1> HIDE DEF m, t
<1>9. /\ d \in Seq(S) /\ Len(d) = Len(m) + Len(t) /\ Len(m) \in Nat /\ Len(t) \in Nat
      /\ \A i \in 1..Len(t) : d[Len(m) + i] = t[i]
      /\ \A i \in 1..Len(d) : d[i] = "bom" \/ \E k \in 1..Len(t) : i = Len(m) + k
      /\ AnyCrLf(d) <=> AnyCrLf(t)
  BY <1>1, MarkedText
<1>10. Len(t) \in Nat \ {0}
  BY <1>1, <1>4, EmptySeq
<1>11. (HasBom(d) <=> HasBom(raw))
  <2>1. d # <<>>
    BY <1>9, <1>10, EmptySeq
  <2>2. CASE HasBom(raw)
    <3>1. d[1] = m[1]
      <4>1. /\ Len(m) = 1 /\ 1 \in 1..(Len(m) + Len(t))
            /\ \A i \in 1..(Len(m) + Len(t)) : d[i] = IF i <= Len(m) THEN m[i] ELSE t[i - Len(m)]
        BY <1>1, <1>5, <1>10, <2>2, ConcatProperties
      <4> HIDE DEF d
      <4> QED BY <4>1
    <3> QED BY <1>5, <2>1, <2>2, <3>1 DEF HasBom
  <2>3. CASE ~HasBom(raw)
    <3>1. d[0 + 1] = t[1]
      BY <1>6, <1>9, <1>10, <2>3
    <3> HIDE DEF d
    <3> QED BY <1>4, <2>3, <3>1 DEF HasBom
  <2> QED BY <2>2, <2>3
<1> HIDE DEF d
<1>12. PICK j \in 1..Len(t) : t[j] = "lf"
  BY <1>7 DEF LfPositions
<1>13. CASE IsCrLf(raw)
  <2>1. ASSUME NEW i \in 1..Len(d), d[i] = "lf" PROVE CrLfAt(d, i - 1)
    <3>1. PICK k \in 1..Len(t) : i = Len(m) + k
      BY <1>9, <2>1
    <3>2. t[k] = "lf" /\ k > 1 /\ t[k - 1] = "cr"
      BY <1>7, <1>9, <1>13, <2>1, <3>1
    <3>3. /\ k - 1 \in 1..Len(t) /\ i - 1 = Len(m) + (k - 1)
          /\ i - 1 \in 1..(Len(d) - 1) /\ (i - 1) + 1 = i
      BY <1>9, <3>1, <3>2
    <3>4. d[i - 1] = "cr"
      BY <1>9, <3>2, <3>3
    <3> QED BY <2>1, <3>3, <3>4 DEF CrLfAt
  <2>2. ~AnyLf(d)
    BY <2>1 DEF AnyLf, LfAt
  <2>3. AnyCrLf(d)
    <3>1. Len(m) + j \in 1..Len(d) /\ d[Len(m) + j] = "lf"
      BY <1>9, <1>12
    <3>2. CrLfAt(d, (Len(m) + j) - 1)
      BY <2>1, <3>1
    <3>3. (Len(m) + j) - 1 \in 1..Len(d)
      BY <3>2, <1>9 DEF CrLfAt
    <3> QED BY <3>2, <3>3 DEF AnyCrLf
  <2> QED BY <1>2, <1>9, <1>11, <1>13, <2>2, <2>3 DEF d
<1>14. CASE ~IsCrLf(raw)
  <2>1. ~AnyCrLf(d)
    BY <1>8, <1>9, <1>14
  <2>2. Len(m) + j \in 1..Len(d) /\ d[Len(m) + j] = "lf"
    BY <1>9, <1>12
  <2>3. ~CrLfAt(d, (Len(m) + j) - 1)
    <3> SUFFICES ASSUME CrLfAt(d, (Len(m) + j) - 1) PROVE FALSE
      OBVIOUS
    <3>1. (Len(m) + j) - 1 \in 1..Len(d)
      BY <1>9 DEF CrLfAt
    <3> QED BY <2>1, <3>1 DEF AnyCrLf
  <2>4. AnyLf(d)
    BY <2>2, <2>3 DEF AnyLf, LfAt
  <2> QED BY <1>2, <1>9, <1>11, <1>14, <2>1, <2>4 DEF d
<1> QED BY <1>13, <1>14

\* What is written in the style of a file is read back, and has that style.
LEMMA ReadBack ==
    ASSUME NEW S, Trivia \subseteq S, NEW raw \in Seq(S), ~Mixed(raw),
           LfPositions(Normalized(raw)) # {},
           NEW s \in Seq(S), Plain(raw, s)
    PROVE  LET d == Writes(raw, s)
           IN  /\ Normalized(d) = s
               /\ (HasBom(d) <=> HasBom(raw))
               /\ (AnyCrLf(d) <=> AnyCrLf(raw))
               /\ (AnyLf(d) <=> AnyLf(raw))
<1> DEFINE d == Writes(raw, s)
           N == Normalized(d)
<1>1. /\ d \in Seq(S) /\ (HasBom(d) <=> HasBom(raw))
      /\ (AnyCrLf(d) <=> IsCrLf(raw)) /\ (AnyLf(d) <=> ~IsCrLf(raw))
  BY WrittenStyle
<1>2. (AnyCrLf(raw) <=> IsCrLf(raw)) /\ (AnyLf(raw) <=> ~IsCrLf(raw))
  <2>1. Plain(raw, Normalized(raw)) /\ Normalized(raw) \in Seq(S)
    BY OwnPlain, NormalizedFacts
  <2>2. raw = Writes(raw, Normalized(raw))
    BY OwnText
  <2>3. /\ (AnyCrLf(Writes(raw, Normalized(raw))) <=> IsCrLf(raw))
        /\ (AnyLf(Writes(raw, Normalized(raw))) <=> ~IsCrLf(raw))
    BY <2>1, WrittenStyle
  <2> QED BY <2>2, <2>3
<1> HIDE DEF d
<1>3. ~Mixed(d) /\ (IsCrLf(d) <=> IsCrLf(raw))
  <2>1. (IsCrLf(d) <=> AnyCrLf(d) /\ ~AnyLf(d)) /\ (Mixed(d) <=> AnyCrLf(d) /\ AnyLf(d))
    BY DEF IsCrLf, Mixed
  <2> QED BY <1>1, <2>1
<1>4. Mark(d) = Mark(raw) /\ \A t : OriginalNewlines(d, t) = OriginalNewlines(raw, t)
  BY <1>1, <1>3 DEF Mark, OriginalNewlines
<1>5. N \in Seq(S) /\ d = Writes(d, N)
  BY <1>1, <1>3, OwnText, NormalizedFacts
<1>6. Mark(raw) \o OriginalNewlines(raw, s) = Mark(raw) \o OriginalNewlines(raw, N)
  BY <1>4, <1>5 DEF Writes, d
<1>7. OriginalNewlines(raw, s) = OriginalNewlines(raw, N)
  <2>1. \A a, b, c \in Seq(S) : a \o b = a \o c => b = c
    BY ConcatSimplifications
  <2>2. /\ Mark(raw) \in Seq(S) /\ OriginalNewlines(raw, s) \in Seq(S)
        /\ OriginalNewlines(raw, N) \in Seq(S)
    BY <1>5, MarkFacts, NewlinesText
  <2> QED BY <1>6, <2>1, <2>2
<1>8. s = N
  BY <1>5, <1>7, NewlinesInjective
<1> QED BY <1>1, <1>2, <1>8 DEF d

-----------------------------------------------------------------------------
(* Splices in a text and in its file.                                      *)

LEMMA PrefixFacts ==
    ASSUME NEW S, NEW s \in Seq(S), NEW n \in Nat, n <= Len(s)
    PROVE  /\ SubSeq(s, 1, n) \in Seq(S) /\ Len(SubSeq(s, 1, n)) = n
           /\ \A i \in 1..n : SubSeq(s, 1, n)[i] = s[i]
<1>1. Len(s) \in Nat
  BY LenProperties
<1>2. \A i \in 1..n : s[i] \in S
  BY <1>1, ElementOfSeq
<1>3. 1 \in Int /\ n \in Int
  OBVIOUS
<1>4. /\ SubSeq(s, 1, n) \in Seq(S)
      /\ Len(SubSeq(s, 1, n)) = IF 1 <= n THEN n - 1 + 1 ELSE 0
      /\ \A i \in 1..(n - 1 + 1) : SubSeq(s, 1, n)[i] = s[1 + i - 1]
  BY ONLY <1>2, <1>3, SubSeqProperties
<1>5. n - 1 + 1 = n /\ \A i \in 1..n : 1 + i - 1 = i
  OBVIOUS
<1> QED BY <1>4, <1>5

LEMMA SuffixFacts ==
    ASSUME NEW S, NEW s \in Seq(S), NEW n \in Nat, n <= Len(s)
    PROVE  /\ SubSeq(s, n + 1, Len(s)) \in Seq(S)
           /\ Len(SubSeq(s, n + 1, Len(s))) = Len(s) - n
           /\ \A i \in 1..(Len(s) - n) : SubSeq(s, n + 1, Len(s))[i] = s[n + i]
<1>1. PICK m \in Nat : m = Len(s)
  BY LenProperties
<1>2. \A i \in (n + 1)..m : s[i] \in S
  BY <1>1, ElementOfSeq
<1>3. PICK x \in Int : x = n + 1
  OBVIOUS
<1>4. m \in Int /\ \A i \in x..m : s[i] \in S
  BY <1>2, <1>3
<1>5. /\ SubSeq(s, x, m) \in Seq(S)
      /\ Len(SubSeq(s, x, m)) = IF x <= m THEN m - x + 1 ELSE 0
      /\ \A i \in 1..(m - x + 1) : SubSeq(s, x, m)[i] = s[x + i - 1]
  BY ONLY <1>3, <1>4, SubSeqProperties
<1>6. m - x + 1 = m - n /\ \A i \in 1..(m - n) : x + i - 1 = n + i
  BY <1>1, <1>3
<1>7. Len(SubSeq(s, x, m)) = m - n
  BY <1>1, <1>3, <1>5
<1> QED BY <1>1, <1>3, <1>5, <1>6, <1>7

\* Concatenation as an operator of its own: the facts below are all that the
\* proofs about several texts use of it.
Cat(a, b) == a \o b

LEMMA CatFacts ==
    ASSUME NEW S
    PROVE  /\ \A a, b \in Seq(S) : Cat(a, b) \in Seq(S) /\ Len(Cat(a, b)) = Len(a) + Len(b)
           /\ \A a, b, c \in Seq(S) : Cat(Cat(a, b), c) = Cat(a, Cat(b, c))
<1>1. \A a, b \in Seq(S) : Cat(a, b) \in Seq(S) /\ Len(Cat(a, b)) = Len(a) + Len(b)
  BY ConcatProperties DEF Cat
<1>2. ASSUME NEW a \in Seq(S), NEW b \in Seq(S), NEW c \in Seq(S)
      PROVE  (a \o b) \o c = a \o (b \o c)
  BY ConcatAssociative
<1>3. \A a, b, c \in Seq(S) : Cat(Cat(a, b), c) = Cat(a, Cat(b, c))
  BY <1>2 DEF Cat
<1> QED BY <1>1, <1>3

LEMMA WritesCat ==
    ASSUME NEW S, Trivia \subseteq S, NEW raw \in Seq(S)
    PROVE  /\ \A x \in Seq(S) : Writes(raw, x) \in Seq(S) /\ OriginalNewlines(raw, x) \in Seq(S)
           /\ \A x, y \in Seq(S) :
                 Writes(raw, Cat(x, y)) = Cat(Writes(raw, x), OriginalNewlines(raw, y))
<1> DEFINE m == Mark(raw)
           D(x) == OriginalNewlines(raw, x)
<1>1. m \in Seq(S) /\ \A x \in Seq(S) : D(x) \in Seq(S)
  BY MarkFacts, NewlinesText
<1>2. \A x, y \in Seq(S) : D(Cat(x, y)) = Cat(D(x), D(y))
  BY NewlinesConcat DEF Cat
<1>3. \A x : Writes(raw, x) = Cat(m, D(x))
  BY DEF Writes, Cat
<1> HIDE DEF m, D
<1>4. \A x \in Seq(S) : Writes(raw, x) \in Seq(S)
  BY <1>1, <1>3, CatFacts
<1>5. ASSUME NEW x \in Seq(S), NEW y \in Seq(S)
      PROVE  Writes(raw, Cat(x, y)) = Cat(Writes(raw, x), D(y))
  <2>1. Writes(raw, Cat(x, y)) = Cat(m, Cat(D(x), D(y)))
    BY <1>2, <1>3
  <2>2. D(x) \in Seq(S) /\ D(y) \in Seq(S)
    BY <1>1
  <2>3. Cat(Cat(m, D(x)), D(y)) = Cat(m, Cat(D(x), D(y)))
    BY <1>1, <2>2, CatFacts
  <2> QED BY <1>3, <2>1, <2>3
<1> QED BY <1>1, <1>4, <1>5 DEF D

\* The middle of three texts is replaced.
LEMMA SpliceMiddle ==
    ASSUME NEW S, NEW p \in Seq(S), NEW q \in Seq(S), NEW r \in Seq(S), NEW w \in Seq(S)
    PROVE  Splice(Cat(Cat(p, q), r), Len(p), Len(p) + Len(q), w) = Cat(Cat(p, w), r)
<1> DEFINE t == (p \o q) \o r
           a == Len(p)
           b == Len(p) + Len(q)
<1>1. a \in Nat /\ Len(q) \in Nat /\ Len(r) \in Nat
  BY LenProperties
<1>2. /\ p \o q \in Seq(S) /\ Len(p \o q) = b
      /\ \A i \in 1..b : (p \o q)[i] = IF i <= a THEN p[i] ELSE q[i - a]
  BY ConcatProperties
<1>3. /\ t \in Seq(S) /\ Len(t) = b + Len(r)
      /\ \A i \in 1..(b + Len(r)) : t[i] = IF i <= b THEN (p \o q)[i] ELSE r[i - b]
  BY <1>2, ConcatProperties
<1> HIDE DEF t, a, b
<1>4. b \in Nat /\ a <= b
  BY <1>1 DEF a, b
<1>5. SubSeq(t, 1, a) = p
  <2>1. \A i \in 1..a : t[i] = p[i] /\ p[i] \in S
    <3> SUFFICES ASSUME NEW i \in 1..a PROVE t[i] = p[i] /\ p[i] \in S
      OBVIOUS
    <3>1. i \in 1..b /\ i \in 1..(b + Len(r)) /\ i <= b /\ i <= a
      BY <1>1, <1>4
    <3>2. p[i] \in S
      BY ElementOfSeq DEF a
    <3> QED BY <3>1, <3>2, <1>2, <1>3
  <2>2. a <= Len(t)
    BY <1>1, <1>3, <1>4
  <2>3. /\ SubSeq(t, 1, a) \in Seq(S) /\ Len(SubSeq(t, 1, a)) = a
        /\ \A i \in 1..a : SubSeq(t, 1, a)[i] = t[i]
    BY <1>1, <1>3, <2>2, PrefixFacts
  <2> QED BY <2>1, <2>3, SeqEqual DEF a
<1>6. SubSeq(t, b + 1, Len(t)) = r
  <2>1. \A i \in 1..Len(r) : t[b + i] = r[i] /\ r[i] \in S
    <3> SUFFICES ASSUME NEW i \in 1..Len(r) PROVE t[b + i] = r[i] /\ r[i] \in S
      OBVIOUS
    <3>1. b + i \in 1..(b + Len(r)) /\ ~(b + i <= b) /\ (b + i) - b = i
      BY <1>1, <1>4
    <3>2. r[i] \in S
      BY ElementOfSeq
    <3> QED BY <3>1, <3>2, <1>3
  <2>2. b <= Len(t) /\ Len(t) - b = Len(r)
    BY <1>1, <1>3, <1>4
  <2>3. /\ SubSeq(t, b + 1, Len(t)) \in Seq(S)
        /\ Len(SubSeq(t, b + 1, Len(t))) = Len(t) - b
        /\ \A i \in 1..(Len(t) - b) : SubSeq(t, b + 1, Len(t))[i] = t[b + i]
    BY <1>3, <1>4, <2>2, SuffixFacts
  <2> QED BY <2>1, <2>2, <2>3, SeqEqual
<1>7. Splice(t, a, b, w) = (p \o w) \o r
  BY <1>5, <1>6 DEF Splice
<1> QED BY <1>7 DEF Cat, t, a, b

\* A prefix of a text, the slice after it and the rest.
LEMMA CutTwice ==
    ASSUME NEW S, NEW s \in Seq(S), NEW a \in Nat, NEW b \in Nat, a <= b, b <= Len(s)
    PROVE  /\ SubSeq(s, 1, a) \in Seq(S) /\ SubSeq(s, a + 1, b) \in Seq(S)
           /\ SubSeq(s, b + 1, Len(s)) \in Seq(S)
           /\ SubSeq(s, 1, a) \o SubSeq(s, a + 1, b) = SubSeq(s, 1, b)
           /\ (SubSeq(s, 1, a) \o SubSeq(s, a + 1, b)) \o SubSeq(s, b + 1, Len(s)) = s
<1>0. Len(s) \in Nat
  BY LenProperties
<1>1. ASSUME NEW x \in Nat, NEW y \in Nat, y <= Len(s)
      PROVE  SubSeq(s, x + 1, y) \in Seq(S)
  <2>1. \A i \in (x + 1)..y : s[i] \in S
    BY <1>0, <1>1, ElementOfSeq
  <2>2. x + 1 \in Int /\ y \in Int
    BY <1>1
  <2> QED BY ONLY <2>1, <2>2, SubSeqProperties
<1>2. SubSeq(s, 1, a) \in Seq(S)
  <2>1. 0 \in Nat /\ 0 + 1 = 1 /\ a <= Len(s)
    BY <1>0
  <2>2. SubSeq(s, 0 + 1, a) \in Seq(S)
    BY <1>1, <2>1
  <2> QED BY <2>1, <2>2
<1>3. SubSeq(s, a + 1, b) \in Seq(S) /\ SubSeq(s, b + 1, Len(s)) \in Seq(S)
  BY <1>0, <1>1
<1>4. SubSeq(s, 1, a) \o SubSeq(s, a + 1, b) = SubSeq(s, 1, b)
  <2>1. 1 \in 1..(Len(s) + 1) /\ a \in (1 - 1)..Len(s) /\ b \in a..Len(s)
    BY <1>0
  <2> QED BY <2>1, ConcatAdjacentSubSeq
<1>5. SubSeq(s, 1, b) \o SubSeq(s, b + 1, Len(s)) = s
  <2>1. 1 \in 1..(Len(s) + 1) /\ b \in (1 - 1)..Len(s) /\ Len(s) \in b..Len(s)
    BY <1>0
  <2>2. SubSeq(s, 1, b) \o SubSeq(s, b + 1, Len(s)) = SubSeq(s, 1, Len(s))
    BY <2>1, ConcatAdjacentSubSeq
  <2> QED BY <2>2, SubSeqFull
<1> QED BY <1>2, <1>3, <1>4, <1>5

\* The offset in the file of what the text has before an offset.
LEMMA RawLength ==
    ASSUME NEW S, Trivia \subseteq S, NEW raw \in Seq(S), ~Mixed(raw),
           NEW n \in 0..Len(Normalized(raw))
    PROVE  RawOffset(raw, n) = Len(Writes(raw, SubSeq(Normalized(raw), 1, n)))
<1>1. PICK o \in 0..Len(raw) : o = RawOffset(raw, n)
  BY RawOffsetFacts
<1>2. SubSeq(raw, 1, o) = Writes(raw, SubSeq(Normalized(raw), 1, n))
  BY <1>1, OwnText
<1>3. o \in Nat /\ o <= Len(raw)
  BY <1>1, LenProperties
<1>4. Len(SubSeq(raw, 1, o)) = o
  BY ONLY <1>3, raw \in Seq(S), PrefixFacts
<1> QED BY <1>1, <1>2, <1>4

\* A splice at offsets of the file, with its line endings, is the splice of the
\* text: if what is before the end is still what was read from the file.
LEMMA SpliceWrites ==
    ASSUME NEW S, Trivia \subseteq S, NEW raw \in Seq(S), ~Mixed(raw),
           NEW s \in Seq(S), NEW new \in Seq(S),
           NEW a \in Nat, NEW b \in Nat, a <= b, b <= Len(s), b <= Len(Normalized(raw)),
           \A k \in 1..b : s[k] = Normalized(raw)[k]
    PROVE  Splice(Writes(raw, s), RawOffset(raw, a), RawOffset(raw, b),
                  OriginalNewlines(raw, new))
               = Writes(raw, Splice(s, a, b, new))
<1> DEFINE W(x) == Writes(raw, x)
           D(x) == OriginalNewlines(raw, x)
<1>1. PICK A, G, C :
         /\ A \in Seq(S) /\ G \in Seq(S) /\ C \in Seq(S)
         /\ A = SubSeq(s, 1, a) /\ C = SubSeq(s, b + 1, Len(s))
         /\ Cat(A, G) = SubSeq(s, 1, b) /\ s = Cat(Cat(A, G), C)
  <2>1. /\ SubSeq(s, 1, a) \in Seq(S) /\ SubSeq(s, a + 1, b) \in Seq(S)
        /\ SubSeq(s, b + 1, Len(s)) \in Seq(S)
        /\ SubSeq(s, 1, a) \o SubSeq(s, a + 1, b) = SubSeq(s, 1, b)
        /\ (SubSeq(s, 1, a) \o SubSeq(s, a + 1, b)) \o SubSeq(s, b + 1, Len(s)) = s
    BY CutTwice
  <2> QED BY <2>1 DEF Cat
<1>2. PICK N : N \in Seq(S) /\ N = Normalized(raw)
  BY NormalizedFacts
<1>3. b <= Len(N) /\ Len(N) \in Nat /\ \A k \in 1..b : s[k] = N[k]
  BY <1>2, LenProperties
<1>4. SubSeq(N, 1, a) = A /\ SubSeq(N, 1, b) = Cat(A, G)
  <2>1. \A u, v \in Nat : u <= v /\ v <= b => Slice(N, u, v) = Slice(s, u, v)
    BY <1>2, <1>3, SamePrefix, SMTT(30)
  <2>2. Slice(s, 0, a) = Slice(N, 0, a) /\ Slice(s, 0, b) = Slice(N, 0, b) /\ 0 + 1 = 1
    BY <2>1
  <2> QED BY <1>1, <2>2 DEF Slice
<1>5. a \in 0..Len(N) /\ b \in 0..Len(N)
  BY <1>3
<1>6. /\ \A x \in Seq(S) : W(x) \in Seq(S) /\ D(x) \in Seq(S)
      /\ \A x, y \in Seq(S) : W(Cat(x, y)) = Cat(W(x), D(y))
  BY WritesCat
<1>7. RawOffset(raw, a) = Len(W(A)) /\ RawOffset(raw, b) = Len(W(Cat(A, G)))
  <2>1. \A n \in 0..Len(N) : RawOffset(raw, n) = Len(W(SubSeq(N, 1, n)))
    BY <1>2, RawLength
  <2> HIDE DEF W
  <2> QED BY <1>4, <1>5, <2>1
<1>8. Splice(s, a, b, new) = Cat(Cat(A, new), C)
  BY <1>1 DEF Splice, Cat
<1> HIDE DEF W, D
<1>9. \A x, y, z \in Seq(S) : W(Cat(Cat(x, y), z)) = Cat(Cat(W(x), D(y)), D(z))
  <2>1. \A x, y \in Seq(S) : Cat(x, y) \in Seq(S)
    BY CatFacts
  <2> QED BY <1>6, <2>1
<1>10. W(s) = Cat(Cat(W(A), D(G)), D(C)) /\ W(Splice(s, a, b, new)) = Cat(Cat(W(A), D(new)), D(C))
  <2>0. A \in Seq(S) /\ G \in Seq(S) /\ C \in Seq(S) /\ new \in Seq(S)
    BY <1>1
  <2>1. W(Cat(Cat(A, G), C)) = Cat(Cat(W(A), D(G)), D(C))
    BY <2>0, <1>9
  <2>2. W(Cat(Cat(A, new), C)) = Cat(Cat(W(A), D(new)), D(C))
    BY <2>0, <1>9
  <2> QED BY <1>1, <1>8, <2>1, <2>2
<1>11. Len(W(Cat(A, G))) = Len(W(A)) + Len(D(G))
  <2>1. W(Cat(A, G)) = Cat(W(A), D(G)) /\ W(A) \in Seq(S) /\ D(G) \in Seq(S)
    BY <1>1, <1>6
  <2> QED BY <2>1, CatFacts
<1>12. Splice(Cat(Cat(W(A), D(G)), D(C)), Len(W(A)), Len(W(A)) + Len(D(G)), D(new))
          = Cat(Cat(W(A), D(new)), D(C))
  <2>1. W(A) \in Seq(S) /\ D(G) \in Seq(S) /\ D(C) \in Seq(S) /\ D(new) \in Seq(S)
    BY <1>1, <1>6
  <2> QED BY <2>1, SpliceMiddle
<1>13. Splice(W(s), RawOffset(raw, a), RawOffset(raw, b), D(new)) = W(Splice(s, a, b, new))
  BY <1>7, <1>10, <1>11, <1>12
<1> QED BY <1>13 DEF W, D

LEMMA SliceAt ==
    ASSUME NEW S, NEW s \in Seq(S), NEW a \in Nat, NEW b \in Nat, a <= b, b <= Len(s)
    PROVE  Len(Slice(s, a, b)) = b - a /\ \A i \in 1..(b - a) : Slice(s, a, b)[i] = s[a + i]
<1>1. \A i \in (a + 1)..b : s[i] \in S
  <2>1. Len(s) \in Nat
    BY LenProperties
  <2> QED BY <2>1, ElementOfSeq
<1>2. /\ Len(Slice(s, a, b)) = IF a <= b THEN b - a ELSE 0
      /\ \A i \in 1..(b - a) : Slice(s, a, b)[i] = s[a + i]
  BY <1>1, SliceFacts
<1> QED BY <1>2

\* What is around a gap stays, and the gap keeps its ends.
LEMMA ReplacedText ==
    ASSUME NEW S, Trivia \subseteq S, NEW s \in Seq(S),
           NEW a \in Nat, NEW b \in Nat, a < b, b <= Len(s),
           Slice(s, a, b) \in Seq(Trivia), LfPositions(Slice(s, a, b)) # {},
           NEW blanks \in 0..1,
           NEW t, t = Splice(s, a, b, BlankLineReplacement(Slice(s, a, b), blanks))
    PROVE  /\ t \in Seq(S) /\ a <= Len(t) /\ \A k \in 1..a : t[k] = s[k]
           /\ t[1] = s[1]
           /\ LfPositions(t) # {}
           /\ ~AnyCrLf(s) => ~AnyCrLf(t)
<1> DEFINE gap == Slice(s, a, b)
           F == FirstLf(gap)
           L == LastLf(gap)
           kept == Len(gap) - L
           r == BlankLineReplacement(gap, blanks)
           A == SubSeq(s, 1, a)
           C == SubSeq(s, b + 1, Len(s))
<1>1. Len(s) \in Nat
  BY LenProperties
<1>2. Len(gap) = b - a /\ \A i \in 1..(b - a) : gap[i] = s[a + i]
  <2>1. a <= b /\ b <= Len(s)
    OBVIOUS
  <2> QED BY <2>1, SliceAt
<1>3. /\ F \in 1..Len(gap) /\ L \in 1..Len(gap) /\ F <= L /\ gap[F] = "lf" /\ gap[L] = "lf"
  BY LineBreaks
<1>4. /\ r \in Seq(Trivia) /\ Len(r) = F + blanks + kept
      /\ \A k \in 1..F : r[k] = gap[k]
      /\ blanks = 1 => r[F + 1] = "lf"
      /\ \A k \in 1..kept : r[F + blanks + k] = gap[L + k]
  BY ReplacementFacts
<1>5. r \in Seq(S)
  BY <1>4, SeqMonotonic
<1>7. A \in Seq(S) /\ Len(A) = a /\ \A i \in 1..a : A[i] = s[i]
  <2>1. a <= Len(s)
    BY <1>1
  <2> QED BY <2>1, PrefixFacts
<1>8. C \in Seq(S) /\ Len(C) = Len(s) - b /\ \A i \in 1..(Len(s) - b) : C[i] = s[b + i]
  BY SuffixFacts
<1>9. t = (A \o r) \o C
  BY DEF Splice
<1> HIDE DEF gap, F, L, r, A, C
<1>10. /\ A \o r \in Seq(S) /\ Len(A \o r) = a + Len(r)
       /\ \A i \in 1..(a + Len(r)) : (A \o r)[i] = IF i <= a THEN A[i] ELSE r[i - a]
  BY <1>5, <1>7, ConcatProperties
<1>11. /\ t \in Seq(S) /\ Len(t) = (a + Len(r)) + (Len(s) - b)
       /\ \A i \in 1..((a + Len(r)) + (Len(s) - b)) :
             t[i] = IF i <= a + Len(r) THEN (A \o r)[i] ELSE C[i - (a + Len(r))]
  <2> DEFINE u == A \o r
  <2>1. u \in Seq(S) /\ Len(u) = a + Len(r) /\ t = u \o C
    BY <1>9, <1>10
  <2> HIDE DEF u
  <2>2. /\ u \o C \in Seq(S) /\ Len(u \o C) = Len(u) + Len(C)
        /\ \A i \in 1..(Len(u) + Len(C)) : (u \o C)[i] = IF i <= Len(u) THEN u[i] ELSE C[i - Len(u)]
    <3>1. u \in Seq(S) /\ C \in Seq(S)
      BY <1>8, <2>1
    <3> QED BY ONLY <3>1, ConcatProperties
  <2> QED BY <1>8, <2>1, <2>2 DEF u
<1> DEFINE shift == (a + L) - (a + F + blanks)
<1>12. Len(t) = (a + F + blanks) + (Len(s) - (a + L)) /\ a + F <= Len(t)
  BY <1>1, <1>2, <1>3, <1>4, <1>11
<1>13. ASSUME NEW k \in 1..Len(t), k <= a + F PROVE t[k] = s[k] /\ k \in 1..Len(s)
  <2>1. CASE k <= a
    <3>1. k \in 1..a /\ k \in 1..(a + Len(r)) /\ k <= a + Len(r)
      BY <2>1, <1>3, <1>4
    <3> QED BY <3>1, <1>1, <1>7, <1>10, <1>11
  <2>2. CASE ~(k <= a)
    <3>1. /\ k - a \in 1..F /\ k \in 1..(a + Len(r)) /\ k <= a + Len(r)
          /\ k - a \in 1..(b - a) /\ a + (k - a) = k
      BY <2>2, <1>2, <1>3, <1>4, <1>13
    <3>2. t[k] = r[k - a]
      BY <2>2, <3>1, <1>10, <1>11
    <3> QED BY <3>1, <3>2, <1>1, <1>2, <1>4
  <2> QED BY <2>1, <2>2
<1>14. ASSUME NEW k \in 1..Len(t), a + F < k, k <= a + F + blanks PROVE t[k] = "lf"
  <2>1. blanks = 1 /\ k - a = F + 1 /\ k <= a + Len(r) /\ k \in 1..(a + Len(r)) /\ ~(k <= a)
    BY <1>2, <1>3, <1>4, <1>14
  <2> QED BY <2>1, <1>4, <1>10, <1>11
<1>15. ASSUME NEW k \in 1..Len(t), a + F + blanks < k
       PROVE  k + shift \in 1..Len(s) /\ t[k] = s[k + shift]
  <2>1. k + shift \in 1..Len(s)
    BY <1>1, <1>2, <1>3, <1>12, <1>15
  <2>2. CASE k <= a + Len(r)
    <3> DEFINE j == k - (a + F + blanks)
    <3>1. /\ j \in 1..kept /\ k - a = F + blanks + j /\ ~(k <= a) /\ k \in 1..(a + Len(r))
          /\ L + j \in 1..(b - a) /\ a + (L + j) = k + shift
      BY <2>2, <1>2, <1>3, <1>4, <1>15
    <3> HIDE DEF j, shift
    <3>2. t[k] = r[k - a]
      BY <2>2, <3>1, <1>10, <1>11
    <3>3. r[F + blanks + j] = gap[L + j] /\ gap[L + j] = s[a + (L + j)]
      BY <3>1, <1>2, <1>4
    <3> QED BY <2>1, <3>1, <3>2, <3>3
  <2>3. CASE ~(k <= a + Len(r))
    <3> DEFINE j == k - (a + Len(r))
    <3>1. j \in 1..(Len(s) - b) /\ b + j = k + shift
      BY <2>3, <1>1, <1>2, <1>3, <1>4, <1>11
    <3> HIDE DEF shift
    <3>2. t[k] = C[j]
      BY <2>3, <1>11
    <3> QED BY <2>1, <3>1, <3>2, <1>8
  <2> QED BY <2>2, <2>3
<1>16. a + F \in 1..Len(t) /\ t[a + F] = "lf"
  <2>1. a + F \in 1..Len(t) /\ a + F <= a + F /\ F \in 1..(b - a)
    BY <1>2, <1>3, <1>12
  <2>2. t[a + F] = s[a + F]
    BY <1>13, <2>1
  <2> QED BY <2>1, <2>2, <1>2, <1>3
<1>17. LfPositions(t) # {}
  BY <1>16 DEF LfPositions
<1>18. ASSUME AnyCrLf(t) PROVE AnyCrLf(s)
  <2>1. PICK k \in 1..Len(t) : CrLfAt(t, k)
    BY <1>18 DEF AnyCrLf
  <2>2. k + 1 \in 1..Len(t) /\ t[k] = "cr" /\ t[k + 1] = "lf"
    BY <2>1, <1>12 DEF CrLfAt
  <2>3. CASE k <= a + F
    <3>1. k # a + F
      BY <1>16, <2>2
    <3>2. k + 1 <= a + F
      BY <2>3, <3>1, <1>3
    <3>3. t[k] = s[k] /\ t[k + 1] = s[k + 1] /\ k \in 1..Len(s) /\ k + 1 \in 1..Len(s)
      BY <2>2, <2>3, <3>2, <1>13
    <3>4. CrLfAt(s, k)
      BY <2>2, <3>3, <1>1 DEF CrLfAt
    <3> QED BY <3>3, <3>4 DEF AnyCrLf
  <2>4. CASE ~(k <= a + F)
    <3>1. a + F < k /\ a + F + blanks < k /\ a + F + blanks < k + 1
      BY <2>2, <2>4, <1>3, <1>14
    <3>2. /\ k + shift \in 1..Len(s) /\ t[k] = s[k + shift]
          /\ (k + 1) + shift \in 1..Len(s) /\ t[k + 1] = s[(k + 1) + shift]
      BY <2>2, <3>1, <1>15
    <3>3. (k + 1) + shift = (k + shift) + 1
      BY <1>2, <1>3
    <3> HIDE DEF shift
    <3>4. CrLfAt(s, k + shift)
      BY <2>2, <3>2, <3>3, <1>1 DEF CrLfAt
    <3> QED BY <3>2, <3>4 DEF AnyCrLf
  <2> QED BY <2>3, <2>4
<1>19. t[1] = s[1]
  <2>1. 1 \in 1..Len(t) /\ 1 <= a + F
    BY <1>3, <1>12
  <2> QED BY <1>13, <2>1
<1>20. a <= Len(t) /\ \A k \in 1..a : t[k] = s[k]
  <2>1. \A k \in 1..a : k \in 1..Len(t) /\ k <= a + F
    BY <1>3, <1>12
  <2>2. a <= Len(t)
    BY <1>1, <1>2, <1>3, <1>12
  <2> QED BY <1>13, <2>1, <2>2
<1> QED BY <1>11, <1>17, <1>18, <1>19, <1>20

-----------------------------------------------------------------------------
(* What apply_edits computes.                                              *)

\* The equation that defines ApplyEdits.
ApplyBody(source, E, last, m, c) ==
    [n \in 0..m |-> IF n = 0 THEN source ELSE EditAt(c[n - 1], E, last + 1 - n)]

LEMMA ApplyExists ==
    ASSUME NEW source, NEW E, NEW last, NEW m \in Nat
    PROVE  \E c : c = ApplyBody(source, E, last, m, c)
<1> DEFINE step(s, n) == EditAt(s, E, last + 1 - n)
           body(c, k) == [n \in 0..k |-> IF n = 0 THEN source ELSE step(c[n - 1], n)]
           good == {k \in Nat : \E c : c = body(c, k)}
<1> HIDE DEF step
<1>1. 0 \in good
  <2> DEFINE e == [n \in 0..0 |-> source]
  <2>1. e = body(e, 0)
    OBVIOUS
  <2> QED BY <2>1
<1>2. ASSUME NEW k \in good PROVE k + 1 \in good
  <2>1. PICK c : c = body(c, k)
    BY <1>2
  <2> DEFINE d == [n \in 0..(k + 1) |-> IF n <= k THEN c[n] ELSE step(c[n - 1], n)]
  <2>2. \A n \in 0..k : d[n] = c[n]
    OBVIOUS
  <2>3. \A n \in 0..(k + 1) : n # 0 => n - 1 \in 0..k
    OBVIOUS
  <2>4. \A n \in 0..k : c[n] = IF n = 0 THEN source ELSE step(c[n - 1], n)
    BY <2>1
  <2>5. \A n \in 0..(k + 1) : d[n] = IF n = 0 THEN source ELSE step(d[n - 1], n)
    <3> SUFFICES ASSUME NEW n \in 0..(k + 1)
                 PROVE  d[n] = IF n = 0 THEN source ELSE step(d[n - 1], n)
      OBVIOUS
    <3>1. n # 0 => d[n - 1] = c[n - 1]
      BY <2>2, <2>3
    <3>2. d[n] = IF n <= k THEN c[n] ELSE step(c[n - 1], n)
      OBVIOUS
    <3>3. n <= k => n \in 0..k
      OBVIOUS
    <3> HIDE DEF d
    <3> QED BY <3>1, <3>2, <3>3, <2>4
  <2>6. d = body(d, k + 1)
    <3>1. d = [n \in 0..(k + 1) |-> d[n]]
      OBVIOUS
    <3> HIDE DEF d
    <3> QED BY <3>1, <2>5
  <2>7. k \in Nat
    BY <1>2
  <2>8. \E e : e = body(e, k + 1)
    <3> HIDE DEF d, body
    <3> QED BY <2>6
  <2> HIDE DEF d, body
  <2> QED BY <2>7, <2>8
<1>3. good = Nat
  <2> HIDE DEF good
  <2>1. good \subseteq Nat
    BY DEF good
  <2> QED BY <1>1, <1>2, <2>1, SetInduction
<1> QED BY <1>3 DEF ApplyBody, step

\* c[n] is the text after the edits that start in the last n offsets.
Applies(source, E, c) ==
    /\ c[0] = source
    /\ \A n \in 1..(Len(source) + 1) : c[n] = EditAt(c[n - 1], E, Len(source) + 1 - n)
    /\ c[Len(source) + 1] = ApplyEdits(source, E)

LEMMA ApplySteps ==
    ASSUME NEW source, NEW E, Len(source) \in Nat
    PROVE  \E c : Applies(source, E, c)
<1> DEFINE m == Len(source) + 1
           c == CHOOSE d : d = ApplyBody(source, E, Len(source), m, d)
<1>0. m \in Nat
  OBVIOUS
<1>1. c = ApplyBody(source, E, Len(source), m, c)
  <2>1. \E d : d = ApplyBody(source, E, Len(source), m, d)
    BY <1>0, ApplyExists
  <2> QED BY <2>1
<1>2. c[m] = ApplyEdits(source, E)
  <2>1. ApplyEdits(source, E)
          = (CHOOSE d : d = ApplyBody(source, E, Len(source), Len(source) + 1, d))[Len(source) + 1]
    BY DEF ApplyEdits, ApplyBody
  <2> QED BY <2>1
<1> HIDE DEF c
<1>3. \A n \in 0..m : c[n] = IF n = 0 THEN source ELSE EditAt(c[n - 1], E, Len(source) + 1 - n)
  BY <1>1 DEF ApplyBody
<1>4. c[0] = source /\ \A n \in 1..m : c[n] = EditAt(c[n - 1], E, Len(source) + 1 - n)
  BY <1>3
<1> QED BY <1>2, <1>4 DEF Applies

\* Induction over the first numbers.
LEMMA UpTo ==
    ASSUME NEW m \in Nat, NEW T, 0 \in T,
           \A n \in 1..m : n - 1 \in T => n \in T
    PROVE  \A n \in 0..m : n \in T
<1> DEFINE U == {n \in Nat : n <= m => n \in T}
<1>1. 0 \in U
  OBVIOUS
<1>2. \A n \in U : n + 1 \in U
  <2> SUFFICES ASSUME NEW n \in U, n + 1 <= m PROVE n + 1 \in T
    OBVIOUS
  <2>1. n \in T /\ n + 1 \in 1..m /\ (n + 1) - 1 = n
    OBVIOUS
  <2> QED BY <2>1
<1>3. U = Nat
  <2> HIDE DEF U
  <2>1. U \subseteq Nat
    BY DEF U
  <2> QED BY <1>1, <1>2, <2>1, SetInduction
<1> QED BY <1>3

\* What EditAt does with the edits that start at its offset.
Spliced(s, here) ==
    LET e == CHOOSE d \in here : TRUE
    IN  IF here = {} THEN s ELSE Splice(s, e.start, e.end, e.fix)

LEMMA EditAtSpliced ==
    ASSUME NEW s, NEW E, NEW o
    PROVE  EditAt(s, E, o) = Spliced(s, {d \in E : d.start = o})
BY DEF EditAt, Spliced

LEMMA ApplyNone ==
    ASSUME NEW source, Len(source) \in Nat
    PROVE  ApplyEdits(source, {}) = source
<1>1. PICK c : Applies(source, {}, c)
  BY ApplySteps
<1> DEFINE m == Len(source) + 1
           T == {n \in 0..m : c[n] = source}
<1>2. \A s, o : EditAt(s, {}, o) = s
  BY DEF EditAt
<1>3. 0 \in T
  BY <1>1 DEF Applies
<1>4. \A n \in 1..m : n - 1 \in T => n \in T
  <2> SUFFICES ASSUME NEW n \in 1..m, c[n - 1] = source PROVE c[n] = source
    OBVIOUS
  <2> QED BY <1>1, <1>2 DEF Applies
<1>5. \A n \in 0..m : n \in T
  <2> HIDE DEF T
  <2>1. m \in Nat
    OBVIOUS
  <2> HIDE DEF m
  <2> QED BY <1>3, <1>4, <2>1, UpTo
<1> QED BY <1>1, <1>5 DEF Applies

\* An edit that starts before all others is applied last.
LEMMA ApplyOne ==
    ASSUME NEW source, Len(source) \in Nat, NEW E, NEW e, e.start \in 0..Len(source),
           \A d \in E : d.start \in Nat /\ d.start > e.start
    PROVE  ApplyEdits(source, E \cup {e})
             = Splice(ApplyEdits(source, E), e.start, e.end, e.fix)
<1> DEFINE m == Len(source) + 1
           k == m - e.start
           F == E \cup {e}
           S(s) == Splice(s, e.start, e.end, e.fix)
<1>1. PICK c : Applies(source, E, c)
  BY ApplySteps
<1>2. PICK d : Applies(source, F, d)
  BY ApplySteps
<1>3. k \in 1..m /\ m \in Nat /\ m - k = e.start
  OBVIOUS
<1>4. ASSUME NEW o \in Nat, o # e.start
      PROVE  \A s : EditAt(s, F, o) = EditAt(s, E, o)
  <2>1. {x \in F : x.start = o} = {x \in E : x.start = o}
    BY <1>4
  <2> QED BY <2>1, EditAtSpliced
<1>5. ASSUME NEW o \in Nat, o <= e.start
      PROVE  \A s : EditAt(s, E, o) = s
  <2>1. {x \in E : x.start = o} = {}
    BY <1>5
  <2> QED BY <2>1 DEF EditAt
<1>6. \A s : EditAt(s, F, e.start) = S(s)
  <2>1. {x \in F : x.start = e.start} = {e}
    OBVIOUS
  <2>2. (CHOOSE x \in {e} : TRUE) = e
    OBVIOUS
  <2> QED BY <2>1, <2>2 DEF EditAt
<1>7. \A n \in 1..m : /\ c[n] = EditAt(c[n - 1], E, m - n)
                      /\ d[n] = EditAt(d[n - 1], F, m - n)
  <2> HIDE DEF F
  <2>1. \A n \in 1..m : Len(source) + 1 - n = m - n
    OBVIOUS
  <2>2. \A n \in 1..m : c[n] = EditAt(c[n - 1], E, Len(source) + 1 - n)
    BY <1>1 DEF Applies
  <2>3. \A n \in 1..m : d[n] = EditAt(d[n - 1], F, Len(source) + 1 - n)
    BY <1>2 DEF Applies
  <2> HIDE DEF m
  <2> QED BY <2>1, <2>2, <2>3
<1> DEFINE T == {n \in 0..m : d[n] = IF n < k THEN c[n] ELSE S(c[n])}
<1>8. 0 \in T
  <2>1. 0 < k
    BY <1>3
  <2> QED BY <1>1, <1>2, <1>3, <2>1 DEF Applies
<1>9. \A n \in 1..m : n - 1 \in T => n \in T
  <2> SUFFICES ASSUME NEW n \in 1..m, d[n - 1] = IF n - 1 < k THEN c[n - 1] ELSE S(c[n - 1])
               PROVE  d[n] = IF n < k THEN c[n] ELSE S(c[n])
    OBVIOUS
  <2>1. m - n \in Nat /\ n \in 1..(Len(source) + 1) /\ n \in Nat /\ k \in Nat
    BY <1>3
  <2>2. c[n] = EditAt(c[n - 1], E, m - n) /\ d[n] = EditAt(d[n - 1], F, m - n)
    BY <1>7
  <2>3. CASE n < k
    <3>1. m - n # e.start /\ n - 1 < k
      BY <1>3, <2>1, <2>3
    <3> HIDE DEF S, k, m
    <3> QED BY <1>4, <2>1, <2>2, <2>3, <3>1
  <2>4. CASE n = k
    <3>1. m - n = e.start /\ n - 1 < k /\ ~(n < k) /\ e.start \in Nat /\ e.start <= e.start
      BY <1>3, <2>1, <2>4
    <3> HIDE DEF S, k, m, F
    <3>2. c[n] = c[n - 1] /\ d[n] = S(d[n - 1])
      BY <1>5, <1>6, <2>2, <3>1
    <3> QED BY <3>1, <3>2
  <2>5. CASE n > k
    <3>1. m - n # e.start /\ m - n <= e.start /\ ~(n - 1 < k) /\ ~(n < k)
      BY <1>3, <2>1, <2>5
    <3> HIDE DEF S, k, m, F
    <3>2. c[n] = c[n - 1] /\ d[n] = d[n - 1]
      BY <1>4, <1>5, <2>1, <2>2, <3>1
    <3> QED BY <3>1, <3>2
  <2> QED BY <2>1, <2>3, <2>4, <2>5
<1>10. \A n \in 0..m : n \in T
  <2> HIDE DEF T, m
  <2> QED BY <1>3, <1>8, <1>9, UpTo
<1>11. d[m] = S(c[m])
  <2>1. m \in 0..m /\ ~(m < k)
    BY <1>3
  <2> QED BY <1>10, <2>1
<1> QED BY <1>1, <1>2, <1>11 DEF Applies

-----------------------------------------------------------------------------
(* The plan and what is on disk.                                           *)

\* A text with a fix in it has a line break.
LEMMA FixLf ==
    ASSUME Texts, NEW f \in Files, NEW i \in Items(f), i.fix
    PROVE  LfPositions(Normalized(orig[f])) # {}
<1> DEFINE N == Normalized(orig[f])
           a == i.gap[1]
           b == i.gap[2]
<1>1. /\ N \in Seq(Char) /\ a \in 0..Len(N) /\ b \in 0..Len(N) /\ a < b
      /\ \A k \in (a + 1)..b : N[k] \in Trivia
      /\ LfPositions(Slice(N, a, b)) # {}
  BY FixFacts
<1>2. Len(N) \in Nat
  BY <1>1, LenProperties
<1> HIDE DEF N, a, b
<1>3. a \in Nat /\ b \in Nat /\ a <= b
  BY <1>1, <1>2
<1>4. Len(Slice(N, a, b)) = b - a /\ \A k \in 1..(b - a) : Slice(N, a, b)[k] = N[a + k]
  <2>1. b <= Len(N)
    BY <1>1, <1>2
  <2> QED BY <1>1, <1>3, <2>1, SliceAt
<1>5. PICK k \in 1..(b - a) : N[a + k] = "lf"
  BY <1>1, <1>4 DEF LfPositions
<1>6. a + k \in 1..Len(N)
  BY <1>1, <1>2, <1>3
<1> QED BY <1>5, <1>6 DEF LfPositions, N

\* One suggestion applied to the file of a text that is still as it was read up
\* to the end of the gap: the file of the text with the planned edit applied.
LEMMA FixWrites ==
    ASSUME Texts, NEW f \in Files, NEW i \in Items(f), i.fix,
           NEW x \in Seq(Char), Plain(orig[f], x), i.gap[2] <= Len(x),
           \A k \in 1..i.gap[2] : x[k] = Normalized(orig[f])[k],
           NEW t, t = Splice(x, i.gap[1], i.gap[2], Planned(i).fix)
    PROVE  /\ t \in Seq(Char) /\ Plain(orig[f], t)
           /\ Splice(Writes(orig[f], x), Span(i).start, Span(i).end, After(i))
                = Writes(orig[f], t)
           /\ i.gap[1] <= Len(t) /\ \A k \in 1..i.gap[1] : t[k] = x[k]
<1> DEFINE raw == orig[f]
           N == Normalized(orig[f])
           a == i.gap[1]
           b == i.gap[2]
           new == BlankLineReplacement(Slice(N, a, b), i.blanks)
<1>1. /\ ~Mixed(raw) /\ i.file = f /\ i.blanks \in 0..1 /\ raw \in Seq(Char)
      /\ N \in Seq(Char) /\ a \in 0..Len(N) /\ b \in 0..Len(N) /\ a < b
      /\ Slice(N, a, b) \in Seq(Trivia) /\ LfPositions(Slice(N, a, b)) # {}
  BY FixFacts
<1>2. Len(N) \in Nat /\ Len(x) \in Nat
  BY <1>1, LenProperties
<1>3. /\ Planned(i).fix = new /\ After(i) = OriginalNewlines(raw, new)
      /\ Span(i).start = RawOffset(raw, a) /\ Span(i).end = RawOffset(raw, b)
  BY <1>1 DEF Planned, After, Span
<1>4. b <= Len(x) /\ (\A k \in 1..b : x[k] = N[k]) /\ t = Splice(x, a, b, new) /\ Plain(raw, x)
  BY <1>3
<1> HIDE DEF raw, N, a, b
<1>5. a \in Nat /\ b \in Nat /\ a <= b /\ b <= Len(N)
  BY <1>1, <1>2
<1>6. Slice(x, a, b) = Slice(N, a, b)
  <2>1. \A u, v \in Nat : u <= v /\ v <= b => Slice(N, u, v) = Slice(x, u, v)
    BY <1>1, <1>4, <1>5, SamePrefix, SMTT(30)
  <2>2. a \in Nat /\ b \in Nat /\ a <= b /\ b <= b
    BY <1>5
  <2> QED BY ONLY <2>1, <2>2
<1>7. /\ t \in Seq(Char) /\ a <= Len(t) /\ \A k \in 1..a : t[k] = x[k]
      /\ t[1] = x[1] /\ LfPositions(t) # {}
      /\ ~AnyCrLf(x) => ~AnyCrLf(t)
  <2>1. t = Splice(x, a, b, BlankLineReplacement(Slice(x, a, b), i.blanks))
    BY <1>4, <1>6
  <2>2. Slice(x, a, b) \in Seq(Trivia) /\ LfPositions(Slice(x, a, b)) # {}
    BY <1>1, <1>6
  <2>3. x \in Seq(Char) /\ a \in Nat /\ b \in Nat /\ a < b /\ b <= Len(x)
    BY <1>1, <1>4, <1>5
  <2>4. PICK n \in 0..1 : n = i.blanks
    BY <1>1
  <2>5. t = Splice(x, a, b, BlankLineReplacement(Slice(x, a, b), n))
    BY <2>1, <2>4
  <2> QED BY ONLY <2>2, <2>3, <2>4, <2>5, CharAssumption, ReplacedText
<1>8. Plain(raw, t)
  BY <1>4, <1>7 DEF Plain
<1>9. new \in Seq(Char)
  BY <1>1, ReplacementFacts, TriviaIsText
<1> HIDE DEF new
<1>10. Splice(Writes(raw, x), RawOffset(raw, a), RawOffset(raw, b), OriginalNewlines(raw, new))
          = Writes(raw, Splice(x, a, b, new))
  <2>1. \A k \in 1..b : x[k] = Normalized(raw)[k]
    BY <1>4 DEF N, raw
  <2>2. b <= Len(Normalized(raw))
    BY <1>5 DEF N, raw
  <2>3. raw \in Seq(Char) /\ ~Mixed(raw) /\ x \in Seq(Char) /\ b <= Len(x)
    BY <1>1, <1>4
  <2> QED BY ONLY <1>5, <1>9, <2>1, <2>2, <2>3, CharAssumption, SpliceWrites
<1> QED BY <1>3, <1>4, <1>7, <1>8, <1>10 DEF raw, a, b

\* The planned edits of a file whose suggestions are not among those left.
Replaced(f, left) ==
    {Planned(i) : i \in {j \in Fixed : j.file = f /\ OrigEdit(j) \notin left}}

\* A file with the planned edits E applied to what the compiler read of it: the
\* bytes d are that text, with the byte order mark and the line endings it had.
Holds(f, d, E) ==
    LET x == ApplyEdits(Normalized(orig[f]), E)
    IN  /\ LfPositions(Normalized(orig[f])) # {}
        /\ x \in Seq(Char) /\ Plain(orig[f], x) /\ d = Writes(orig[f], x)

\* The text is still as it was read up to the end of the gap.
Ahead(f, E, gap) ==
    LET x == ApplyEdits(Normalized(orig[f]), E)
    IN  gap[2] <= Len(x) /\ \A k \in 1..gap[2] : x[k] = Normalized(orig[f])[k]

\* The file in work has the edits that were applied, all of them after those
\* that are left, before which nothing has changed.
InWork ==
    phase = "splice" =>
        /\ Holds(file, data, Replaced(file, todo))
        /\ \A d \in todo : \A e \in EditsOf(file) \ todo : d.end <= e.start
        /\ \A j \in Fixed : j.file = file /\ OrigEdit(j) \in todo
                               => Ahead(file, Replaced(file, todo), j.gap)
AsPlanned ==
    ~touched => /\ InWork
                /\ \A f \in written : Holds(f, disk[f], Fixes(f))
                /\ phase = "done" => \A f \in Files : EditsOf(f) = {} \/ f \in written

\* While nothing is reported, the plan stays.
LEMMA SamePlan ==
    ASSUME orig' = orig, reported' = reported, edits' = edits
    PROVE  /\ \A f : Fixes(f)' = Fixes(f) /\ EditsOf(f)' = EditsOf(f)
           /\ \A f, T : Replaced(f, T)' = Replaced(f, T)
           /\ \A f, d, E : Holds(f, d, E)' = Holds(f, d, E)
           /\ \A f, E, g : Ahead(f, E, g)' = Ahead(f, E, g)
           /\ Fixed' = Fixed /\ \A j : OrigEdit(j)' = OrigEdit(j)
<1>1. /\ \A j : Planned(j)' = Planned(j) /\ OrigEdit(j)' = OrigEdit(j)
      /\ AllItems' = AllItems /\ Fixed' = Fixed
  BY SameReading, SameConflict
<1>2. \A f : Fixes(f)' = Fixes(f) /\ EditsOf(f)' = EditsOf(f)
  BY <1>1 DEF Fixes, EditsOf
<1>3. \A f, T : Replaced(f, T)' = Replaced(f, T)
  BY <1>1 DEF Replaced
<1>4. \A f, d, E : Holds(f, d, E)' = Holds(f, d, E)
  BY DEF Holds
<1>5. \A f, E, g : Ahead(f, E, g)' = Ahead(f, E, g)
  BY DEF Ahead
<1> QED BY <1>1, <1>2, <1>3, <1>4, <1>5

\* Without a late write, what is collected belongs to the plan.
LEMMA PlanOf ==
    ASSUME Known, edits = {OrigEdit(i) : i \in Fixed}, NEW f \in Files, NEW e \in EditsOf(f)
    PROVE  \E i \in Fixed : i.file = f /\ i \in Items(f) /\ i.fix /\ e = OrigEdit(i)
<1>1. PICK i \in Fixed : e = OrigEdit(i)
  BY DEF EditsOf
<1>2. i.file = f
  BY <1>1 DEF EditsOf, OrigEdit
<1> QED BY <1>1, <1>2 DEF Known, Fixed

LEMMA OpenPlanned ==
    ASSUME IInv, Known, Exact, AsPlanned, NEW f \in Files, OpenFile(f)
    PROVE  AsPlanned'
<1> SUFFICES ASSUME ~touched PROVE AsPlanned'
  BY DEF OpenFile, AsPlanned
<1>1. /\ phase = "apply" /\ f \notin written /\ EditsOf(f) # {} /\ touched' = touched
      /\ phase' = "splice" /\ file' = f /\ data' = disk[f] /\ todo' = EditsOf(f)
      /\ written' = written /\ disk' = disk
      /\ orig' = orig /\ reported' = reported /\ edits' = edits
  BY DEF OpenFile
<1>2. Texts /\ disk[f] = orig[f] /\ orig[f] \in Seq(Char)
  BY <1>1 DEF IInv, TypeOK, Texts, Untouched
<1>3. edits = {OrigEdit(i) : i \in Fixed} /\ ~Mixed(orig[f])
  BY <1>1 DEF Exact
<1>4. PICK e \in EditsOf(f) : TRUE
  BY <1>1
<1>5. LfPositions(Normalized(orig[f])) # {}
  <2>1. PICK i \in Fixed : i \in Items(f) /\ i.fix
    BY <1>3, PlanOf
  <2> QED BY <1>2, <2>1, FixLf
<1>6. Replaced(f, EditsOf(f)) = {}
  BY <1>3 DEF Replaced, EditsOf, OrigEdit
<1>7. Normalized(orig[f]) \in Seq(Char) /\ Len(Normalized(orig[f])) \in Nat
  BY <1>2, CharAssumption, NormalizedFacts, LenProperties
<1>8. ApplyEdits(Normalized(orig[f]), {}) = Normalized(orig[f])
  BY <1>7, ApplyNone
<1>9. Holds(f, disk[f], {})
  <2>1. orig[f] = Writes(orig[f], Normalized(orig[f]))
    BY <1>2, <1>3, CharAssumption, OwnText
  <2>2. Plain(orig[f], Normalized(orig[f]))
    BY <1>2, <1>3, <1>5, CharAssumption, OwnPlain
  <2> QED BY <1>2, <1>5, <1>7, <1>8, <2>1, <2>2 DEF Holds
<1>10. ASSUME NEW j \in Fixed, j.file = f PROVE Ahead(f, {}, j.gap)
  <2>1. j \in Items(f) /\ j.fix
    BY <1>10 DEF Known, Fixed
  <2>2. j.gap[2] \in 0..Len(Normalized(orig[f]))
    BY <1>2, <2>1, FixFacts
  <2> QED BY <1>7, <1>8, <2>2 DEF Ahead
<1>11. InWork'
  <2>1. Replaced(f, EditsOf(f))' = {} /\ EditsOf(f)' = EditsOf(f)
    BY <1>1, <1>6, SamePlan
  <2>2. Holds(f, disk[f], {})' /\ \A j \in Fixed' : j.file = f => Ahead(f, {}, j.gap)'
    BY <1>1, <1>9, <1>10, SamePlan
  <2> QED BY <1>1, <2>1, <2>2 DEF InWork
<1>12. \A g \in written' : Holds(g, disk[g], Fixes(g))'
  BY <1>1, SamePlan DEF AsPlanned
<1> QED BY <1>1, <1>11, <1>12 DEF AsPlanned

\* Two suggestions with one edit are one planned edit.
LEMMA SameEdit ==
    ASSUME Texts, Known, NEW i \in Fixed, NEW j \in Fixed, OrigEdit(i) = OrigEdit(j)
    PROVE  Planned(i) = Planned(j)
<1> DEFINE f == i.file
<1>1. /\ j.file = f /\ Span(i).start = Span(j).start /\ Span(i).end = Span(j).end
      /\ After(i) = After(j)
  BY DEF OrigEdit
<1>2. f \in Files /\ i \in Items(f) /\ i.fix /\ j \in Items(f) /\ j.fix
  BY <1>1 DEF Known, Fixed
<1> HIDE DEF f
<1>3. i.gap[1] = j.gap[1] /\ i.gap[2] = j.gap[2]
  BY <1>1, <1>2, PairFacts
<1>4. i.gap = <<i.gap[1], i.gap[2]>> /\ j.gap = <<j.gap[1], j.gap[2]>>
  BY <1>2, FixFacts
<1>5. i.gap = j.gap
  BY <1>3, <1>4
<1> QED BY <1>1, <1>2, <1>5, PairFacts

\* An edit that ends before another starts is planned before it.
LEMMA PlannedBefore ==
    ASSUME Texts, Known, NEW f \in Files,
           NEW i \in Fixed, i.file = f, NEW j \in Fixed, j.file = f,
           OrigEdit(i).end <= OrigEdit(j).start
    PROVE  /\ i.gap[2] <= j.gap[1]
           /\ i.gap[1] \in Nat /\ i.gap[2] \in Nat /\ j.gap[1] \in Nat /\ j.gap[2] \in Nat
           /\ i.gap[1] < i.gap[2] /\ j.gap[1] < j.gap[2]
<1>1. i \in Items(f) /\ i.fix /\ j \in Items(f) /\ j.fix
  BY DEF Known, Fixed
<1>2. Span(i).end <= Span(j).start
  BY DEF OrigEdit
<1>3. Span(i).end \in Nat /\ Span(j).start \in Nat
  BY <1>1, SpanFacts
<1>4. ~(j.gap[1] < i.gap[2])
  <2>1. Span(j).start < Span(i).end <=> j.gap[1] < i.gap[2]
    BY <1>1, PairFacts
  <2> QED BY <1>2, <1>3, <2>1
<1>5. /\ i.gap[1] \in 0..Len(Normalized(orig[f])) /\ i.gap[2] \in 0..Len(Normalized(orig[f]))
      /\ j.gap[1] \in 0..Len(Normalized(orig[f])) /\ j.gap[2] \in 0..Len(Normalized(orig[f]))
      /\ i.gap[1] < i.gap[2] /\ j.gap[1] < j.gap[2]
  BY <1>1, FixFacts
<1> QED BY <1>4, <1>5

LEMMA SplicePlanned ==
    ASSUME IInv, Known, Exact, AsPlanned, NEW e \in todo, SpliceEdit(e)
    PROVE  AsPlanned'
<1> SUFFICES ASSUME ~touched PROVE AsPlanned'
  BY DEF SpliceEdit, AsPlanned
<1>1. /\ phase = "splice" /\ touched' = touched /\ file' = file
      /\ written' = written /\ disk' = disk
      /\ orig' = orig /\ reported' = reported /\ edits' = edits
      /\ e \in todo /\ \A d \in todo : d.start <= e.start
  BY DEF SpliceEdit, IsNext
<1>2. ~Stale(e)
  <2>1. Sane(e, data)
    BY <1>1 DEF IInv, Untouched
  <2>2. e.end \in Nat /\ Len(data) \in Nat
    BY <1>1, LenProperties DEF IInv, TypeOK, Edit
  <2> QED BY <2>1, <2>2 DEF Sane, Stale
<1>3. /\ data' = Splice(data, e.start, e.end, e.after) /\ todo' = todo \ {e}
      /\ phase' = "splice"
  BY <1>1, <1>2 DEF SpliceEdit
<1> DEFINE f == file
           N == Normalized(orig[f])
           R == Replaced(f, todo)
           x == ApplyEdits(N, R)
<1>4. Texts /\ f \in Files /\ orig[f] \in Seq(Char)
  BY <1>1 DEF IInv, TypeOK, Texts
<1>5. edits = {OrigEdit(i) : i \in Fixed} /\ ~Mixed(orig[f])
  BY <1>1, <1>4 DEF Exact
<1>6. todo \subseteq EditsOf(f)
  BY DEF IInv, TypeOK, EditsOf
<1>7. PICK i \in Fixed : i.file = f /\ i \in Items(f) /\ i.fix /\ e = OrigEdit(i)
  BY <1>1, <1>4, <1>5, <1>6, PlanOf
<1> DEFINE p == Planned(i)
           t == Splice(x, i.gap[1], i.gap[2], p.fix)
<1>8. p.start = i.gap[1] /\ p.end = i.gap[2]
  BY DEF Planned
<1>9. e.start = Span(i).start /\ e.end = Span(i).end /\ e.after = After(i)
  BY <1>7 DEF OrigEdit
<1>10. /\ Holds(f, data, R)
       /\ \A d \in todo : \A g \in EditsOf(f) \ todo : d.end <= g.start
       /\ \A j \in Fixed : j.file = f /\ OrigEdit(j) \in todo => Ahead(f, R, j.gap)
  BY <1>1 DEF AsPlanned, InWork
<1>11. /\ LfPositions(N) # {} /\ x \in Seq(Char) /\ Plain(orig[f], x)
       /\ data = Writes(orig[f], x)
  BY <1>10 DEF Holds
<1>12. i.gap[2] <= Len(x) /\ \A k \in 1..i.gap[2] : x[k] = N[k]
  <2>1. Ahead(f, R, i.gap)
    BY <1>7, <1>10
  <2> QED BY <2>1 DEF Ahead
<1>13. N \in Seq(Char) /\ Len(N) \in Nat /\ Len(x) \in Nat
  BY <1>4, <1>11, CharAssumption, NormalizedFacts, LenProperties
<1>14. i.gap[1] \in 0..Len(N) /\ i.gap[2] \in 0..Len(N) /\ i.gap[1] < i.gap[2]
  BY <1>4, <1>7, FixFacts
<1>15. Replaced(f, todo') = R \cup {p}
  <2>1. ASSUME NEW j \in Fixed, j.file = f, OrigEdit(j) \notin todo'
        PROVE  Planned(j) \in R \cup {p}
    <3>1. CASE OrigEdit(j) \notin todo
      BY <2>1, <3>1 DEF Replaced
    <3>2. CASE OrigEdit(j) \in todo
      <4>1. OrigEdit(j) = OrigEdit(i)
        BY <1>3, <1>7, <2>1, <3>2
      <4>2. Planned(j) = p
        BY <1>4, <4>1, SameEdit
      <4> QED BY <4>2
    <3> QED BY <3>1, <3>2
  <2>2. OrigEdit(i) \notin todo'
    BY <1>3, <1>7
  <2>3. todo' \subseteq todo
    BY <1>3
  <2> HIDE DEF p
  <2>4. p \in Replaced(f, todo')
    BY <1>7, <2>2 DEF Replaced, p
  <2>5. R \subseteq Replaced(f, todo')
    BY <2>3 DEF Replaced
  <2>6. Replaced(f, todo') \subseteq R \cup {p}
    <3> HIDE DEF R
    <3> QED BY <2>1 DEF Replaced
  <2> QED BY <2>4, <2>5, <2>6
<1>16. \A d \in R : d.start \in Nat /\ d.start > p.start
  <2> SUFFICES ASSUME NEW d \in R PROVE d.start \in Nat /\ d.start > p.start
    OBVIOUS
  <2>1. PICK j \in Fixed : j.file = f /\ OrigEdit(j) \notin todo /\ d = Planned(j)
    BY DEF Replaced
  <2>2. OrigEdit(j) \in EditsOf(f) \ todo
    BY <1>5, <2>1 DEF EditsOf, OrigEdit
  <2>3. OrigEdit(i).end <= OrigEdit(j).start
    BY <1>1, <1>7, <1>10, <2>2
  <2>4. /\ i.gap[2] <= j.gap[1] /\ i.gap[1] < i.gap[2]
        /\ i.gap[1] \in Nat /\ i.gap[2] \in Nat /\ j.gap[1] \in Nat
    BY <1>4, <1>7, <2>1, <2>3, PlannedBefore
  <2>5. d.start = j.gap[1]
    BY <2>1 DEF Planned
  <2> QED BY <1>8, <2>4, <2>5
<1>17. ApplyEdits(N, Replaced(f, todo')) = t
  <2> HIDE DEF N, R, p
  <2>1. p.start \in 0..Len(N)
    BY <1>8, <1>14
  <2>2. ApplyEdits(N, R \cup {p}) = Splice(ApplyEdits(N, R), p.start, p.end, p.fix)
    BY <1>13, <1>16, <2>1, ApplyOne
  <2> QED BY <1>8, <1>15, <2>2
<1>18. /\ t \in Seq(Char) /\ Plain(orig[f], t)
       /\ Splice(Writes(orig[f], x), Span(i).start, Span(i).end, After(i)) = Writes(orig[f], t)
       /\ i.gap[1] <= Len(t) /\ \A k \in 1..i.gap[1] : t[k] = x[k]
  <2> HIDE DEF x
  <2> QED BY <1>4, <1>7, <1>11, <1>12, FixWrites
<1> HIDE DEF t
<1>19. Holds(f, data', Replaced(f, todo'))
  BY <1>3, <1>9, <1>11, <1>17, <1>18 DEF Holds
<1>20. ASSUME NEW d \in todo', NEW g \in EditsOf(f) \ todo' PROVE d.end <= g.start
  <2>1. d \in todo /\ d # e
    BY <1>3
  <2>2. CASE g \in EditsOf(f) \ todo
    BY <1>10, <2>1, <2>2
  <2>3. CASE g = e
    <3>1. d.file = e.file /\ d \in edits /\ e \in edits
      BY <2>1 DEF IInv, TypeOK
    <3>2. Apart(d, e)
      BY <1>1, <2>1, <3>1 DEF IInv, Disjoint
    <3>3. d.start <= e.start /\ d.start \in Nat /\ e.start \in Nat
      BY <1>1, <2>1, <3>1 DEF IInv, TypeOK, Edit
    <3> QED BY <2>3, <3>2, <3>3 DEF Apart
  <2> QED BY <1>3, <2>2, <2>3
<1>21. ASSUME NEW j \in Fixed, j.file = f, OrigEdit(j) \in todo'
       PROVE  Ahead(f, Replaced(f, todo'), j.gap)
  <2>1. OrigEdit(j) \in todo
    BY <1>3, <1>21
  <2>2. j.gap[2] <= Len(x) /\ \A k \in 1..j.gap[2] : x[k] = N[k]
    <3>1. Ahead(f, R, j.gap)
      BY <1>10, <1>21, <2>1
    <3> QED BY <3>1 DEF Ahead
  <2>3. OrigEdit(j).end <= OrigEdit(i).start
    <3>1. e \in EditsOf(f) \ todo'
      BY <1>1, <1>3, <1>6
    <3> QED BY <1>7, <1>20, <1>21, <3>1
  <2>4. /\ j.gap[2] <= i.gap[1] /\ j.gap[2] \in Nat /\ i.gap[1] \in Nat
    BY <1>4, <1>7, <1>21, <2>3, PlannedBefore
  <2>5. Len(t) \in Nat
    BY <1>18, LenProperties
  <2> HIDE DEF x, N
  <2>6. j.gap[2] <= Len(t) /\ \A k \in 1..j.gap[2] : t[k] = N[k]
    BY <1>18, <2>2, <2>4, <2>5
  <2> QED BY <1>17, <2>6 DEF Ahead, N
<1>22. InWork'
  <2>1. /\ EditsOf(f)' = EditsOf(f) /\ Fixed' = Fixed /\ \A j : OrigEdit(j)' = OrigEdit(j)
    BY <1>1, SamePlan
  <2>2. Replaced(file, todo)' = Replaced(file, todo')
    BY <1>1, SameReading, SameConflict DEF Replaced
  <2> QED BY <1>1, <1>19, <1>20, <1>21, <2>1, <2>2, SamePlan DEF InWork
<1>23. \A g \in written' : Holds(g, disk[g], Fixes(g))'
  BY <1>1, SamePlan DEF AsPlanned
<1> QED BY <1>1, <1>3, <1>22, <1>23 DEF AsPlanned

\* No edit left: all that was planned for the file is in it.
LEMMA WritePlanned ==
    ASSUME IInv, Known, Exact, AsPlanned, WriteFile
    PROVE  AsPlanned'
<1> SUFFICES ASSUME ~touched PROVE AsPlanned'
  BY DEF WriteFile, AsPlanned
<1>1. /\ phase = "splice" /\ todo = {} /\ touched' = touched /\ phase' = "apply"
      /\ disk' = [disk EXCEPT ![file] = data] /\ written' = written \cup {file}
      /\ orig' = orig /\ reported' = reported /\ edits' = edits
  BY DEF WriteFile
<1>2. file \in Files /\ disk \in [Files -> Seq(Char)] /\ written \subseteq Files
  BY <1>1 DEF IInv, TypeOK
<1>3. Replaced(file, {}) = Fixes(file)
  BY DEF Replaced, Fixes, Fixed
<1>4. Holds(file, data, Fixes(file))
  BY <1>1, <1>3 DEF AsPlanned, InWork
<1>5. ASSUME NEW g \in written' PROVE Holds(g, disk'[g], Fixes(g))
  <2>1. CASE g = file
    BY <1>1, <1>2, <1>4, <2>1
  <2>2. CASE g # file
    <3>1. g \in written /\ g \in Files /\ disk'[g] = disk[g]
      BY <1>1, <1>2, <1>5, <2>2
    <3> QED BY <3>1 DEF AsPlanned
  <2> QED BY <2>1, <2>2
<1>6. \A g \in written' : Holds(g, disk[g], Fixes(g))'
  BY <1>1, <1>5, SamePlan
<1> QED BY <1>1, <1>6 DEF AsPlanned, InWork

\* Steps that write no file and apply no edit.
LEMMA StillPlanned ==
    ASSUME AsPlanned, UNCHANGED <<orig, disk, reported, edits, written, file, data, todo>>,
           touched => touched',
           \/ phase' = phase
           \/ phase' \notin {"splice", "done"}
           \/ phase' = "done" /\ \A f \in Files : EditsOf(f) = {} \/ f \in written
    PROVE  AsPlanned'
<1> SUFFICES ASSUME ~touched, ~touched' PROVE AsPlanned'
  BY DEF AsPlanned
<1>1. /\ InWork /\ \A f \in written : Holds(f, disk[f], Fixes(f))
      /\ phase = "done" => \A f \in Files : EditsOf(f) = {} \/ f \in written
  BY DEF AsPlanned
<1>2. \A f \in written' : Holds(f, disk[f], Fixes(f))'
  BY <1>1, SamePlan
<1>3. phase' = "done" => \A f \in Files : EditsOf(f)' = {} \/ f \in written'
  BY <1>1, SamePlan
<1>4. InWork'
  <2>1. CASE phase' # "splice"
    BY <2>1 DEF InWork
  <2>2. CASE phase' = "splice"
    <3>1. phase = "splice"
      BY <2>2
    <3>2. Replaced(file, todo)' = Replaced(file, todo)
      BY SameReading, SameConflict DEF Replaced
    <3>3. EditsOf(file)' = EditsOf(file)
      BY DEF EditsOf
    <3> QED BY <1>1, <3>1, <3>2, <3>3, SamePlan DEF InWork
  <2> QED BY <2>1, <2>2
<1> QED BY <1>2, <1>3, <1>4 DEF AsPlanned

LEMMA AsPlannedStep ==
    ASSUME IInv, Known, Exact, AsPlanned, [Next]_vars
    PROVE  AsPlanned'
<1>1. ASSUME NEW t \in Targets, NEW f \in Files, NEW i \in Items(f), Report(t, i)
      PROVE  AsPlanned'
  <2>1. written' = {} /\ phase' \in {"collect", "rejected"}
    BY <1>1 DEF Report, IInv, Begun
  <2> QED BY <2>1 DEF AsPlanned, InWork
<1>2. CASE CollectEnd
  <2>1. phase' \in {"rejected", "refused", "apply"}
    BY <1>2 DEF CollectEnd
  <2> QED BY <1>2, <2>1, StillPlanned DEF CollectEnd
<1>3. ASSUME NEW f \in Files, OpenFile(f) PROVE AsPlanned'
  BY <1>3, OpenPlanned
<1>4. ASSUME NEW e \in todo, SpliceEdit(e) PROVE AsPlanned'
  BY <1>4, SplicePlanned
<1>5. CASE WriteFile
  BY <1>5, WritePlanned
<1>6. CASE ApplyEnd
  BY <1>6, StillPlanned DEF ApplyEnd
<1>7. ASSUME NEW f \in Files, LateWrite(f) PROVE AsPlanned'
  BY <1>7 DEF LateWrite, AsPlanned
<1>8. CASE Over \/ UNCHANGED vars
  BY <1>8, StillPlanned DEF Over, vars
<1> QED BY <1>1, <1>2, <1>3, <1>4, <1>5, <1>6, <1>7, <1>8 DEF Next

\* Whatever the plan, and in whatever order it was reported and the files are
\* taken up: when apply is done, every file reads as the planned edits applied
\* to what the compiler read of it, and has the byte order mark and the line
\* endings that it had.
THEOREM PlanIsApplied == Spec => []PlanApplied
<1>1. Init => AsPlanned
  BY DEF Init, AsPlanned, InWork
<1>2. IInv /\ (Known /\ Exact) /\ AsPlanned /\ [Next]_vars => AsPlanned'
  BY AsPlannedStep
<1>3. IInv /\ (Known /\ Exact) /\ AsPlanned => PlanApplied
  <2> SUFFICES ASSUME IInv, Known, Exact, AsPlanned, phase = "done", ~touched, NEW f \in Files
               PROVE  /\ Normalized(disk[f]) = ApplyEdits(Normalized(orig[f]), Fixes(f))
                      /\ HasBom(disk[f]) = HasBom(orig[f])
                      /\ AnyCrLf(disk[f]) = AnyCrLf(orig[f])
                      /\ AnyLf(disk[f]) = AnyLf(orig[f])
    BY DEF PlanApplied
  <2>1. /\ orig[f] \in Seq(Char) /\ ~Mixed(orig[f])
        /\ edits = {OrigEdit(i) : i \in Fixed}
    BY DEF IInv, TypeOK, Exact
  <2>2. CASE f \in written
    <3> DEFINE x == ApplyEdits(Normalized(orig[f]), Fixes(f))
    <3>1. /\ LfPositions(Normalized(orig[f])) # {}
          /\ x \in Seq(Char) /\ Plain(orig[f], x) /\ disk[f] = Writes(orig[f], x)
      BY <2>2 DEF AsPlanned, Holds
    <3> HIDE DEF x
    <3>2. /\ Normalized(disk[f]) = x
          /\ (HasBom(disk[f]) <=> HasBom(orig[f]))
          /\ (AnyCrLf(disk[f]) <=> AnyCrLf(orig[f]))
          /\ (AnyLf(disk[f]) <=> AnyLf(orig[f]))
      BY <2>1, <3>1, CharAssumption, ReadBack
    <3>3. \A s : HasBom(s) \in BOOLEAN /\ AnyCrLf(s) \in BOOLEAN /\ AnyLf(s) \in BOOLEAN
      BY DEF HasBom, AnyCrLf, AnyLf
    <3> QED BY <3>2, <3>3 DEF x
  <2>3. CASE f \notin written
    <3>1. disk[f] = orig[f] /\ EditsOf(f) = {}
      BY <2>3 DEF IInv, Untouched, AsPlanned
    <3>2. Fixes(f) = {}
      <4>1. ASSUME NEW i \in AllItems, i.file = f, i.fix PROVE FALSE
        <5>1. OrigEdit(i) \in edits /\ OrigEdit(i).file = f
          BY <2>1, <4>1 DEF Fixed, OrigEdit
        <5> QED BY <3>1, <5>1 DEF EditsOf
      <4> QED BY <4>1 DEF Fixes
    <3>3. Len(Normalized(orig[f])) \in Nat
      BY <2>1, CharAssumption, NormalizedFacts, LenProperties
    <3> QED BY <3>1, <3>2, <3>3, ApplyNone
  <2> QED BY <2>2, <2>3
<1>4. Init => Known /\ Exact
  BY InitExact
<1>5. IInv /\ (Known /\ Exact) /\ [Next]_vars => (Known /\ Exact)'
  BY ExactStep
<1> QED BY <1>1, <1>2, <1>3, <1>4, <1>5, Invariance, PTL DEF Spec
=============================================================================
