------------------------- MODULE ListingImagesProofs -------------------------
(***************************************************************************)
(* Theorems about ListingImages, for every set of images and every limit.  *)
(***************************************************************************)
EXTENDS ListingImages, SequenceTheorems, FiniteSetTheorems,
        WellFoundedInduction, TLAPS

-----------------------------------------------------------------------------
(* $pull.                                                                  *)

LEMMA LeastNumber ==
    ASSUME NEW T, T \subseteq Nat, T # {}
    PROVE  \E x \in T : \A y \in T : x <= y
<1> DEFINE less == OpToRel(<, Nat)
<1>1. IsWellFoundedOn(less, Nat)
  BY NatLessThanWellFounded, Zenon
<1>2. \A x, y \in Nat : y < x => <<y, x>> \in less
  BY Zenon DEF OpToRel
<1> HIDE DEF less
<1>3. PICK x \in T : \A y \in T : ~(<<y, x>> \in less)
  BY <1>1, WFMin
<1>4. \A y \in T : x \in Nat /\ y \in Nat /\ ~(y < x)
  BY <1>2, <1>3
<1>5. QED
  BY <1>4

\* kept[m] is what $pull keeps of the first m images, up to n of them.
IsKept(kept, seq, i, n) ==
    kept = [m \in 0 .. n |->
               IF m = 0 THEN <<>>
               ELSE IF seq[m].id = i THEN kept[m - 1] ELSE Append(kept[m - 1], seq[m])]

LEMMA KeptExists ==
    ASSUME NEW seq, NEW i, NEW n \in Nat
    PROVE  \E kept : IsKept(kept, seq, i, n)
<1> DEFINE T == {m \in Nat : ~\E kept : IsKept(kept, seq, i, m)}
<1>1. SUFFICES ASSUME T # {}
               PROVE  FALSE
  OBVIOUS
<1>2. PICK m \in T : \A k \in T : m <= k
  BY <1>1, LeastNumber
<1>3. IsKept([k \in 0 .. 0 |-> <<>>], seq, i, 0)
  BY DEF IsKept
<1>4. m \in Nat /\ m # 0 /\ m - 1 \in Nat /\ m - 1 \notin T
  BY <1>2, <1>3
<1>5. PICK kept : IsKept(kept, seq, i, m - 1)
  BY <1>4
<1> DEFINE last == IF seq[m].id = i THEN kept[m - 1] ELSE Append(kept[m - 1], seq[m])
           more == [k \in 0 .. m |-> IF k = m THEN last ELSE kept[k]]
<1>6. \A k \in 0 .. m : k # m => k \in 0 .. m - 1
  BY <1>4
<1>7. \A k \in 0 .. m - 1 :
        kept[k] = IF k = 0 THEN <<>>
                  ELSE IF seq[k].id = i THEN kept[k - 1] ELSE Append(kept[k - 1], seq[k])
  BY <1>5 DEF IsKept
<1>8. \A k \in 0 .. m : k # 0 => k - 1 \in 0 .. m /\ more[k - 1] = kept[k - 1]
  BY <1>4
<1> HIDE DEF last
<1>9. \A k \in 0 .. m :
        more[k] = IF k = 0 THEN <<>>
                  ELSE IF seq[k].id = i THEN more[k - 1] ELSE Append(more[k - 1], seq[k])
  <2> TAKE k \in 0 .. m
  <2>1. CASE k = m
    BY <2>1, <1>4, <1>8 DEF last
  <2>2. CASE k # m
    BY <2>2, <1>6, <1>7, <1>8
  <2>3. QED
    BY <2>1, <2>2
<1>10. IsKept(more, seq, i, m)
  BY <1>9 DEF IsKept
<1>11. QED
  BY <1>2, <1>10

\* The first m images without i.
Filtered(w, seq, i, m) ==
    /\ w \in Seq(Entry) /\ Len(w) <= m
    /\ \A k \in 1 .. Len(w) : \E l \in 1 .. m : w[k] = seq[l] /\ seq[l].id # i
    /\ \A l \in 1 .. m : seq[l].id # i => \E k \in 1 .. Len(w) : w[k] = seq[l]
    /\ (\A k, l \in 1 .. Len(seq) : seq[k].id = seq[l].id => k = l)
          => \A k, l \in 1 .. Len(w) : w[k].id = w[l].id => k = l

LEMMA FilteredAgain ==
    ASSUME NEW seq \in Seq(Entry), NEW i, NEW m \in 1 .. Len(seq), NEW w,
           Filtered(w, seq, i, m - 1)
    PROVE  /\ seq[m].id = i => Filtered(w, seq, i, m)
           /\ seq[m].id # i => Filtered(Append(w, seq[m]), seq, i, m)
<1>1. /\ w \in Seq(Entry) /\ Len(w) \in Nat /\ Len(w) <= m - 1
      /\ m \in Nat /\ m >= 1 /\ m <= Len(seq) /\ seq[m] \in Entry /\ Len(seq) \in Nat
  BY DEF Filtered
<1>2. \A l \in 1 .. m : l = m \/ l \in 1 .. m - 1
  BY <1>1
<1>3. \A l \in 1 .. m - 1 : l \in 1 .. m
  BY <1>1
<1>4. /\ \A k \in 1 .. Len(w) : \E l \in 1 .. m - 1 : w[k] = seq[l] /\ seq[l].id # i
      /\ \A l \in 1 .. m - 1 : seq[l].id # i => \E k \in 1 .. Len(w) : w[k] = seq[l]
      /\ (\A k, l \in 1 .. Len(seq) : seq[k].id = seq[l].id => k = l)
            => \A k, l \in 1 .. Len(w) : w[k].id = w[l].id => k = l
  BY DEF Filtered
<1>5. ASSUME seq[m].id = i
      PROVE  Filtered(w, seq, i, m)
  <2>1. \A k \in 1 .. Len(w) : \E l \in 1 .. m : w[k] = seq[l] /\ seq[l].id # i
    BY <1>3, <1>4
  <2>2. \A l \in 1 .. m : seq[l].id # i => \E k \in 1 .. Len(w) : w[k] = seq[l]
    BY <1>2, <1>4, <1>5
  <2>3. Len(w) <= m
    BY <1>1
  <2>4. QED
    BY <1>1, <1>4, <2>1, <2>2, <2>3 DEF Filtered
<1>6. ASSUME seq[m].id # i
      PROVE  Filtered(Append(w, seq[m]), seq, i, m)
  <2> DEFINE v == Append(w, seq[m])
  <2>1. /\ v \in Seq(Entry) /\ Len(v) = Len(w) + 1
        /\ v[Len(w) + 1] = seq[m]
        /\ \A k \in 1 .. Len(w) : v[k] = w[k]
    BY <1>1
  <2>2. \A k \in 1 .. Len(v) : k = Len(w) + 1 \/ k \in 1 .. Len(w)
    BY <1>1, <2>1
  <2>3. \A k \in 1 .. Len(w) : k \in 1 .. Len(v)
    BY <1>1, <2>1
  <2>4. Len(w) + 1 \in 1 .. Len(v)
    BY <1>1, <2>1
  <2> HIDE DEF v
  <2>5. \A k \in 1 .. Len(v) : \E l \in 1 .. m : v[k] = seq[l] /\ seq[l].id # i
    <3> TAKE k \in 1 .. Len(v)
    <3>1. CASE k = Len(w) + 1
      BY <1>1, <1>6, <2>1, <3>1
    <3>2. CASE k \in 1 .. Len(w)
      <4>1. PICK l \in 1 .. m - 1 : w[k] = seq[l] /\ seq[l].id # i
        BY <1>4, <3>2
      <4>2. l \in 1 .. m /\ v[k] = w[k]
        BY <1>3, <2>1, <3>2
      <4>3. QED
        BY <4>1, <4>2
    <3>3. QED
      BY <2>2, <3>1, <3>2
  <2>6. \A l \in 1 .. m : seq[l].id # i => \E k \in 1 .. Len(v) : v[k] = seq[l]
    <3> SUFFICES ASSUME NEW l \in 1 .. m, seq[l].id # i
                 PROVE  \E k \in 1 .. Len(v) : v[k] = seq[l]
      OBVIOUS
    <3>1. CASE l = m
      BY <2>1, <2>4, <3>1
    <3>2. CASE l \in 1 .. m - 1
      <4>1. PICK k \in 1 .. Len(w) : w[k] = seq[l]
        BY <1>4, <3>2
      <4>2. QED
        BY <2>1, <2>3, <4>1
    <3>3. QED
      BY <1>2, <3>1, <3>2
  <2>7. ASSUME \A k, l \in 1 .. Len(seq) : seq[k].id = seq[l].id => k = l,
               NEW k \in 1 .. Len(v), NEW l \in 1 .. Len(v), v[k].id = v[l].id
        PROVE  k = l
    <3>1. \A n \in 1 .. Len(w) : w[n].id # seq[m].id
      <4> SUFFICES ASSUME NEW n \in 1 .. Len(w), w[n].id = seq[m].id
                   PROVE  FALSE
        OBVIOUS
      <4>1. PICK r \in 1 .. m - 1 : w[n] = seq[r]
        BY <1>4
      <4>2. r \in 1 .. Len(seq) /\ m \in 1 .. Len(seq) /\ r # m
        BY <1>1
      <4>3. QED
        BY <2>7, <4>1, <4>2
    <3>2. CASE k \in 1 .. Len(w) /\ l \in 1 .. Len(w)
      BY <1>4, <2>1, <2>7, <3>2
    <3>3. CASE k = Len(w) + 1 \/ l = Len(w) + 1
      BY <2>1, <2>2, <2>7, <3>1, <3>3
    <3>4. QED
      BY <2>2, <3>2, <3>3
  <2>8. Len(v) <= m
    BY <1>1, <2>1
  <2>9. Filtered(v, seq, i, m)
    BY <2>1, <2>5, <2>6, <2>7, <2>8 DEF Filtered
  <2>10. QED
    BY <2>9 DEF v
<1>7. QED
  BY <1>5, <1>6

LEMMA WithoutFilters ==
    ASSUME NEW seq \in Seq(Entry), NEW i
    PROVE  Filtered(Without(seq, i), seq, i, Len(seq))
<1> DEFINE kept == CHOOSE k : IsKept(k, seq, i, Len(seq))
           T == {m \in 0 .. Len(seq) : ~Filtered(kept[m], seq, i, m)}
<1>1. Len(seq) \in Nat
  OBVIOUS
<1>2. IsKept(kept, seq, i, Len(seq))
  BY <1>1, KeptExists
<1>3. Without(seq, i) = kept[Len(seq)]
  BY DEF Without, IsKept
<1> HIDE DEF kept
<1>4. \A m \in 0 .. Len(seq) :
        kept[m] = IF m = 0 THEN <<>>
                  ELSE IF seq[m].id = i THEN kept[m - 1] ELSE Append(kept[m - 1], seq[m])
  BY <1>2 DEF IsKept
<1>5. ASSUME T # {}
      PROVE  FALSE
  <2>0. T \subseteq Nat
    BY <1>1
  <2>1. PICK m \in T : \A k \in T : m <= k
    BY <1>5, <2>0, LeastNumber
  <2>2. Filtered(<<>>, seq, i, 0)
    BY DEF Filtered
  <2>3. m # 0
    BY <1>1, <1>4, <2>1, <2>2
  <2>4. m \in 1 .. Len(seq) /\ m - 1 \in 0 .. Len(seq) /\ m - 1 \notin T
    BY <1>1, <2>1, <2>3
  <2>5. Filtered(kept[m - 1], seq, i, m - 1)
    BY <2>4
  <2>6. /\ seq[m].id = i => Filtered(kept[m - 1], seq, i, m)
        /\ seq[m].id # i => Filtered(Append(kept[m - 1], seq[m]), seq, i, m)
    BY <2>4, <2>5, FilteredAgain
  <2>7. Filtered(kept[m], seq, i, m)
    BY <1>4, <2>3, <2>4, <2>6
  <2>8. QED
    BY <2>1, <2>7
<1>6. QED
  BY <1>1, <1>3, <1>5
-----------------------------------------------------------------------------
(* What the steps do to the images: which entries an image has after them. *)

LEMMA ListedByEntries ==
    ASSUME NEW seq, NEW i
    PROVE  i \in IdsOf(seq) <=> EntriesOf(seq, i) # {}
BY DEF IdsOf, EntriesOf

LEMMA EntriesAreIts ==
    ASSUME NEW seq \in Seq(Entry), NEW i
    PROVE  /\ DOMAIN seq = 1 .. Len(seq)
           /\ \A e : e \in EntriesOf(seq, i) <=>
                   \E k \in 1 .. Len(seq) : seq[k].id = i /\ e = seq[k]
BY DEF EntriesOf

LEMMA WithoutLeaves ==
    ASSUME NEW seq \in Seq(Entry), NEW i
    PROVE  /\ Without(seq, i) \in Seq(Entry)
           /\ WellFormed(seq) => WellFormed(Without(seq, i))
           /\ EntriesOf(Without(seq, i), i) = {}
           /\ \A j : j # i => EntriesOf(Without(seq, i), j) = EntriesOf(seq, j)
<1> DEFINE w == Without(seq, i)
<1>1. /\ w \in Seq(Entry) /\ Len(w) <= Len(seq)
      /\ \A k \in 1 .. Len(w) : \E l \in 1 .. Len(seq) : w[k] = seq[l] /\ seq[l].id # i
      /\ \A l \in 1 .. Len(seq) : seq[l].id # i => \E k \in 1 .. Len(w) : w[k] = seq[l]
      /\ (\A k, l \in 1 .. Len(seq) : seq[k].id = seq[l].id => k = l)
            => \A k, l \in 1 .. Len(w) : w[k].id = w[l].id => k = l
  BY WithoutFilters DEF Filtered
<1>2. Len(w) \in Nat /\ Len(seq) \in Nat
  BY <1>1
<1> HIDE DEF w
<1>3. DOMAIN w = 1 .. Len(w) /\ DOMAIN seq = 1 .. Len(seq)
  BY <1>1
<1>4. WellFormed(seq) => WellFormed(w)
  <2> SUFFICES ASSUME WellFormed(seq)
               PROVE  WellFormed(w)
    OBVIOUS
  <2>1. Len(seq) <= MaxImages /\ MaxImages \in Nat
    BY ImagesAssumption DEF WellFormed, ImagesAssumption
  <2>2. Len(w) <= MaxImages
    BY <1>1, <1>2, <2>1
  <2>3. \A k, l \in 1 .. Len(seq) : seq[k].id = seq[l].id => k = l
    BY <1>3 DEF WellFormed
  <2>4. \A k, l \in 1 .. Len(w) : w[k].id = w[l].id => k = l
    BY <1>1, <2>3
  <2>5. QED
    BY <1>3, <2>2, <2>4 DEF WellFormed
<1>5. EntriesOf(w, i) = {}
  BY <1>1, <1>3 DEF EntriesOf
<1>6. ASSUME NEW j, j # i
      PROVE  EntriesOf(w, j) = EntriesOf(seq, j)
  <2>1. ASSUME NEW e
        PROVE  e \in EntriesOf(w, j) <=> e \in EntriesOf(seq, j)
    <3>1. e \in EntriesOf(w, j) <=> \E k \in 1 .. Len(w) : w[k].id = j /\ e = w[k]
      BY <1>1, EntriesAreIts
    <3>2. e \in EntriesOf(seq, j) <=> \E k \in 1 .. Len(seq) : seq[k].id = j /\ e = seq[k]
      BY EntriesAreIts
    <3>3. ASSUME NEW k \in 1 .. Len(w), w[k].id = j, e = w[k]
          PROVE  \E l \in 1 .. Len(seq) : seq[l].id = j /\ e = seq[l]
      <4>1. PICK l \in 1 .. Len(seq) : w[k] = seq[l]
        BY <1>1
      <4>2. QED
        BY <3>3, <4>1
    <3>4. ASSUME NEW l \in 1 .. Len(seq), seq[l].id = j, e = seq[l]
          PROVE  \E k \in 1 .. Len(w) : w[k].id = j /\ e = w[k]
      <4>1. PICK k \in 1 .. Len(w) : w[k] = seq[l]
        BY <1>1, <1>6, <3>4
      <4>2. QED
        BY <3>4, <4>1
    <3>5. QED
      BY <3>1, <3>2, <3>3, <3>4
  <2>2. QED
    BY <2>1
<1>7. QED
  BY <1>1, <1>4, <1>5, <1>6 DEF w

LEMMA AppendAdds ==
    ASSUME NEW seq \in Seq(Entry), WellFormed(seq), Len(seq) < MaxImages,
           NEW e \in Entry, e.id \notin IdsOf(seq)
    PROVE  /\ Append(seq, e) \in Seq(Entry)
           /\ WellFormed(Append(seq, e))
           /\ EntriesOf(Append(seq, e), e.id) = {e}
           /\ \A j : j # e.id => EntriesOf(Append(seq, e), j) = EntriesOf(seq, j)
<1> DEFINE v == Append(seq, e)
<1>1. /\ v \in Seq(Entry) /\ Len(v) = Len(seq) + 1 /\ Len(seq) \in Nat
      /\ v[Len(seq) + 1] = e
      /\ \A k \in 1 .. Len(seq) : v[k] = seq[k]
  OBVIOUS
<1>2. \A k : k \in 1 .. Len(v) <=> k = Len(seq) + 1 \/ k \in 1 .. Len(seq)
  BY <1>1
<1> HIDE DEF v
<1>3. DOMAIN v = 1 .. Len(v) /\ DOMAIN seq = 1 .. Len(seq)
  BY <1>1
<1>4. \A k \in 1 .. Len(seq) : seq[k].id # e.id
  BY <1>3 DEF IdsOf
<1>5. Len(v) <= MaxImages
  BY <1>1, ImagesAssumption DEF ImagesAssumption
<1>6. \A k, l \in 1 .. Len(v) : v[k].id = v[l].id => k = l
  BY <1>1, <1>2, <1>3, <1>4 DEF WellFormed
<1>7. \A j, x : x \in EntriesOf(v, j) <=> (x = e /\ e.id = j) \/ x \in EntriesOf(seq, j)
  <2> TAKE j, x
  <2>1. x \in EntriesOf(v, j) => (x = e /\ e.id = j) \/ x \in EntriesOf(seq, j)
    BY <1>1, <1>2, <1>3 DEF EntriesOf
  <2>2. x = e /\ e.id = j => x \in EntriesOf(v, j)
    BY <1>1, <1>2, <1>3 DEF EntriesOf
  <2>3. x \in EntriesOf(seq, j) => x \in EntriesOf(v, j)
    BY <1>1, <1>2, <1>3 DEF EntriesOf
  <2>4. QED
    BY <2>1, <2>2, <2>3
<1>8. EntriesOf(seq, e.id) = {}
  BY <1>3, <1>4 DEF EntriesOf
<1>9. EntriesOf(v, e.id) = {e}
  BY <1>7, <1>8
<1>10. ASSUME NEW j, j # e.id
       PROVE  EntriesOf(v, j) = EntriesOf(seq, j)
  <2>1. \A x : x \in EntriesOf(v, j) <=> x \in EntriesOf(seq, j)
    BY <1>7, <1>10
  <2>2. QED
    BY <2>1
<1>11. WellFormed(v)
  BY <1>3, <1>5, <1>6 DEF WellFormed
<1>12. QED
  BY <1>1, <1>9, <1>10, <1>11 DEF v

\* The images once the thumbnail of i is set.
WithThumb(seq, i) == [k \in DOMAIN seq |->
    IF seq[k].id = i THEN [seq[k] EXCEPT !.thumb = TRUE] ELSE seq[k]]

LEMMA WithThumbShows ==
    ASSUME NEW seq \in Seq(Entry), NEW i
    PROVE  /\ WithThumb(seq, i) \in Seq(Entry)
           /\ WellFormed(seq) => WellFormed(WithThumb(seq, i))
           /\ EntriesOf(WithThumb(seq, i), i) = {} <=> EntriesOf(seq, i) = {}
           /\ \A e \in EntriesOf(WithThumb(seq, i), i) : e.thumb
           /\ \A j : j # i => EntriesOf(WithThumb(seq, i), j) = EntriesOf(seq, j)
<1> DEFINE w == WithThumb(seq, i)
<1>1. Len(seq) \in Nat /\ DOMAIN seq = 1 .. Len(seq) /\ \A k \in 1 .. Len(seq) : seq[k] \in Entry
  OBVIOUS
<1>2. \A k \in 1 .. Len(seq) : w[k] \in Entry /\ w[k].id = seq[k].id
  BY <1>1 DEF WithThumb, Entry
<1>3. \A k \in 1 .. Len(seq) :
        /\ seq[k].id = i => w[k] = [id |-> i, thumb |-> TRUE]
        /\ seq[k].id # i => w[k] = seq[k]
  BY <1>1 DEF WithThumb, Entry
<1>4. w = [k \in 1 .. Len(seq) |-> w[k]]
  BY <1>1 DEF WithThumb
<1> HIDE DEF w
<1>5. w \in Seq(Entry) /\ Len(w) = Len(seq) /\ DOMAIN w = 1 .. Len(seq)
  BY <1>1, <1>2, <1>4
<1>6. WellFormed(seq) => WellFormed(w)
  BY <1>1, <1>2, <1>5 DEF WellFormed
<1>7. EntriesOf(w, i) = {} <=> EntriesOf(seq, i) = {}
  BY <1>1, <1>2, <1>5 DEF EntriesOf
<1>8. ASSUME NEW e \in EntriesOf(w, i)
      PROVE  e.thumb
  <2>1. PICK k \in 1 .. Len(seq) : w[k].id = i /\ e = w[k]
    BY <1>5 DEF EntriesOf
  <2>2. seq[k].id = i
    BY <1>2, <2>1
  <2>3. e = [id |-> i, thumb |-> TRUE]
    BY <1>3, <2>1, <2>2
  <2>4. QED
    BY <2>3
<1>9. ASSUME NEW j, j # i
      PROVE  EntriesOf(w, j) = EntriesOf(seq, j)
  BY <1>1, <1>2, <1>3, <1>5, <1>9 DEF EntriesOf
<1>10. QED
  BY <1>5, <1>6, <1>7, <1>8, <1>9 DEF w

LEMMA ReorderedKeeps ==
    ASSUME images \in Seq(Entry), WellFormed(images), NEW f \in Reorderings
    PROVE  /\ Reordered(f) \in Seq(Entry)
           /\ WellFormed(Reordered(f))
           /\ \A j : EntriesOf(Reordered(f), j) = EntriesOf(images, j)
<1> DEFINE P == 1 .. Len(images)
           w == Reordered(f)
<1>1. Len(images) \in Nat /\ Positions = P /\ DOMAIN images = P
  BY DEF Positions
<1>2. f \in [P -> P] /\ \A k, l \in P : f[k] = f[l] => k = l
  BY <1>1 DEF Reorderings
<1>3. w \in Seq(Entry) /\ Len(w) = Len(images) /\ DOMAIN w = P /\ \A k \in P : w[k] = images[f[k]]
  BY <1>1, <1>2 DEF Reordered
<1>4. \A l \in P : \E k \in P : f[k] = l
  <2>1. IsFiniteSet(P)
    BY <1>1, FS_Interval
  <2>2. f \in Injection(P, P)
    BY <1>2 DEF Injection, IsInjective
  <2>3. f \in Surjection(P, P)
    BY <2>1, <2>2, FS_Injection
  <2>4. QED
    BY <2>3 DEF Surjection
<1> HIDE DEF w
<1>5. WellFormed(w)
  BY <1>1, <1>2, <1>3 DEF WellFormed
<1>6. ASSUME NEW j
      PROVE  EntriesOf(w, j) = EntriesOf(images, j)
  <2>1. ASSUME NEW e
        PROVE  e \in EntriesOf(w, j) <=> e \in EntriesOf(images, j)
    <3>1. e \in EntriesOf(w, j) <=> \E k \in P : w[k].id = j /\ e = w[k]
      BY <1>3 DEF EntriesOf
    <3>2. e \in EntriesOf(images, j) <=> \E l \in P : images[l].id = j /\ e = images[l]
      BY <1>1 DEF EntriesOf
    <3>3. \A k \in P : f[k] \in P /\ w[k] = images[f[k]]
      BY <1>2, <1>3
    <3>4. (\E k \in P : w[k].id = j /\ e = w[k]) => \E l \in P : images[l].id = j /\ e = images[l]
      BY <3>3
    <3>5. ASSUME NEW l \in P, images[l].id = j, e = images[l]
          PROVE  \E k \in P : w[k].id = j /\ e = w[k]
      <4>1. PICK k \in P : f[k] = l
        BY <1>4
      <4>2. QED
        BY <3>3, <3>5, <4>1
    <3>6. QED
      BY <3>1, <3>2, <3>4, <3>5
  <2>2. QED
    BY <2>1
<1>7. QED
  BY <1>3, <1>5, <1>6 DEF w
-----------------------------------------------------------------------------
(* The invariant, image by image.                                          *)

Entries(j) == EntriesOf(images, j)
Early      == {"none", "signed", "uploaded", "given up"}

Untouched(j) ==
    /\ Entries(j) = {} /\ job[j].step = "none"
    /\ reorder # None => EntriesOf(reorder.read, j) = {}

\* What holds of an image that no stale reorder has brought back.
Clear(j) ==
    /\ Entries(j) # {} => task[j] = "attached" /\ job[j].step # "pulled" /\ Stored(j)
    /\ Entries(j) # {} /\ job[j].step = "thumbed" => j \in thumbs
    /\ \A e \in Entries(j) : e.thumb => j \in thumbs
    /\ job[j].step = "done" => \A e \in Entries(j) : e.thumb
    /\ j \notin BadImages /\ task[j] = "attached" => Entries(j) # {}
    /\ cleanup # None /\ Entries(j) # {} /\ j \in cleanup.left =>
          original[j] \in 0 .. AttachWithin + cleanup.age
    /\ cleanup # None /\ j \in cleanup.doomed => Entries(j) = {}

Good(j) ==
    /\ task[j] \in Early => Untouched(j)
    /\ job[j].step = "bad" => j \in BadImages
    /\ task[j] \in {"none", "signed"} => original[j] = None
    /\ task[j] = "uploaded" => original[j] \in 0 .. AttachWithin
    /\ cleanup # None /\ j \in cleanup.doomed => task[j] \notin {"none", "signed", "uploaded"}
    /\ j \notin muddled => Clear(j)

LEMMA GoodMeans ==
    IInv <=> TypeOK /\ WellFormed(images) /\ ReorderSound /\ \A j \in Images : Good(j)
<1>1. ASSUME IInv
      PROVE  TypeOK /\ WellFormed(images) /\ ReorderSound /\ \A j \in Images : Good(j)
  <2>1. TypeOK /\ WellFormed(images) /\ ReorderSound
    BY <1>1 DEF IInv, ListingWellFormed
  <2>2. ASSUME NEW j \in Images
        PROVE  Good(j)
    <3>1. task[j] \in Early => Untouched(j)
      BY <1>1, ListedByEntries
         DEF IInv, UnlistedAtFirst, Early, Untouched, Entries, Listed
    <3>2. /\ job[j].step = "bad" => j \in BadImages
          /\ task[j] \in {"none", "signed"} => original[j] = None
          /\ task[j] = "uploaded" => original[j] \in 0 .. AttachWithin
          /\ cleanup # None /\ j \in cleanup.doomed => task[j] \notin {"none", "signed", "uploaded"}
      BY <1>1 DEF IInv, OnlyBadRejected, UploadsAreYoung, DoomedAreOrphans
    <3>3. ASSUME j \notin muddled
          PROVE  Clear(j)
      <4>1. Listed(j) <=> Entries(j) # {}
        BY ListedByEntries DEF Listed, Entries
      <4>2. Entries(j) # {} => task[j] = "attached" /\ job[j].step # "pulled" /\ Stored(j)
        BY <1>1, <3>3, <4>1 DEF IInv, ListedIsAttached, AssetsBehindImages, Entries
      <4>3. Entries(j) # {} /\ job[j].step = "thumbed" => j \in thumbs
        BY <1>1, <3>3, <4>1 DEF IInv, ThumbedHasThumb
      <4>4. \A e \in Entries(j) : e.thumb => j \in thumbs
        BY <1>1, <3>3 DEF IInv, AssetsBehindImages, Entries
      <4>5. job[j].step = "done" => \A e \in Entries(j) : e.thumb
        BY <1>1, <3>3 DEF IInv, DoneMeansShown, Entries
      <4>6. j \notin BadImages /\ task[j] = "attached" => Entries(j) # {}
        BY <1>1, <3>3, <4>1 DEF IInv, AttachedStays
      <4>7. cleanup # None /\ Entries(j) # {} /\ j \in cleanup.left =>
               original[j] \in 0 .. AttachWithin + cleanup.age
        BY <1>1, <3>3, <4>1 DEF IInv, MissedAreYoung
      <4>8. cleanup # None /\ j \in cleanup.doomed => Entries(j) = {}
        BY <1>1, <3>3, <4>1 DEF IInv, DoomedAreOrphans
      <4>9. QED
        BY <4>2, <4>3, <4>4, <4>5, <4>6, <4>7, <4>8 DEF Clear
    <3>4. QED
      BY <3>1, <3>2, <3>3 DEF Good
  <2>3. QED
    BY <2>1, <2>2
<1>2. ASSUME TypeOK, WellFormed(images), ReorderSound, \A j \in Images : Good(j)
      PROVE  IInv
  <2>1. \A j : Listed(j) <=> Entries(j) # {}
    BY ListedByEntries DEF Listed, Entries
  <2>2. UnlistedAtFirst
    BY <1>2, <2>1, ListedByEntries DEF UnlistedAtFirst, Good, Early, Untouched
  <2>3. OnlyBadRejected /\ UploadsAreYoung
    BY <1>2 DEF OnlyBadRejected, UploadsAreYoung, Good
  <2>4. \A j \in Images \ muddled : Clear(j)
    BY <1>2 DEF Good
  <2>5. AssetsBehindImages
    BY <2>4 DEF AssetsBehindImages, Clear, Entries
  <2>6. DoneMeansShown
    BY <2>4 DEF DoneMeansShown, Clear, Entries
  <2>7. AttachedStays /\ ListedIsAttached
    BY <2>1, <2>4 DEF AttachedStays, ListedIsAttached, Clear
  <2>8. ThumbedHasThumb
    BY <2>1, <2>4 DEF ThumbedHasThumb, Clear
  <2>9. MissedAreYoung /\ DoomedAreOrphans
    <3> SUFFICES ASSUME cleanup # None
                 PROVE  MissedAreYoung /\ DoomedAreOrphans
      BY DEF MissedAreYoung, DoomedAreOrphans
    <3>1. cleanup.left \subseteq Images /\ cleanup.doomed \subseteq Images
      BY <1>2 DEF TypeOK, Cleanup
    <3>2. QED
      BY <1>2, <2>1, <2>4, <3>1 DEF MissedAreYoung, DoomedAreOrphans, Good, Clear
  <2>10. QED
    BY <1>2, <2>2, <2>3, <2>5, <2>6, <2>7, <2>8, <2>9 DEF IInv, ListingWellFormed
<1>3. QED
  BY <1>1, <1>2

\* An image about which a step changes nothing.
Same(j) ==
    /\ UNCHANGED <<task[j], original[j], job[j], Entries(j)>>
    /\ j \in thumbs <=> (j \in thumbs)'
    /\ j \in muddled <=> (j \in muddled)'

LEMMA SameIsGood ==
    ASSUME NEW j, Good(j), Same(j), UNCHANGED <<reorder, cleanup>>
    PROVE  Good(j)'
BY DEF Good, Untouched, Clear, Same, Stored
-----------------------------------------------------------------------------
(* Types.                                                                  *)

LEMMA Sizes ==
    /\ MinAge \in Nat /\ AttachWithin \in Nat /\ CleanupWithin \in Nat
    /\ MinAge > AttachWithin + CleanupWithin
    /\ MaxImages \in Nat \ {0} /\ MaxAttempts \in Nat \ {0} /\ MaxStalls \in Nat
    /\ None \notin Nat
BY ImagesAssumption DEF ImagesAssumption

LEMMA TasksTyped ==
    ASSUME TypeOK, NEW i \in Images, NEW step \in TaskSteps, Task(i, step)
    PROVE  /\ task' \in [Images -> TaskSteps]
           /\ task'[i] = step /\ \A j \in Images \ {i} : task'[j] = task[j]
BY DEF TypeOK, Task

LEMMA JobsTyped ==
    ASSUME TypeOK, NEW i \in Images, NEW step \in JobSteps, Job(i, step) \/ Ended(i, step)
    PROVE  /\ job' \in [Images -> JobState]
           /\ job'[i].step = step /\ \A j \in Images \ {i} : job'[j] = job[j]
<1>1. /\ job \in [Images -> JobState]
      /\ 0 \in 0..MaxAttempts - 1 /\ 0 \in 0..MaxStalls
  BY Sizes DEF TypeOK
<1>2. CASE Job(i, step)
  <2>1. job' = [job EXCEPT ![i] = [job[i] EXCEPT !.step = step]]
    BY <1>2 DEF Job
  <2>2. [job[i] EXCEPT !.step = step] \in JobState /\ [job[i] EXCEPT !.step = step].step = step
    BY <1>1 DEF JobState
  <2>3. QED
    BY <1>1, <2>1, <2>2
<1>3. CASE Ended(i, step)
  <2>1. NewJob(step) \in JobState /\ NewJob(step).step = step
    BY <1>1 DEF NewJob, JobState
  <2>2. QED
    BY <1>1, <1>3, <2>1 DEF Ended
<1>4. QED
  BY <1>2, <1>3

LEMMA FailureTyped ==
    ASSUME TypeOK, NEW i \in Images, Failure(i)
    PROVE  /\ job' \in [Images -> JobState]
           /\ job'[i].step \in {"waiting", "failing", "dead", "failed"}
           /\ \A j \in Images \ {i} : job'[j] = job[j]
           /\ job[i].step # "none"
<1>1. job[i] \in JobState
  BY DEF TypeOK
<1>2. CASE \E step \in {"failing", "dead", "failed"} : Ended(i, step)
  <2>1. job[i].step # "none"
    BY DEF Failure, AttemptFails, File, Stall, Active
  <2>2. QED
    BY <1>2, <2>1, JobsTyped DEF JobSteps
<1>3. ASSUME NEW again \in JobState, job' = [job EXCEPT ![i] = again], again.step = "waiting"
      PROVE  /\ job' \in [Images -> JobState] /\ job'[i].step = "waiting"
             /\ \A j \in Images \ {i} : job'[j] = job[j]
  BY <1>3 DEF TypeOK
<1>4. CASE AttemptFails(i) /\ ~(job[i].failed + 1 >= MaxAttempts)
  <2> DEFINE again == [job[i] EXCEPT !.step = "waiting", !.failed = job[i].failed + 1]
  <2>1. job[i].failed + 1 \in 0..MaxAttempts - 1
    BY <1>1, <1>4, Sizes DEF JobState
  <2>2. again \in JobState /\ again.step = "waiting"
    BY <1>1, <2>1 DEF JobState, JobSteps
  <2>3. job' = [job EXCEPT ![i] = again] /\ job[i].step # "none"
    BY <1>1, <1>4 DEF AttemptFails, Active, TypeOK
  <2> HIDE DEF again
  <2>4. QED
    BY <1>3, <2>2, <2>3
<1>5. CASE Stall(i) /\ ~(job[i].stalls + 1 > MaxStalls)
  <2> DEFINE again == [job[i] EXCEPT !.step = "waiting", !.stalls = job[i].stalls + 1]
  <2>1. job[i].stalls + 1 \in 0..MaxStalls
    BY <1>1, <1>5, Sizes DEF JobState
  <2>2. again \in JobState /\ again.step = "waiting"
    BY <1>1, <2>1 DEF JobState, JobSteps
  <2>3. job' = [job EXCEPT ![i] = again] /\ job[i].step # "none"
    BY <1>1, <1>5 DEF Stall, Active, TypeOK
  <2> HIDE DEF again
  <2>4. QED
    BY <1>3, <2>2, <2>3
<1>6. QED
  BY <1>2, <1>4, <1>5 DEF Failure, AttemptFails, File, Stall

LEMMA DestroyTyped ==
    ASSUME TypeOK, NEW i \in Images, DestroyMaybe(i)
    PROVE  /\ original' \in [Images -> (0..MinAge) \cup {None}]
           /\ \A j \in Images \ {i} : original'[j] = original[j]
BY DEF TypeOK, DestroyMaybe

LEMMA OwnerTyped ==
    ASSUME TypeOK, NEW i \in Images, Owner(i)
    PROVE  TypeOK'
<1>1. CASE Sign(i)
  <2>1. task' \in [Images -> TaskSteps]
    BY <1>1, TasksTyped DEF Sign, TaskSteps
  <2>2. QED
    BY <1>1, <2>1 DEF Sign, TypeOK
<1>2. CASE Upload(i)
  <2>1. task' \in [Images -> TaskSteps]
    BY <1>2, TasksTyped DEF Upload, TaskSteps
  <2>2. original' \in [Images -> (0..MinAge) \cup {None}]
    BY <1>2, Sizes DEF Upload, TypeOK
  <2>3. QED
    BY <1>2, <2>1, <2>2 DEF Upload, TypeOK
<1>3. CASE Abandon(i)
  <2>1. task' \in [Images -> TaskSteps]
    BY <1>3, TasksTyped DEF Abandon, TaskSteps
  <2>2. QED
    BY <1>3, <2>1 DEF Abandon, TypeOK
<1>4. CASE Attach(i)
  <2>1. task' \in [Images -> TaskSteps]
    BY <1>4, TasksTyped DEF Attach, TaskSteps
  <2>2. job' \in [Images -> JobState]
    BY <1>4, JobsTyped DEF Attach, JobSteps, TypeOK
  <2>3. images' \in Seq(Entry)
    <3>1. [id |-> i, thumb |-> FALSE] \in Entry
      BY DEF Entry
    <3>2. images \in Seq(Entry)
      BY DEF TypeOK
    <3>3. images' = images \/ images' = Append(images, [id |-> i, thumb |-> FALSE])
      BY <1>4 DEF Attach
    <3>4. QED
      BY <3>1, <3>2, <3>3
  <2>4. QED
    BY <1>4, <2>1, <2>2, <2>3 DEF Attach, TypeOK
<1>5. CASE Enqueue(i)
  <2>1. job' \in [Images -> JobState]
    BY <1>5, JobsTyped DEF Enqueue, JobSteps
  <2>2. QED
    BY <1>5, <2>1 DEF Enqueue, TypeOK
<1>6. CASE Remove(i)
  <2>1. task' \in [Images -> TaskSteps]
    BY <1>6, TasksTyped DEF Remove, TaskSteps
  <2>2. images' \in Seq(Entry)
    BY <1>6, WithoutLeaves DEF Remove, TypeOK
  <2>3. original' \in [Images -> (0..MinAge) \cup {None}]
    BY <1>6, DestroyTyped DEF Remove, TypeOK
  <2>4. thumbs' \subseteq Images
    BY <1>6 DEF Remove, TypeOK
  <2>5. QED
    BY <1>6, <2>1, <2>2, <2>3, <2>4 DEF Remove, TypeOK
<1>7. QED
  BY <1>1, <1>2, <1>3, <1>4, <1>5, <1>6 DEF Owner

LEMMA WorkerTyped ==
    ASSUME TypeOK, NEW i \in Images, Worker(i) \/ Failure(i)
    PROVE  TypeOK'
<1>1. CASE Fetch(i)
  <2>1. job' \in [Images -> JobState]
    BY <1>1, JobsTyped DEF Fetch, JobSteps
  <2>2. QED
    BY <1>1, <2>1 DEF Fetch, TypeOK
<1>2. CASE Reject(i)
  <2>1. job' \in [Images -> JobState]
    BY <1>2, JobsTyped DEF Reject, JobSteps
  <2>2. images' \in Seq(Entry)
    BY <1>2, WithoutLeaves DEF Reject, TypeOK
  <2>3. original' \in [Images -> (0..MinAge) \cup {None}]
    BY <1>2, DestroyTyped DEF Reject, TypeOK
  <2>4. QED
    BY <1>2, <2>1, <2>2, <2>3 DEF Reject, TypeOK
<1>3. CASE UploadThumb(i)
  <2>1. job' \in [Images -> JobState]
    BY <1>3, JobsTyped DEF UploadThumb, JobSteps
  <2>2. QED
    BY <1>3, <2>1 DEF UploadThumb, TypeOK
<1>4. CASE SetThumb(i)
  <2>1. job' \in [Images -> JobState]
    BY <1>4, JobsTyped DEF SetThumb, JobSteps
  <2>2. images' = WithThumb(images, i)
    BY <1>4 DEF SetThumb, WithThumb
  <2>3. images' \in Seq(Entry)
    BY <2>2, WithThumbShows DEF TypeOK
  <2>4. QED
    BY <1>4, <2>1, <2>3 DEF SetThumb, TypeOK
<1>5. CASE Failure(i)
  <2>1. job' \in [Images -> JobState]
    BY <1>5, FailureTyped
  <2>2. QED
    BY <1>5, <2>1 DEF Failure, AttemptFails, File, Stall, TypeOK
<1>6. QED
  BY <1>1, <1>2, <1>3, <1>4, <1>5 DEF Worker

LEMMA OthersTyped ==
    ASSUME TypeOK, WellFormed(images),
           \/ ReadOrder \/ WriteOrder \/ StartCleanup \/ DestroyPage \/ CleanupFails \/ Tick
           \/ \E i \in Images : ListPage(i)
    PROVE  TypeOK'
<1>1. CASE ReadOrder
  <2>1. PICK f \in Reorderings : reorder' = [read |-> images, write |-> Reordered(f)]
    BY <1>1 DEF ReadOrder
  <2>2. reorder' \in [read : Seq(Entry), write : Seq(Entry)]
    BY <2>1, ReorderedKeeps DEF TypeOK
  <2>3. QED
    BY <1>1, <2>2 DEF ReadOrder, TypeOK
<1>2. CASE WriteOrder
  BY <1>2 DEF WriteOrder, TypeOK
<1>3. CASE StartCleanup
  <2>1. cleanup' \in Cleanup
    BY <1>3, Sizes DEF StartCleanup, StartCleanupOf, Assets, Cleanup
  <2>2. QED
    BY <1>3, <2>1 DEF StartCleanup, StartCleanupOf, TypeOK
<1>4. CASE DestroyPage \/ CleanupFails \/ \E i \in Images : ListPage(i)
  <2>1. original' \in [Images -> (0..MinAge) \cup {None}]
    BY <1>4 DEF DestroyPage, CleanupFails, ListPage, DestroyAssets, TypeOK
  <2>2. cleanup \in Cleanup
    BY <1>4 DEF DestroyPage, CleanupFails, ListPage, TypeOK
  <2>3. ASSUME NEW left \in SUBSET Images, NEW doomed \in SUBSET Images, GoOn(left, doomed)
        PROVE  cleanup' # None => cleanup' \in Cleanup
    BY <2>2, <2>3 DEF GoOn, Cleanup
  <2>4. cleanup' # None => cleanup' \in Cleanup
    <3>1. CASE DestroyPage
      BY <2>2, <2>3, <3>1 DEF DestroyPage, Cleanup
    <3>2. CASE CleanupFails
      BY <3>2 DEF CleanupFails
    <3>3. CASE \E i \in Images : ListPage(i)
      <4>1. PICK page \in SUBSET cleanup.left :
              GoOn(cleanup.left \ page, OrphanedAssets(page))
        BY <3>3 DEF ListPage
      <4>2. cleanup.left \ page \in SUBSET Images /\ OrphanedAssets(page) \in SUBSET Images
        BY <2>2 DEF Cleanup, OrphanedAssets, Assets
      <4>3. QED
        BY <2>3, <4>1, <4>2
    <3>4. QED
      BY <1>4, <3>1, <3>2, <3>3
  <2>5. QED
    BY <1>4, <2>1, <2>4 DEF DestroyPage, CleanupFails, ListPage, TypeOK
<1>5. CASE Tick
  <2>1. original' \in [Images -> (0..MinAge) \cup {None}]
    BY <1>5, Sizes DEF Tick, Stored, TypeOK
  <2>2. ASSUME cleanup # None
        PROVE  cleanup' \in Cleanup
    <3>1. cleanup \in Cleanup
      BY <2>2 DEF TypeOK
    <3>2. cleanup' = [cleanup EXCEPT !.age = cleanup.age + 1] /\ cleanup.age < CleanupWithin
      BY <1>5, <2>2 DEF Tick
    <3>3. cleanup.age + 1 \in 0..CleanupWithin
      BY <3>1, <3>2, Sizes DEF Cleanup
    <3>4. QED
      BY <3>1, <3>2, <3>3 DEF Cleanup
  <2>3. cleanup = None => cleanup' = None
    BY <1>5 DEF Tick
  <2>4. QED
    BY <1>5, <2>1, <2>2, <2>3 DEF Tick, TypeOK
<1>6. QED
  BY <1>1, <1>2, <1>3, <1>4, <1>5
-----------------------------------------------------------------------------
(* The steps of the owner.                                                 *)

Sound     == WellFormed(images) /\ ReorderSound /\ \A j \in Images : Good(j)

\* A step about one image.
LEMMA OneImage ==
    ASSUME Sound, NEW i \in Images, WellFormed(images)', UNCHANGED <<reorder, cleanup>>,
           \A j \in Images \ {i} : Same(j), Good(i)'
    PROVE  Sound'
<1>1. \A j \in Images \ {i} : Good(j)'
  BY SameIsGood DEF Sound
<1>2. ReorderSound'
  BY DEF Sound, ReorderSound
<1>3. QED
  BY <1>1, <1>2 DEF Sound

LEMMA SignSound ==
    ASSUME TypeOK, Sound, NEW i \in Images, Sign(i) \/ Abandon(i)
    PROVE  Sound'
<1>1. PICK step \in {"signed", "given up"} :
        Task(i, step) /\ task[i] \in Early /\ (step = "signed" => task[i] = "none")
  BY DEF Sign, Abandon, Early
<1>2. task'[i] = step /\ \A j \in Images \ {i} : task'[j] = task[j]
  BY <1>1, TasksTyped DEF TaskSteps
<1>3. UNCHANGED <<images, original, thumbs, job, reorder, cleanup, muddled>>
  BY DEF Sign, Abandon
<1>4. \A j \in Images : Entries(j)' = Entries(j)
  BY <1>3 DEF Entries
<1>5. \A j \in Images \ {i} : Same(j)
  BY <1>2, <1>3, <1>4 DEF Same
<1>6. Good(i)'
  <2>1. Untouched(i) /\ Untouched(i)'
    BY <1>1, <1>3, <1>4 DEF Sound, Good, Untouched
  <2>2. Clear(i)'
    BY <1>2, <2>1 DEF Clear, Untouched
  <2>3. step = "signed" => original[i] = None /\ (cleanup # None => i \notin cleanup.doomed)
    BY <1>1 DEF Sound, Good
  <2>4. QED
    BY <1>2, <1>3, <2>1, <2>2, <2>3 DEF Good, Untouched
<1>7. QED
  BY <1>3, <1>5, <1>6, OneImage DEF Sound, WellFormed

LEMMA UploadSound ==
    ASSUME TypeOK, Sound, NEW i \in Images, Upload(i)
    PROVE  Sound'
<1>1. task'[i] = "uploaded" /\ \A j \in Images \ {i} : task'[j] = task[j]
  BY TasksTyped DEF Upload, TaskSteps
<1>2. original'[i] = 0 /\ \A j \in Images \ {i} : original'[j] = original[j]
  BY DEF Upload, TypeOK
<1>3. UNCHANGED <<images, thumbs, job, reorder, cleanup, muddled>>
  BY DEF Upload
<1>4. \A j \in Images : Entries(j)' = Entries(j)
  BY <1>3 DEF Entries
<1>5. \A j \in Images \ {i} : Same(j)
  BY <1>1, <1>2, <1>3, <1>4 DEF Same
<1>6. Good(i)'
  <2>1. Untouched(i) /\ Untouched(i)'
    BY <1>3, <1>4 DEF Upload, Early, Sound, Good, Untouched
  <2>2. Clear(i)'
    BY <1>1, <2>1 DEF Clear, Untouched
  <2>3. cleanup' # None => i \notin cleanup'.doomed
    BY <1>3 DEF Upload, Sound, Good
  <2>4. QED
    BY <1>1, <1>2, <2>1, <2>2, <2>3, Sizes DEF Good, Untouched
<1>7. QED
  BY <1>3, <1>5, <1>6, OneImage DEF Sound, WellFormed

LEMMA AttachSound ==
    ASSUME TypeOK, Sound, NEW i \in Images, Attach(i)
    PROVE  Sound'
<1>1. task[i] = "uploaded" /\ UNCHANGED <<original, thumbs, reorder, cleanup, muddled>>
  BY DEF Attach
<1>2. /\ Untouched(i) /\ original[i] \in 0 .. AttachWithin
      /\ cleanup # None => i \notin cleanup.doomed
  BY <1>1 DEF Sound, Good, Early
<1>3. CASE Len(images) < MaxImages
  <2> DEFINE e == [id |-> i, thumb |-> FALSE]
  <2>1. /\ images' = Append(images, e)
        /\ Task(i, "attached") /\ Job(i, "due")
    BY <1>3 DEF Attach
  <2>2. task'[i] = "attached" /\ \A j \in Images \ {i} : task'[j] = task[j]
    BY <2>1, TasksTyped DEF TaskSteps
  <2>3. job'[i].step = "due" /\ \A j \in Images \ {i} : job'[j] = job[j]
    BY <2>1, JobsTyped DEF JobSteps
  <2>4. i \notin IdsOf(images)
    BY <1>2, ListedByEntries DEF Untouched, Entries
  <2>5. e \in Entry /\ e.id = i /\ e.thumb = FALSE /\ images \in Seq(Entry) /\ WellFormed(images)
    BY DEF Entry, TypeOK, Sound
  <2> HIDE DEF e
  <2>6. /\ WellFormed(images')
        /\ EntriesOf(images', i) = {e}
        /\ \A j : j # i => EntriesOf(images', j) = EntriesOf(images, j)
    BY <1>3, <2>1, <2>4, <2>5, AppendAdds
  <2>7. \A j \in Images \ {i} : Same(j)
    BY <1>1, <2>2, <2>3, <2>6 DEF Same, Entries
  <2>8. Good(i)'
    <3>1. Entries(i)' = {e} /\ ~e.thumb
      BY <2>5, <2>6 DEF Entries
    <3>2. original'[i] \in 0 .. AttachWithin /\ Stored(i)'
      BY <1>1, <1>2, Sizes DEF Stored
    <3>3. cleanup' # None => cleanup'.age \in Nat
      BY <1>1, Sizes DEF TypeOK, Cleanup
    <3>4. cleanup' # None => original'[i] \in 0 .. AttachWithin + cleanup'.age
      BY <3>2, <3>3, Sizes
    <3>5. Clear(i)'
      BY <1>1, <1>2, <2>2, <2>3, <3>1, <3>2, <3>4 DEF Clear
    <3>6. QED
      BY <2>2, <2>3, <3>5 DEF Good, Early
  <2>9. WellFormed(images)'
    BY <2>6
  <2>10. QED
    BY <1>1, <2>7, <2>8, <2>9, OneImage
<1>4. CASE ~(Len(images) < MaxImages)
  <2>1. Task(i, "given up") /\ UNCHANGED <<images, job>>
    BY <1>4 DEF Attach
  <2>2. task'[i] = "given up" /\ \A j \in Images \ {i} : task'[j] = task[j]
    BY <2>1, TasksTyped DEF TaskSteps
  <2>3. \A j \in Images : Entries(j)' = Entries(j)
    BY <2>1 DEF Entries
  <2>4. \A j \in Images \ {i} : Same(j)
    BY <1>1, <2>1, <2>2, <2>3 DEF Same
  <2>5. Untouched(i)'
    BY <1>1, <1>2, <2>1, <2>3 DEF Untouched
  <2>6. Clear(i)'
    BY <2>2, <2>5 DEF Clear, Untouched
  <2>7. Good(i)'
    BY <2>2, <2>5, <2>6 DEF Good, Untouched
  <2>8. QED
    BY <1>1, <2>1, <2>4, <2>7, OneImage DEF Sound, WellFormed
<1>5. QED
  BY <1>3, <1>4

LEMMA EnqueueSound ==
    ASSUME TypeOK, Sound, NEW i \in Images, Enqueue(i)
    PROVE  Sound'
<1>1. PICK step \in {"waiting", "none"} : Job(i, step)
  BY DEF Enqueue
<1>2. job'[i].step = step /\ \A j \in Images \ {i} : job'[j] = job[j]
  BY <1>1, JobsTyped DEF JobSteps
<1>3. job[i].step = "due" /\ UNCHANGED <<images, task, original, thumbs, reorder, cleanup, muddled>>
  BY DEF Enqueue
<1>4. \A j \in Images : Entries(j)' = Entries(j)
  BY <1>3 DEF Entries
<1>5. \A j \in Images \ {i} : Same(j)
  BY <1>2, <1>3, <1>4 DEF Same
<1>6. Good(i) /\ task[i] \notin Early
  BY <1>3 DEF Sound, Good, Untouched
<1>7. i \notin muddled => Clear(i)'
  BY <1>2, <1>3, <1>4, <1>6 DEF Good, Clear, Stored
<1>8. Good(i)'
  BY <1>2, <1>3, <1>6, <1>7 DEF Good
<1>9. QED
  BY <1>3, <1>5, <1>8, OneImage DEF Sound, WellFormed

LEMMA RemoveSound ==
    ASSUME TypeOK, Sound, NEW i \in Images, Remove(i)
    PROVE  Sound'
<1>1. UNCHANGED <<job, reorder, cleanup, muddled>> /\ images \in Seq(Entry) /\ Good(i)
  BY DEF Remove, TypeOK, Sound
<1>2. CASE CanRemove(i) /\ Task(i, "pulled") /\ images' = Without(images, i)
             /\ UNCHANGED <<original, thumbs>>
  <2>1. task'[i] = "pulled" /\ \A j \in Images \ {i} : task'[j] = task[j]
    BY <1>2, TasksTyped DEF TaskSteps
  <2>2. /\ WellFormed(images)'
        /\ Entries(i)' = {}
        /\ \A j \in Images \ {i} : Entries(j)' = Entries(j)
    BY <1>1, <1>2, WithoutLeaves DEF Entries, Sound
  <2>3. \A j \in Images \ {i} : Same(j)
    BY <1>1, <1>2, <2>1, <2>2 DEF Same
  <2>4. Clear(i)'
    BY <2>1, <2>2 DEF Clear
  <2>5. Good(i)'
    BY <1>1, <2>1, <2>4 DEF Good, Early
  <2>6. QED
    BY <1>1, <2>2, <2>3, <2>5, OneImage
<1>3. CASE task[i] = "pulled" /\ Task(i, "destroyed") /\ DestroyMaybe(i)
             /\ UNCHANGED <<images, thumbs>>
  <2>1. task'[i] = "destroyed" /\ \A j \in Images \ {i} : task'[j] = task[j]
    BY <1>3, TasksTyped DEF TaskSteps
  <2>2. \A j \in Images : Entries(j)' = Entries(j)
    BY <1>3 DEF Entries
  <2>3. \A j \in Images \ {i} : Same(j)
    BY <1>1, <1>3, <2>1, <2>2, DestroyTyped DEF Same
  <2>4. i \notin muddled => Entries(i)' = {}
    BY <1>1, <1>3, <2>2 DEF Good, Clear
  <2>5. i \notin muddled => Clear(i)'
    BY <2>1, <2>4 DEF Clear
  <2>6. Good(i)'
    BY <1>1, <2>1, <2>5 DEF Good, Early
  <2>7. QED
    BY <1>1, <1>3, <2>3, <2>6, OneImage DEF Sound, WellFormed
<1>4. CASE task[i] = "destroyed" /\ Task(i, "removed") /\ thumbs' \in {thumbs, thumbs \ {i}}
             /\ UNCHANGED <<images, original>>
  <2>1. task'[i] = "removed" /\ \A j \in Images \ {i} : task'[j] = task[j]
    BY <1>4, TasksTyped DEF TaskSteps
  <2>2. \A j \in Images : Entries(j)' = Entries(j)
    BY <1>4 DEF Entries
  <2>3. \A j \in Images \ {i} : Same(j)
    BY <1>1, <1>4, <2>1, <2>2 DEF Same
  <2>4. i \notin muddled => Entries(i)' = {}
    BY <1>1, <1>4, <2>2 DEF Good, Clear
  <2>5. i \notin muddled => Clear(i)'
    BY <2>1, <2>4 DEF Clear
  <2>6. Good(i)'
    BY <1>1, <2>1, <2>5 DEF Good, Early
  <2>7. QED
    BY <1>1, <1>4, <2>3, <2>6, OneImage DEF Sound, WellFormed
<1>5. QED
  BY <1>2, <1>3, <1>4 DEF Remove

LEMMA OwnerSound ==
    ASSUME TypeOK, Sound, NEW i \in Images, Owner(i)
    PROVE  Sound'
BY SignSound, UploadSound, AttachSound, EnqueueSound, RemoveSound DEF Owner

-----------------------------------------------------------------------------
(* The steps of the worker.                                                *)

\* An image with a job was attached.
LEMMA JobMeansAttached ==
    ASSUME NEW i \in Images, Good(i), job[i].step # "none"
    PROVE  task[i] \notin Early
BY DEF Good, Untouched

LEMMA FetchSound ==
    ASSUME TypeOK, Sound, NEW i \in Images, Fetch(i) \/ Failure(i)
    PROVE  Sound'
<1>1. UNCHANGED <<images, task, original, thumbs, reorder, cleanup, muddled>>
  BY DEF Fetch, Failure, AttemptFails, File, Stall
<1>2. job[i].step # "none" /\ Good(i)
  BY FailureTyped DEF Fetch, Sound
<1>3. /\ job'[i].step \in {"bad", "fetched", "waiting", "failing", "dead", "failed"}
      /\ job'[i].step = "bad" => i \in BadImages
      /\ \A j \in Images \ {i} : job'[j] = job[j]
  <2>1. CASE Fetch(i)
    BY <2>1, JobsTyped DEF Fetch, JobSteps
  <2>2. CASE Failure(i)
    BY <2>2, FailureTyped
  <2>3. QED
    BY <2>1, <2>2
<1>4. \A j \in Images : Entries(j)' = Entries(j)
  BY <1>1 DEF Entries
<1>5. \A j \in Images \ {i} : Same(j)
  BY <1>1, <1>3, <1>4 DEF Same
<1>6. i \notin muddled => Clear(i)'
  BY <1>1, <1>2, <1>3, <1>4 DEF Good, Clear, Stored
<1>7. Good(i)'
  BY <1>1, <1>2, <1>3, <1>6, JobMeansAttached DEF Good
<1>8. QED
  BY <1>1, <1>5, <1>7, OneImage DEF Sound, WellFormed

LEMMA RejectSound ==
    ASSUME TypeOK, Sound, NEW i \in Images, Reject(i)
    PROVE  Sound'
<1>1. UNCHANGED <<task, thumbs, reorder, cleanup, muddled>> /\ images \in Seq(Entry)
  BY DEF Reject, TypeOK
<1>2. Good(i) /\ task[i] \notin Early
  BY JobMeansAttached DEF Reject, Sound
<1>3. CASE job[i].step = "bad" /\ Job(i, "pulled") /\ images' = Without(images, i)
             /\ UNCHANGED original
  <2>1. job'[i].step = "pulled" /\ \A j \in Images \ {i} : job'[j] = job[j]
    BY <1>3, JobsTyped DEF JobSteps
  <2>2. /\ WellFormed(images)'
        /\ Entries(i)' = {}
        /\ \A j \in Images \ {i} : Entries(j)' = Entries(j)
    BY <1>1, <1>3, WithoutLeaves DEF Entries, Sound
  <2>3. \A j \in Images \ {i} : Same(j)
    BY <1>1, <1>3, <2>1, <2>2 DEF Same
  <2>4. i \in BadImages
    BY <1>2, <1>3 DEF Good
  <2>5. Clear(i)'
    BY <2>1, <2>2, <2>4 DEF Clear
  <2>6. Good(i)'
    BY <1>1, <1>2, <1>3, <2>1, <2>5 DEF Good
  <2>7. QED
    BY <1>1, <2>2, <2>3, <2>6, OneImage
<1>4. CASE job[i].step = "pulled" /\ Ended(i, "done") /\ DestroyMaybe(i)
             /\ UNCHANGED images
  <2>1. job'[i].step = "done" /\ \A j \in Images \ {i} : job'[j] = job[j]
    BY <1>4, JobsTyped DEF JobSteps
  <2>2. \A j \in Images : Entries(j)' = Entries(j)
    BY <1>4 DEF Entries
  <2>3. \A j \in Images \ {i} : Same(j)
    BY <1>1, <1>4, <2>1, <2>2, DestroyTyped DEF Same
  <2>4. ASSUME i \notin muddled
        PROVE  Clear(i)'
    <3>1. Clear(i) /\ Entries(i) = {} /\ Entries(i)' = {}
      BY <1>2, <1>4, <2>2, <2>4 DEF Good, Clear
    <3>2. QED
      BY <1>1, <2>1, <3>1 DEF Clear
  <2>5. task[i] \notin {"none", "signed", "uploaded"}
    BY <1>2 DEF Early
  <2>6. Good(i)'
    BY <1>1, <1>2, <2>1, <2>4, <2>5 DEF Good
  <2>7. QED
    BY <1>1, <1>4, <2>3, <2>6, OneImage DEF Sound, WellFormed
<1>5. QED
  BY <1>3, <1>4 DEF Reject

LEMMA ThumbSound ==
    ASSUME TypeOK, Sound, NEW i \in Images, UploadThumb(i) \/ SetThumb(i)
    PROVE  Sound'
<1>1. UNCHANGED <<task, original, reorder, cleanup, muddled>> /\ images \in Seq(Entry)
  BY DEF UploadThumb, SetThumb, TypeOK
<1>2. Good(i) /\ task[i] \notin Early
  BY JobMeansAttached DEF UploadThumb, SetThumb, Sound
<1>3. CASE UploadThumb(i)
  <2>1. job'[i].step = "thumbed" /\ \A j \in Images \ {i} : job'[j] = job[j]
    BY <1>3, JobsTyped DEF UploadThumb, JobSteps
  <2>2. UNCHANGED images /\ i \in thumbs' /\ \A j \in Images \ {i} : j \in thumbs' <=> j \in thumbs
    BY <1>3 DEF UploadThumb
  <2>3. \A j \in Images : Entries(j)' = Entries(j)
    BY <2>2 DEF Entries
  <2>4. \A j \in Images \ {i} : Same(j)
    BY <1>1, <2>1, <2>2, <2>3 DEF Same
  <2>5. i \notin muddled => Clear(i)'
    BY <1>1, <1>2, <2>1, <2>2, <2>3 DEF Good, Clear, Stored
  <2>6. Good(i)'
    BY <1>1, <1>2, <2>1, <2>5 DEF Good
  <2>7. QED
    BY <1>1, <2>2, <2>4, <2>6, OneImage DEF Sound, WellFormed
<1>4. CASE SetThumb(i)
  <2>1. job'[i].step = "done" /\ \A j \in Images \ {i} : job'[j] = job[j]
    BY <1>4, JobsTyped DEF SetThumb, JobSteps
  <2>2. images' = WithThumb(images, i) /\ UNCHANGED thumbs /\ job[i].step = "thumbed"
    BY <1>4 DEF SetThumb, WithThumb
  <2>3. /\ WellFormed(images)'
        /\ Entries(i)' = {} <=> Entries(i) = {}
        /\ \A e \in Entries(i)' : e.thumb
        /\ \A j \in Images \ {i} : Entries(j)' = Entries(j)
    BY <1>1, <2>2, WithThumbShows DEF Entries, Sound
  <2>4. \A j \in Images \ {i} : Same(j)
    BY <1>1, <2>1, <2>2, <2>3 DEF Same
  <2>5. ASSUME i \notin muddled
        PROVE  Clear(i)'
    <3>1. Clear(i)
      BY <1>2, <2>5 DEF Good
    <3>2. \A e \in Entries(i)' : e.thumb => i \in thumbs'
      BY <2>2, <2>3, <3>1 DEF Clear
    <3>3. QED
      BY <1>1, <2>1, <2>3, <3>1, <3>2 DEF Clear, Stored
  <2>6. Good(i)'
    BY <1>1, <1>2, <2>1, <2>5 DEF Good
  <2>7. QED
    BY <1>1, <2>3, <2>4, <2>6, OneImage
<1>5. QED
  BY <1>3, <1>4

LEMMA WorkerSound ==
    ASSUME TypeOK, Sound, NEW i \in Images, Worker(i) \/ Failure(i)
    PROVE  Sound'
BY FetchSound, RejectSound, ThumbSound DEF Worker
-----------------------------------------------------------------------------
(* Reorders and clean-ups.                                                 *)

LEMMA ReadOrderSound ==
    ASSUME TypeOK, Sound, ReadOrder
    PROVE  Sound'
<1>1. UNCHANGED <<images, task, original, thumbs, job, cleanup, muddled>>
  BY DEF ReadOrder
<1>2. PICK f \in Reorderings : reorder' = [read |-> images, write |-> Reordered(f)]
  BY DEF ReadOrder
<1>3. /\ WellFormed(Reordered(f))
      /\ \A j : EntriesOf(Reordered(f), j) = EntriesOf(images, j)
  BY ReorderedKeeps DEF TypeOK, Sound
<1>4. reorder'.read = images /\ reorder'.write = Reordered(f)
  BY <1>2
<1>5. ReorderSound'
  BY <1>3, <1>4 DEF ReorderSound, Sound
<1>6. ASSUME NEW j \in Images
      PROVE  Good(j)'
  <2>1. Good(j) /\ Entries(j)' = Entries(j) /\ EntriesOf(reorder'.read, j) = Entries(j)
    BY <1>1, <1>4 DEF Sound, Entries
  <2>2. Untouched(j) => Untouched(j)'
    BY <1>1, <2>1 DEF Untouched
  <2>3. Clear(j) => Clear(j)'
    BY <1>1, <2>1 DEF Clear, Stored
  <2>4. QED
    BY <1>1, <2>1, <2>2, <2>3 DEF Good
<1>7. WellFormed(images)'
  BY <1>1 DEF Sound, WellFormed
<1>8. QED
  BY <1>5, <1>6, <1>7 DEF Sound

LEMMA WriteOrderSound ==
    ASSUME TypeOK, Sound, WriteOrder
    PROVE  Sound'
<1>1. /\ reorder # None /\ images' = reorder.write /\ reorder' = None
      /\ UNCHANGED <<task, original, thumbs, job, cleanup>>
      /\ muddled' = muddled \cup
            {i \in Images : EntriesOf(images, i) # EntriesOf(reorder.read, i)}
  BY DEF WriteOrder
<1>2. /\ WellFormed(images')
      /\ \A i \in Images : EntriesOf(images', i) = EntriesOf(reorder.read, i)
  BY <1>1 DEF Sound, ReorderSound
<1>3. ASSUME NEW j \in Images
      PROVE  Good(j)'
  <2>1. Good(j) /\ Entries(j)' = EntriesOf(reorder.read, j)
    BY <1>2 DEF Sound, Entries
  <2>2. Untouched(j) => Untouched(j)'
    BY <1>1, <2>1 DEF Untouched
  <2>3. j \notin muddled' => j \notin muddled /\ Entries(j)' = Entries(j)
    BY <1>1, <2>1 DEF Entries
  <2>4. j \notin muddled' => Clear(j)'
    BY <1>1, <2>1, <2>3 DEF Good, Clear, Stored
  <2>5. QED
    BY <1>1, <2>1, <2>2, <2>4 DEF Good
<1>4. ReorderSound' /\ WellFormed(images)'
  BY <1>1, <1>2 DEF ReorderSound
<1>5. QED
  BY <1>3, <1>4 DEF Sound

LEMMA StartCleanupSound ==
    ASSUME TypeOK, Sound, StartCleanup
    PROVE  Sound'
<1>1. UNCHANGED <<images, task, original, thumbs, job, reorder, muddled>>
  BY DEF StartCleanup, StartCleanupOf
<1>2. cleanup'.left \cap IdsOf(images) = {} /\ cleanup'.doomed = {}
  BY DEF StartCleanup, StartCleanupOf
<1>3. ASSUME NEW j \in Images
      PROVE  Good(j)'
  <2>1. Good(j) /\ Entries(j)' = Entries(j)
    BY <1>1 DEF Sound, Entries
  <2>2. Untouched(j) => Untouched(j)'
    BY <1>1, <2>1 DEF Untouched
  <2>3. Entries(j) # {} => j \notin cleanup'.left
    BY <1>2, ListedByEntries DEF Entries
  <2>4. Clear(j) => Clear(j)'
    BY <1>1, <1>2, <2>1, <2>3 DEF Clear, Stored
  <2>5. QED
    BY <1>1, <1>2, <2>1, <2>2, <2>4 DEF Good
<1>4. ReorderSound' /\ WellFormed(images)'
  BY <1>1 DEF Sound, ReorderSound, WellFormed
<1>5. QED
  BY <1>3, <1>4 DEF Sound

\* A clean-up that goes on has less to list, and dooms what it is given.
LEMMA GoesOn ==
    ASSUME TypeOK, cleanup # None, NEW left, NEW doomed, GoOn(left, doomed), cleanup' # None
    PROVE  cleanup'.left = left /\ cleanup'.doomed = doomed /\ cleanup'.age = cleanup.age
BY DEF GoOn, TypeOK, Cleanup

\* What the clean-up judges an orphan is neither listed, but for a stale
\* reorder, nor still to be attached: it is too old for either.
LEMMA ListPageSound ==
    ASSUME TypeOK, Sound, NEW i \in Images, ListPage(i)
    PROVE  Sound'
<1>1. /\ UNCHANGED <<images, task, original, thumbs, job, reorder, muddled>>
      /\ cleanup # None
  BY DEF ListPage
<1>2. PICK page \in SUBSET cleanup.left : GoOn(cleanup.left \ page, OrphanedAssets(page))
  BY DEF ListPage
<1>3. cleanup.age \in 0 .. CleanupWithin
  BY <1>1 DEF TypeOK, Cleanup
<1>4. cleanup' # None =>
        /\ cleanup'.left \subseteq cleanup.left /\ cleanup'.age = cleanup.age
        /\ cleanup'.doomed = OrphanedAssets(page)
  BY <1>1, <1>2, GoesOn
<1>5. ASSUME NEW j \in Images
      PROVE  Good(j)'
  <2>1. Good(j) /\ Entries(j)' = Entries(j)
    BY <1>1 DEF Sound, Entries
  <2>2. Untouched(j) => Untouched(j)'
    BY <1>1, <2>1 DEF Untouched
  <2>3. j \in OrphanedAssets(page) => original[j] = MinAge /\ j \in cleanup.left
    BY DEF OrphanedAssets
  <2>4. j \in OrphanedAssets(page) => task[j] \notin {"none", "signed", "uploaded"}
    BY <2>1, <2>3, Sizes DEF Good
  <2>5. ASSUME Clear(j)
        PROVE  Clear(j)'
    <3>1. j \in OrphanedAssets(page) => Entries(j) = {}
      BY <1>1, <1>3, <2>3, <2>5, Sizes DEF Clear
    <3>2. QED
      BY <1>1, <1>4, <2>1, <2>5, <3>1 DEF Clear, Stored
  <2>6. QED
    BY <1>1, <1>4, <2>1, <2>2, <2>4, <2>5 DEF Good
<1>6. ReorderSound' /\ WellFormed(images)'
  BY <1>1 DEF Sound, ReorderSound, WellFormed
<1>7. QED
  BY <1>5, <1>6 DEF Sound

\* Only what was judged an orphan is destroyed, if the run goes on or not.
LEMMA DestroySound ==
    ASSUME TypeOK, Sound, DestroyPage \/ CleanupFails
    PROVE  Sound'
<1>1. /\ UNCHANGED <<images, task, thumbs, job, reorder, muddled>>
      /\ cleanup # None
  BY DEF DestroyPage, CleanupFails
<1>2. PICK S \in SUBSET cleanup.doomed : DestroyAssets(S)
  BY DEF DestroyPage, CleanupFails
<1>3. cleanup' # None =>
        /\ cleanup'.left = cleanup.left /\ cleanup'.age = cleanup.age
        /\ cleanup'.doomed = {}
  BY <1>1, GoesOn DEF DestroyPage, CleanupFails
<1>4. ASSUME NEW j \in Images
      PROVE  Good(j)'
  <2>1. Good(j) /\ Entries(j)' = Entries(j)
    BY <1>1 DEF Sound, Entries
  <2>2. Untouched(j) => Untouched(j)'
    BY <1>1, <2>1 DEF Untouched
  <2>3. original'[j] = IF j \in S THEN None ELSE original[j]
    BY <1>2 DEF DestroyAssets
  <2>4. j \in S => task[j] \notin {"none", "signed", "uploaded"}
    BY <1>1, <1>2, <2>1 DEF Good
  <2>5. ASSUME Clear(j)
        PROVE  Clear(j)'
    <3>1. Entries(j) # {} => original'[j] = original[j]
      BY <1>1, <1>2, <2>3, <2>5 DEF Clear
    <3>2. QED
      BY <1>1, <1>3, <2>1, <2>5, <3>1 DEF Clear, Stored
  <2>6. /\ task'[j] \in {"none", "signed"} => original'[j] = None
        /\ task'[j] = "uploaded" => original'[j] \in 0 .. AttachWithin
    BY <1>1, <2>1, <2>3, <2>4 DEF Good
  <2>7. QED
    BY <1>1, <1>3, <2>1, <2>2, <2>5, <2>6 DEF Good
<1>5. ReorderSound' /\ WellFormed(images)'
  BY <1>1 DEF Sound, ReorderSound, WellFormed
<1>6. QED
  BY <1>4, <1>5 DEF Sound

LEMMA TickSound ==
    ASSUME TypeOK, Sound, Tick
    PROVE  Sound'
<1>1. UNCHANGED <<images, task, thumbs, job, reorder, muddled>>
  BY DEF Tick
<1>2. cleanup = None => cleanup' = None
  BY DEF Tick
<1>3. ASSUME cleanup # None
      PROVE  /\ cleanup'.left = cleanup.left /\ cleanup'.doomed = cleanup.doomed
             /\ cleanup.age \in Nat /\ cleanup'.age = cleanup.age + 1
  <2>1. cleanup \in Cleanup
    BY <1>3 DEF TypeOK
  <2>2. cleanup' = [cleanup EXCEPT !.age = cleanup.age + 1]
    BY <1>3 DEF Tick
  <2>3. QED
    BY <2>1, <2>2, Sizes DEF Cleanup
<1>4. ASSUME NEW j \in Images
      PROVE  Good(j)'
  <2>1. Good(j) /\ Entries(j)' = Entries(j)
    BY <1>1 DEF Sound, Entries
  <2>2. Untouched(j) => Untouched(j)'
    BY <1>1, <2>1 DEF Untouched
  <2>3. original[j] \in Nat => original'[j] \in Nat /\ original'[j] <= original[j] + 1
    BY Sizes DEF Tick, TypeOK
  <2>4. Stored(j) <=> original[j] \in Nat
    BY Sizes DEF TypeOK, Stored
  <2>5. task[j] = "uploaded" => original'[j] \in 0 .. AttachWithin
    <3> SUFFICES ASSUME task[j] = "uploaded"
                 PROVE  original'[j] \in 0 .. AttachWithin
      OBVIOUS
    <3>1. original[j] < AttachWithin /\ original[j] \in 0 .. AttachWithin
      BY <2>1 DEF Tick, Good
    <3>2. QED
      BY <2>3, <3>1, Sizes
  <2>6. ASSUME Clear(j)
        PROVE  Clear(j)'
    <3>1. Stored(j) => Stored(j)'
      BY <2>3, <2>4, Sizes DEF Stored
    <3>2. ASSUME cleanup' # None, Entries(j)' # {}, j \in cleanup'.left
          PROVE  original'[j] \in 0 .. AttachWithin + cleanup'.age
      <4>1. original[j] \in 0 .. AttachWithin + cleanup.age
        BY <1>2, <1>3, <2>1, <2>6, <3>2 DEF Clear
      <4>2. QED
        BY <1>2, <1>3, <2>3, <3>2, <4>1, Sizes
    <3>3. cleanup' # None /\ j \in cleanup'.doomed => Entries(j)' = {}
      BY <1>2, <1>3, <2>1, <2>6 DEF Clear
    <3>4. QED
      BY <1>1, <2>1, <2>6, <3>1, <3>2, <3>3 DEF Clear
  <2>7. task[j] \in {"none", "signed"} => original'[j] = None
    BY <2>1 DEF Tick, Good, Stored
  <2>8. cleanup' # None /\ j \in cleanup'.doomed => task[j] \notin {"none", "signed", "uploaded"}
    BY <1>2, <1>3, <2>1 DEF Good
  <2>9. QED
    BY <1>1, <2>1, <2>2, <2>5, <2>6, <2>7, <2>8 DEF Good
<1>5. ReorderSound' /\ WellFormed(images)'
  BY <1>1 DEF Sound, ReorderSound, WellFormed
<1>6. QED
  BY <1>4, <1>5 DEF Sound

-----------------------------------------------------------------------------
(* The invariant holds.                                                    *)

LEMMA InitHolds == Init => TypeOK /\ Sound
<1> SUFFICES ASSUME Init
             PROVE  TypeOK /\ Sound
  OBVIOUS
<1>1. TypeOK
  <2>1. NewJob("none") \in JobState
    BY Sizes DEF NewJob, JobState, JobSteps
  <2>2. QED
    BY <2>1 DEF Init, TypeOK, TaskSteps
<1>2. WellFormed(images) /\ \A j : EntriesOf(images, j) = {}
  BY Sizes DEF Init, WellFormed, EntriesOf
<1>3. ReorderSound
  BY DEF Init, ReorderSound
<1>4. ASSUME NEW j \in Images
      PROVE  Good(j)
  BY <1>2, <1>4 DEF Init, Good, Untouched, Clear, Entries, NewJob
<1>5. QED
  BY <1>1, <1>2, <1>3, <1>4 DEF Sound

LEMMA StepHolds ==
    ASSUME TypeOK, Sound, [Next]_vars
    PROVE  TypeOK' /\ Sound'
<1>1. ASSUME NEW i \in Images, Owner(i)
      PROVE  TypeOK' /\ Sound'
  BY <1>1, OwnerTyped, OwnerSound
<1>2. ASSUME NEW i \in Images, Worker(i) \/ Failure(i)
      PROVE  TypeOK' /\ Sound'
  BY <1>2, WorkerTyped, WorkerSound
<1>3. CASE \/ ReadOrder \/ WriteOrder \/ StartCleanup \/ DestroyPage \/ CleanupFails \/ Tick
           \/ \E i \in Images : ListPage(i)
  <2>1. TypeOK'
    BY <1>3, OthersTyped DEF Sound
  <2>2. Sound'
    BY <1>3, ReadOrderSound, WriteOrderSound, StartCleanupSound, ListPageSound, DestroySound,
       TickSound
  <2>3. QED
    BY <2>1, <2>2
<1>4. CASE UNCHANGED vars
  <2>1. TypeOK'
    BY <1>4 DEF vars, TypeOK
  <2>2. \A j \in Images : Same(j)
    BY <1>4 DEF vars, Same, Entries
  <2>3. \A j \in Images : Good(j)'
    BY <1>4, <2>2, SameIsGood DEF vars, Sound
  <2>4. WellFormed(images)' /\ ReorderSound'
    BY <1>4 DEF vars, Sound, WellFormed, ReorderSound
  <2>5. QED
    BY <2>1, <2>3, <2>4 DEF Sound
<1>5. QED
  BY <1>1, <1>2, <1>3, <1>4 DEF Next

LEMMA Holds == Spec => []IInv
<1>1. Spec => [](TypeOK /\ Sound)
  BY InitHolds, StepHolds, PTL DEF Spec
<1>2. TypeOK /\ Sound => IInv
  BY GoodMeans DEF Sound
<1>3. QED
  BY <1>1, <1>2, PTL

-----------------------------------------------------------------------------
(* What follows.                                                           *)

\* Every variable keeps to its values: the images are a sequence of entries
\* whatever is pushed, pulled or written back (listings.ts:479-627).
THEOREM ImagesTyped == Spec => []TypeOK
<1>1. IInv => TypeOK
  BY DEF IInv
<1>2. QED
  BY <1>1, Holds, PTL

\* However many images there are and however many a listing may have, none
\* is listed twice and there are never too many (listings.ts:502-530, 611-620).
THEOREM ListingKeepsForm == Spec => []ListingWellFormed
<1>1. IInv => ListingWellFormed
  BY DEF IInv
<1>2. QED
  BY <1>1, Holds, PTL

\* No listed image loses its original to a removal, a rejection or the
\* clean-up, and none shows a thumbnail that is not there, unless a stale
\* reorder brought it back (listings.ts:558-573, orphanCleanup.ts:5-28).
THEOREM ListedHasAssets == Spec => []AssetsBehindImages
<1>1. IInv => AssetsBehindImages
  BY DEF IInv
<1>2. QED
  BY <1>1, Holds, PTL

\* Only its owner, the worker's rejection or a stale reorder takes an
\* attached image away (listings.ts:479-627, thumbnailProcessor.ts:55-75).
THEOREM AttachedIsListed == Spec => []AttachedStays
<1>1. IInv => AttachedStays
  BY DEF IInv
<1>2. QED
  BY <1>1, Holds, PTL

\* An image whose job is done shows its thumbnail or has left the listing
\* (thumbnailProcessor.ts:79-92).
THEOREM DoneIsShown == Spec => []DoneMeansShown
<1>1. IInv => DoneMeansShown
  BY DEF IInv
<1>2. QED
  BY <1>1, Holds, PTL
=============================================================================
