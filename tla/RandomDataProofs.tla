-------------------------- MODULE RandomDataProofs --------------------------
(***************************************************************************)
(* Proofs about RandomData, for every size of the items, every width and   *)
(* count of the values, and every ring: what a request is answered with is *)
(* made of the page it read, and of as much of it as it needs.             *)
(*                                                                         *)
(* Converted is a loop over the page, so its result is found by induction  *)
(* on the items it has gone over. They are as many as the page has, and    *)
(* what is used for the induction is the least place where something fails *)
(* (LeastPlace), from the order of the finite sets by inclusion.           *)
(***************************************************************************)
EXTENDS RandomData, CircularQueueProofs, FiniteSetTheorems, WellFoundedInduction

----------------------------------------------------------------------------
(* Arithmetic *)

\* A set of places up to n that is not empty has a least one.
LEMMA LeastPlace ==
    ASSUME NEW n \in Nat, NEW T \in SUBSET (0..n), T # {}
    PROVE  \E x \in T : \A y \in T : x <= y
<1> DEFINE U == {1..x : x \in T}
<1>1. IsFiniteSet(1..n)
  BY FS_Interval
<1>2. IsWellFoundedOn(StrictSubsetOrdering(1..n), SUBSET (1..n))
  <2>1. FiniteSubsetsOf(1..n) = SUBSET (1..n)
    BY <1>1, FS_FiniteSubsetsOfFinite
  <2>2. QED
    BY <2>1, FS_StrictSubsetOrderingWellFounded
<1>3. U \subseteq SUBSET (1..n)
  <2>1. ASSUME NEW x \in T PROVE 1..x \subseteq 1..n
    OBVIOUS
  <2>2. QED
    BY <2>1
<1>4. U # {}
  OBVIOUS
<1> HIDE DEF U
<1>5. PICK u \in U : \A v \in U : ~(<<v, u>> \in StrictSubsetOrdering(1..n))
  BY <1>2, <1>3, <1>4, WFMin
<1>6. PICK x \in T : u = 1..x
  BY DEF U
<1>7. ASSUME NEW y \in T, y < x PROVE FALSE
  <2>1. 1..y \in U /\ 1..y \subseteq 1..x /\ x \in 1..x /\ x \notin 1..y
    BY <1>7 DEF U
  <2>2. 1..y # 1..x
    BY <2>1
  <2>3. <<1..y, u>> \in StrictSubsetOrdering(1..n)
    BY <1>3, <1>6, <2>1, <2>2 DEF StrictSubsetOrdering
  <2>4. QED
    BY <1>5, <2>1, <2>3
<1>8. QED
  BY <1>7

\* Division with a rest, and that there is only one.
LEMMA Division ==
    ASSUME NEW x \in Nat, NEW d \in Nat \ {0}
    PROVE  /\ x \div d \in Nat /\ x % d \in 0..(d - 1)
           /\ x = (x \div d) * d + (x % d)
OBVIOUS

LEMMA QuotientTimes ==
    ASSUME NEW x \in Nat, NEW d \in Nat \ {0}
    PROVE  x \div d \in Nat /\ (x \div d) * d <= x
<1>1. x \div d \in Nat /\ x % d \in 0..(d - 1) /\ x = (x \div d) * d + (x % d)
  BY Division
<1>2. (x \div d) * d \in Nat
  BY <1>1
<1>3. QED
  BY <1>1, <1>2

LEMMA DivisionIsUnique ==
    ASSUME NEW q \in Nat, NEW d \in Nat \ {0}, NEW r \in 0..(d - 1)
    PROVE  (q * d + r) \div d = q /\ (q * d + r) % d = r
OBVIOUS

LEMMA TimesMonotone ==
    ASSUME NEW a \in Nat, NEW b \in Nat, a <= b, NEW c \in Nat
    PROVE  a * c \in Nat /\ a * c <= b * c
OBVIOUS

LEMMA OneTimeLess ==
    ASSUME NEW a \in Nat \ {0}, NEW c \in Nat
    PROVE  a - 1 \in Nat /\ (a - 1) * c \in Nat /\ a * c = (a - 1) * c + c
OBVIOUS

LEMMA AddInequalities ==
    ASSUME NEW a \in Nat, NEW b \in Nat, a <= b, NEW c \in Nat, NEW d \in Nat, c <= d
    PROVE  a + c <= b + d
OBVIOUS

\* What the format of a request says of the items: each holds a value or more.
LEMMA ItemsHoldValues ==
    ASSUME NEW bytes \in ItemSizes, NEW width \in Widths
    PROVE  /\ bytes \in Nat \ {0} /\ width \in Nat \ {0} /\ EstimateBytes \in Nat \ {0}
           /\ width <= EstimateBytes /\ EstimateBytes <= bytes
           /\ bytes \div width \in Nat \ {0}
<1>1. /\ bytes \in Nat \ {0} /\ width \in Nat \ {0} /\ EstimateBytes \in Nat \ {0}
      /\ width <= EstimateBytes /\ EstimateBytes <= bytes
  BY WidthsAssumption, SizesAssumption
<1>2. bytes \div width \in Nat /\ bytes % width < width
      /\ bytes = (bytes \div width) * width + (bytes % width)
  BY <1>1, Division
<1>3. bytes \div width # 0
  BY <1>1, <1>2
<1>4. QED
  BY <1>1, <1>2, <1>3

----------------------------------------------------------------------------
(* Conversion *)

\* The values of the first n items of a page, as many as asked for.
ValueAt(page, width, k) ==
    LET perItem == itemSize \div width
    IN  << page[(k - 1) \div perItem + 1], ((k - 1) % perItem) * width >>

ValuesUpTo(page, n, width, count) ==
    LET all == n * (itemSize \div width)
    IN  [k \in 1..(IF count < all THEN count ELSE all) |-> ValueAt(page, width, k)]

\* Two sequences given place by place, one after the other.
LEMMA ConcatByPlace ==
    ASSUME NEW m \in Nat, NEW v, v = [k \in 1..m |-> v[k]],
           NEW n \in Nat, NEW t, t = [k \in 1..n |-> t[k]]
    PROVE  /\ Len(v) = m /\ Len(t) = n
           /\ v \o t = [k \in 1..(m + n) |-> IF k <= m THEN v[k] ELSE t[k - m]]
<1> DEFINE S == {v[k] : k \in 1..m} \cup {t[k] : k \in 1..n}
           both == [k \in 1..(m + n) |-> IF k <= m THEN v[k] ELSE t[k - m]]
<1>1. v \in [1..m -> S] /\ t \in [1..n -> S]
  OBVIOUS
<1> HIDE DEF S
<1>2. v \in Seq(S) /\ t \in Seq(S)
  BY <1>1, SeqDef
<1>3. Len(v) = m /\ Len(t) = n
  BY <1>1, <1>2, LenProperties
<1>4. /\ v \o t \in Seq(S) /\ Len(v \o t) = m + n
      /\ \A k \in 1..(m + n) : (v \o t)[k] = IF k <= m THEN v[k] ELSE t[k - m]
  BY <1>2, <1>3, ConcatProperties
<1>5. v \o t \in [1..(m + n) -> S]
  BY <1>4, LenProperties
<1>6. v \o t = both
  BY <1>4, <1>5
<1>7. QED
  BY <1>3, <1>6

\* The values that an item adds, when left of them are missing.
LEMMA AddedByItem ==
    ASSUME NEW S, NEW more \in Seq(S), NEW left \in Nat
    PROVE  (IF Len(more) <= left THEN more ELSE SubSeq(more, 1, left))
             = [i \in 1..(IF Len(more) <= left THEN Len(more) ELSE left) |-> more[i]]
<1>1. more \in [1..Len(more) -> S] /\ Len(more) \in Nat
  BY LenProperties
<1>2. CASE Len(more) <= left
  BY <1>1, <1>2
<1>3. CASE ~(Len(more) <= left)
  <2> DEFINE cut == SubSeq(more, 1, left)
  <2>1. /\ cut \in Seq(S) /\ Len(cut) = left
        /\ \A i \in 1..left : cut[i] = more[i]
    BY <1>1, <1>3, SubSeqProperties
  <2>2. cut \in [1..left -> S]
    BY <2>1, LenProperties
  <2> HIDE DEF cut
  <2>3. cut = [i \in 1..left |-> more[i]]
    BY <2>1, <2>2
  <2>4. QED
    BY <1>3, <2>3 DEF cut
<1>4. QED
  BY <1>2, <1>3

\* The place of a value in its page: the item it is of, and where in it.
LEMMA PlaceOfValue ==
    ASSUME NEW page, NEW width \in Widths, itemSize \in ItemSizes, NEW n \in Nat,
           NEW i \in 1..(itemSize \div width)
    PROVE  ValueAt(page, width, n * (itemSize \div width) + i)
             = << page[n + 1], (i - 1) * width >>
<1> DEFINE perItem == itemSize \div width
           k == n * perItem + i
<1>1. perItem \in Nat \ {0}
  BY ItemsHoldValues
<1>2. i - 1 \in 0..(perItem - 1) /\ k - 1 = n * perItem + (i - 1)
  <2>1. i \in 1..perItem
    OBVIOUS
  <2> HIDE DEF perItem
  <2>2. n * perItem \in Nat
    BY <1>1
  <2>3. QED
    BY <1>1, <2>1, <2>2
<1> HIDE DEF perItem
<1>3. (n * perItem + (i - 1)) \div perItem = n /\ (n * perItem + (i - 1)) % perItem = i - 1
  BY <1>1, <1>2, DivisionIsUnique
<1> HIDE DEF k
<1>4. (k - 1) \div perItem = n /\ (k - 1) % perItem = i - 1
  BY <1>2, <1>3
<1>5. ValueAt(page, width, k) = << page[n + 1], (i - 1) * width >>
  BY <1>4 DEF ValueAt, perItem
<1>6. QED
  BY <1>5 DEF k, perItem

\* One more item of the page: the loop's body.
LEMMA ItemAdds ==
    ASSUME NEW page, NEW n \in Nat, NEW width \in Widths, NEW count \in Nat,
           itemSize \in ItemSizes
    PROVE  AddValues(ValuesUpTo(page, n, width, count), page[n + 1], width, count)
             = ValuesUpTo(page, n + 1, width, count)
<1> DEFINE perItem == itemSize \div width
           done == n * perItem
           m == IF count < done THEN count ELSE done
           values == [k \in 1..m |-> ValueAt(page, width, k)]
           left == count - m
           more == [i \in 1..perItem |-> <<page[n + 1], (i - 1) * width>>]
           taken == IF perItem <= left THEN perItem ELSE left
           added == [i \in 1..taken |-> more[i]]
           total == IF count < (n + 1) * perItem THEN count ELSE (n + 1) * perItem
<1>1. perItem \in Nat \ {0}
  BY ItemsHoldValues
<1>2. ValuesUpTo(page, n, width, count) = values
  BY DEF ValuesUpTo
<1>3. ValuesUpTo(page, n + 1, width, count) = [k \in 1..total |-> ValueAt(page, width, k)]
  BY DEF ValuesUpTo
<1>4. ValuesOf(page[n + 1], width) = more
  BY DEF ValuesOf
<1>5. \A i \in 1..perItem : more[i] = ValueAt(page, width, done + i)
  BY PlaceOfValue
<1> HIDE DEF perItem
<1>6. done \in Nat /\ (n + 1) * perItem = done + perItem
  BY <1>1
<1> HIDE DEF done
<1>7. m \in Nat /\ left \in Nat /\ taken \in Nat /\ total = m + taken
      /\ (left > 0 => m = done) /\ taken <= left /\ taken <= perItem
  BY <1>1, <1>6
<1>8. values = [k \in 1..m |-> values[k]] /\ added = [i \in 1..taken |-> added[i]]
  OBVIOUS
<1>9. \A k \in 1..m : values[k] = ValueAt(page, width, k)
  OBVIOUS
<1>10. \A i \in 1..taken : added[i] = more[i]
  OBVIOUS
<1>11. (IF Len(more) <= left THEN more ELSE SubSeq(more, 1, left)) = added
  <2> DEFINE S == {more[i] : i \in 1..perItem}
  <2>1. more \in [1..perItem -> S]
    OBVIOUS
  <2> HIDE DEF S
  <2>2. more \in Seq(S) /\ Len(more) = perItem
    BY <1>1, <2>1, SeqDef, LenProperties
  <2> HIDE DEF more, left
  <2>3. QED
    BY <1>7, <2>2, AddedByItem
<1> HIDE DEF values, added, m, taken, total
<1>12. Len(values) = m
       /\ values \o added
            = [k \in 1..(m + taken) |-> IF k <= m THEN values[k] ELSE added[k - m]]
  BY <1>7, <1>8, ConcatByPlace
<1>13. AddValues(values, page[n + 1], width, count) = values \o added
  BY <1>4, <1>11, <1>12 DEF AddValues
<1> HIDE DEF left, more
<1>14. \A k \in 1..total :
         (IF k <= m THEN values[k] ELSE added[k - m]) = ValueAt(page, width, k)
  <2> SUFFICES ASSUME NEW k \in 1..total
               PROVE  (IF k <= m THEN values[k] ELSE added[k - m]) = ValueAt(page, width, k)
    OBVIOUS
  <2>1. CASE k <= m
    BY <1>7, <1>9, <2>1
  <2>2. CASE ~(k <= m)
    <3>1. k - m \in 1..taken /\ k - m \in 1..perItem /\ m = done /\ done + (k - m) = k
      BY <1>1, <1>6, <1>7, <2>2
    <3>2. added[k - m] = ValueAt(page, width, done + (k - m))
      BY <1>5, <1>10, <3>1
    <3>3. QED
      BY <2>2, <3>1, <3>2
  <2>3. QED
    BY <2>1, <2>2
<1>15. values \o added = [k \in 1..total |-> ValueAt(page, width, k)]
  BY <1>7, <1>12, <1>14
<1>16. QED
  BY <1>2, <1>3, <1>13, <1>15

\* The loop over the page: it answers with the values of all its items, as many
\* as asked for. By induction on the items gone over.
LEMMA ConvertedIs ==
    ASSUME NEW page, Len(page) \in Nat, NEW width \in Widths, NEW count \in Nat,
           itemSize \in ItemSizes
    PROVE  Converted(page, width, count) = ValuesUpTo(page, Len(page), width, count)
<1> DEFINE n == Len(page)
           IsLoop(f) == f = [i \in 0..n |-> IF i = 0 THEN <<>>
                                            ELSE AddValues(f[i - 1], page[i], width, count)]
           values[i \in 0 .. Len(page)] ==
              IF i = 0 THEN <<>> ELSE AddValues(values[i - 1], page[i], width, count)
           known == [i \in 0..n |-> ValuesUpTo(page, i, width, count)]
<1>1. ValuesUpTo(page, 0, width, count) = <<>>
  <2>1. itemSize \div width \in Nat
    BY ItemsHoldValues
  <2>2. 0 * (itemSize \div width) = 0
    BY <2>1
  <2>3. QED
    BY <2>2 DEF ValuesUpTo
<1>2. \A i \in 1..n : known[i] = AddValues(known[i - 1], page[i], width, count)
  <2> SUFFICES ASSUME NEW i \in 1..n
               PROVE  known[i] = AddValues(known[i - 1], page[i], width, count)
    OBVIOUS
  <2>1. i - 1 \in Nat /\ (i - 1) + 1 = i /\ i \in 0..n /\ i - 1 \in 0..n
    OBVIOUS
  <2>2. AddValues(ValuesUpTo(page, i - 1, width, count), page[(i - 1) + 1], width, count)
          = ValuesUpTo(page, (i - 1) + 1, width, count)
    BY <2>1, ItemAdds
  <2>3. QED
    BY <2>1, <2>2
<1>3. IsLoop(known)
  <2>1. known[0] = <<>>
    BY <1>1
  <2>2. known = [i \in 0..n |-> known[i]]
    OBVIOUS
  <2>3. \A i \in 0..n : known[i] = IF i = 0 THEN <<>>
                           ELSE AddValues(known[i - 1], page[i], width, count)
    <3> HIDE DEF known
    <3>1. QED
      BY <1>2, <2>1
  <2> HIDE DEF known
  <2>4. QED
    BY <2>2, <2>3
<1>4. Converted(page, width, count) = values[n]
  BY DEF Converted
<1>5. IsLoop(values)
  <2>1. values = CHOOSE f : IsLoop(f)
    OBVIOUS
  <2> HIDE DEF values, known, IsLoop
  <2>2. IsLoop(CHOOSE f : IsLoop(f))
    BY <1>3, Zenon
  <2>3. QED
    BY <2>1, <2>2
<1>6. \A i \in 1..n : values[i] = AddValues(values[i - 1], page[i], width, count)
  <2> HIDE DEF values
  <2>1. QED
    BY <1>5
<1>7. values[0] = <<>> /\ known[0] = <<>>
  <2> HIDE DEF values
  <2>1. QED
    BY <1>1, <1>5
<1> HIDE DEF values, IsLoop
<1>8. values[n] = known[n]
  <2> DEFINE T == {i \in 0..n : values[i] # known[i]}
  <2>1. ASSUME T # {} PROVE FALSE
    <3>1. PICK i \in T : \A j \in T : i <= j
      <4>1. T \in SUBSET (0..n)
        OBVIOUS
      <4> HIDE DEF T
      <4>2. QED
        BY <2>1, <4>1, LeastPlace
    <3>2. i \in 1..n /\ i - 1 \in 0..n /\ i - 1 \notin T
      BY <1>7, <3>1
    <3>3. values[i - 1] = known[i - 1]
      BY <3>2
    <3> HIDE DEF known
    <3>4. QED
      BY <1>2, <1>6, <3>1, <3>2, <3>3
  <2>2. QED
    BY <2>1
<1>9. QED
  BY <1>4, <1>8

----------------------------------------------------------------------------
(* The estimate *)

\* With a page as long as the estimate, a request has all its values if the
\* rests of the items are covered by the spare ones.
LEMMA EstimateIsEnough ==
    ASSUME NEW bytes \in ItemSizes, NEW width \in Widths, NEW count \in Counts,
           count * (bytes % width) <= (Spare - 1) * (bytes \div width) * bytes
    PROVE  /\ ItemsNeeded(width, count) \in Nat
           /\ count <= ItemsNeeded(width, count) * (bytes \div width)
<1> DEFINE perItem == bytes \div width
           rest == bytes % width
           d == (count * width) \div EstimateBytes
<1>1. /\ bytes \in Nat \ {0} /\ width \in Nat \ {0} /\ EstimateBytes \in Nat \ {0}
      /\ EstimateBytes <= bytes /\ count \in Nat /\ Spare \in Nat \ {0}
      /\ perItem \in Nat
  BY ItemsHoldValues, CountsAssumption, SpareAssumption
<1>2. rest \in Nat /\ bytes = perItem * width + rest
  BY <1>1, Division
<1>3. d \in Nat /\ count * width <= (d + 1) * EstimateBytes
  <2>1. count * width \in Nat
    BY <1>1
  <2>2. /\ d \in Nat /\ (count * width) % EstimateBytes \in 0..(EstimateBytes - 1)
        /\ count * width = d * EstimateBytes + ((count * width) % EstimateBytes)
    BY <1>1, <2>1, Division
  <2> HIDE DEF d
  <2>3. QED
    BY <1>1, <2>1, <2>2
<1>4. count * rest <= (Spare - 1) * perItem * bytes
  OBVIOUS
<1>5. ItemsNeeded(width, count) = d + Spare
  BY DEF ItemsNeeded
<1> HIDE DEF perItem, rest, d
<1>6. (d + 1) * EstimateBytes <= (d + 1) * bytes
  BY <1>1, <1>3
<1>7. perItem * (count * width) <= perItem * ((d + 1) * bytes)
  <2>1. /\ count * width \in Nat /\ (d + 1) * bytes \in Nat
        /\ count * width <= (d + 1) * bytes
    BY <1>1, <1>3, <1>6
  <2>2. QED
    BY <1>1, <2>1
<1>8. count * bytes = perItem * (count * width) + count * rest
  BY <1>1, <1>2
<1>9. perItem * ((d + 1) * bytes) + (Spare - 1) * perItem * bytes
        = ((d + Spare) * perItem) * bytes
  BY <1>1, <1>3
<1>10. count * bytes <= ((d + Spare) * perItem) * bytes
  <2>1. /\ perItem * (count * width) \in Nat /\ count * rest \in Nat
        /\ perItem * ((d + 1) * bytes) \in Nat /\ (Spare - 1) * perItem * bytes \in Nat
    BY <1>1, <1>2, <1>3
  <2>2. QED
    BY <1>4, <1>7, <1>8, <1>9, <2>1, AddInequalities
<1>11. count <= (d + Spare) * perItem
  <2>1. (d + Spare) * perItem \in Nat
    BY <1>1, <1>3
  <2>2. QED
    BY <1>1, <1>10, <2>1
<1>12. QED
  BY <1>1, <1>3, <1>5, <1>11 DEF perItem

\* Without the spare ones, a page as long as the estimate has no more values
\* than asked for, if its items have the size that the estimate assumes.
LEMMA EstimateIsNeeded ==
    ASSUME NEW width \in Widths, NEW count \in Counts, EstimateBytes \in ItemSizes
    PROVE  /\ ItemsNeeded(width, count) - Spare \in Nat
           /\ (ItemsNeeded(width, count) - Spare) * (EstimateBytes \div width) <= count
<1> DEFINE perItem == EstimateBytes \div width
           rest == EstimateBytes % width
           d == (count * width) \div EstimateBytes
<1>1. /\ width \in Nat \ {0} /\ EstimateBytes \in Nat \ {0}
      /\ count \in Nat /\ Spare \in Nat /\ perItem \in Nat
  BY ItemsHoldValues, CountsAssumption, SpareAssumption
<1>2. rest \in Nat /\ EstimateBytes = perItem * width + rest
  BY <1>1, Division
<1>3. d \in Nat /\ d * EstimateBytes <= count * width
  <2>1. count * width \in Nat
    BY <1>1
  <2>2. /\ d \in Nat /\ (count * width) % EstimateBytes \in 0..(EstimateBytes - 1)
        /\ count * width = d * EstimateBytes + ((count * width) % EstimateBytes)
    BY <1>1, <2>1, Division
  <2> HIDE DEF d
  <2>3. QED
    BY <1>1, <2>1, <2>2
<1>4. ItemsNeeded(width, count) - Spare = d
  <2> HIDE DEF d
  <2>1. ItemsNeeded(width, count) = d + Spare
    BY DEF ItemsNeeded, d
  <2>2. QED
    BY <1>1, <1>3, <2>1
<1> HIDE DEF perItem, rest, d
<1>5. d * (perItem * width) <= d * EstimateBytes
  BY <1>1, <1>2, <1>3
<1>6. (d * perItem) * width <= count * width
  BY <1>1, <1>3, <1>5
<1>7. d * perItem <= count
  <2>1. d * perItem \in Nat
    BY <1>1, <1>3
  <2>2. QED
    BY <1>1, <1>6, <2>1
<1>8. QED
  BY <1>3, <1>4, <1>7 DEF perItem

----------------------------------------------------------------------------
(* The inductive invariant *)

\* What the latest request was answered with, against what it asked for: the
\* page is as long as the estimate or shorter and has no item twice.
AnswerOfPage ==
    /\ Width \in Widths /\ Count \in Counts
    /\ asked[1] = ItemsNeeded(Width, Count)
    /\ Len(reply) <= asked[1]
    /\ StrictlyIncreasing(reply)
    /\ answer = ValuesUpTo(reply, Len(reply), Width, Count)

ServerIInv ==
    /\ IInv
    /\ itemSize \in ItemSizes
    /\ Answered => AnswerOfPage

\* What a call of Get returns.
LEMMA ReplyOfGet ==
    ASSUME IInv, NEW limit \in Limits, NEW offset \in Offsets, NEW consume \in BOOLEAN,
           Get(limit, offset, consume)
    PROVE  /\ Len(reply') \in Nat /\ Len(reply') <= limit
           /\ StrictlyIncreasing(reply')
<1>1. limit \in Nat /\ offset \in Nat
  BY LimitsAssumption, OffsetsAssumption
<1>2. CASE GetNothing(offset)
  <2>1. reply' = <<>> /\ Len(reply') = 0
    BY <1>2, EmptySeq DEF GetNothing
  <2>2. QED
    BY <1>1, <2>1 DEF StrictlyIncreasing
<1>3. CASE Read(limit, offset) \/ Consume(limit, offset)
  <2> DEFINE end == PageEnd(limit, offset)
  <2>1. offset < size /\ reply' = Page(offset, end)
    BY <1>3 DEF Read, Consume
  <2>2. size \in Nat
    BY CapacityAssumption DEF IInv, TypeOK
  <2>3. end \in offset..size /\ end <= offset + limit
    BY <1>1, <2>1, <2>2 DEF PageEnd
  <2> HIDE DEF end
  <2>4. Len(reply') = end - offset /\ StrictlyIncreasing(reply')
    BY <1>1, <2>1, <2>3, PageProperties
  <2>5. QED
    BY <1>1, <2>2, <2>3, <2>4
<1>4. QED
  BY <1>2, <1>3 DEF Get

LEMMA ServerInitIInv == ServerInit => ServerIInv
BY InitIInv DEF ServerInit, ServerIInv, Answered

LEMMA ServerNextIsNext ==
    ASSUME [ServerNext]_allVars
    PROVE  [Next]_vars
<1>1. CASE StoreItem
  BY <1>1 DEF StoreItem, Next
<1>2. ASSUME NEW width \in Widths, NEW count \in Counts, NEW offset \in Offsets,
             NEW consume \in BOOLEAN, GetRandomData(width, count, offset, consume)
      PROVE  Next
  BY <1>2, EstimatesAreLimits DEF GetRandomData, Next
<1>3. CASE UNCHANGED allVars
  BY <1>3 DEF allVars
<1>4. QED
  BY <1>1, <1>2, <1>3 DEF ServerNext

LEMMA RequestAnswered ==
    ASSUME ServerIInv, NEW width \in Widths, NEW count \in Counts, NEW offset \in Offsets,
           NEW consume \in BOOLEAN, GetRandomData(width, count, offset, consume)
    PROVE  itemSize' \in ItemSizes /\ AnswerOfPage'
<1> DEFINE limit == ItemsNeeded(width, count)
<1>1. limit \in Limits /\ count \in Nat
  BY EstimatesAreLimits, CountsAssumption
<1> HIDE DEF limit
<1>2. /\ Get(limit, offset, consume) /\ asked'[1] = limit
      /\ Width' = width /\ Count' = count
      /\ answer' = Converted(reply', width, count)
      /\ itemSize \in ItemSizes /\ itemSize' = itemSize
  BY DEF GetRandomData, Get, Width, Count, ServerIInv, limit
<1>3. /\ Len(reply') \in Nat /\ Len(reply') <= limit
      /\ StrictlyIncreasing(reply')
  BY <1>1, <1>2, ReplyOfGet DEF ServerIInv
<1>4. answer' = ValuesUpTo(reply', Len(reply'), width, count)
  BY <1>1, <1>2, <1>3, ConvertedIs
<1>5. ValuesUpTo(reply, Len(reply), Width, Count)'
        = ValuesUpTo(reply', Len(reply'), width, count)
  BY <1>2 DEF ValuesUpTo, ValueAt
<1>6. StrictlyIncreasing(reply)'
  BY <1>3 DEF StrictlyIncreasing
<1>7. asked'[1] = ItemsNeeded(width, count)
  BY <1>2 DEF limit
<1>8. ItemsNeeded(Width, Count)' = ItemsNeeded(width, count)
  BY <1>2 DEF ItemsNeeded
<1>9. QED
  BY <1>2, <1>3, <1>4, <1>5, <1>6, <1>7, <1>8 DEF AnswerOfPage

LEMMA ServerNextIInv == ServerIInv /\ [ServerNext]_allVars => ServerIInv'
<1> SUFFICES ASSUME ServerIInv, [ServerNext]_allVars PROVE ServerIInv'
  OBVIOUS
<1>1. IInv'
  BY ServerNextIsNext, NextIInv DEF ServerIInv
<1>2. CASE UNCHANGED <<asked, reply, requests>>
  <2>1. itemSize' = itemSize /\ Width' = Width /\ Count' = Count /\ Answered' = Answered
    BY <1>2 DEF requests, Width, Count, Answered
  <2>2. AnswerOfPage => AnswerOfPage'
    BY <1>2, <2>1 DEF AnswerOfPage, StrictlyIncreasing, ValuesUpTo, ValueAt, ItemsNeeded,
                      requests
  <2>3. QED
    BY <1>1, <2>1, <2>2 DEF ServerIInv
<1>3. CASE StoreItem
  BY <1>2, <1>3 DEF StoreItem, Push
<1>4. ASSUME NEW width \in Widths, NEW count \in Counts, NEW offset \in Offsets,
             NEW consume \in BOOLEAN, GetRandomData(width, count, offset, consume)
      PROVE  ServerIInv'
  BY <1>1, <1>4, RequestAnswered DEF ServerIInv
<1>5. CASE UNCHANGED allVars
  BY <1>2, <1>5 DEF allVars, vars
<1>6. QED
  BY <1>3, <1>4, <1>5 DEF ServerNext

\* The inductive invariant holds of every behaviour of the server on the ring.
THEOREM ServerInvariance == ServerSpec => []ServerIInv
BY ServerInitIInv, ServerNextIInv, PTL DEF ServerSpec

\* What is proved of the ring holds under the requests of the server: each of
\* its steps is one of the ring's, or leaves the ring alone.
THEOREM ServerUsesRing == ServerSpec => Spec
<1>1. ServerInit => Init
  BY DEF ServerInit
<1>2. [ServerNext]_allVars => [Next]_vars
  BY ServerNextIsNext
<1>3. QED
  BY <1>1, <1>2, PTL DEF ServerSpec, Spec

----------------------------------------------------------------------------
(* The theorems *)

\* What the variables are after a request.
LEMMA AnswerTypes ==
    ASSUME ServerIInv, Answered
    PROVE  /\ itemSize \in ItemSizes /\ Width \in Widths /\ Count \in Counts
           /\ Count \in Nat \ {0} /\ PerItem \in Nat \ {0}
           /\ reply \in Seq(ItemNumbers) /\ Len(reply) \in Nat
           /\ Len(reply) * PerItem \in Nat
           /\ asked[1] = ItemsNeeded(Width, Count) /\ Len(reply) <= asked[1]
<1>1. AnswerOfPage /\ itemSize \in ItemSizes /\ reply \in Seq(ItemNumbers)
  BY DEF ServerIInv, IInv, TypeOK
<1>2. PerItem \in Nat \ {0} /\ Count \in Nat \ {0}
  BY <1>1, ItemsHoldValues, CountsAssumption DEF AnswerOfPage, PerItem
<1>3. Len(reply) \in Nat
  BY <1>1, LenProperties
<1>4. QED
  BY <1>1, <1>2, <1>3 DEF AnswerOfPage

\* The answer, value by value.
LEMMA AnswerIs ==
    ASSUME ServerIInv, Answered
    PROVE  /\ Len(answer) = IF Count < Len(reply) * PerItem THEN Count
                            ELSE Len(reply) * PerItem
           /\ DOMAIN answer = 1..Len(answer)
           /\ \A k \in 1..Len(answer) :
                 answer[k] = << reply[(k - 1) \div PerItem + 1], ((k - 1) % PerItem) * Width >>
<1> DEFINE m == IF Count < Len(reply) * PerItem THEN Count ELSE Len(reply) * PerItem
           place(k) == << reply[(k - 1) \div PerItem + 1], ((k - 1) % PerItem) * Width >>
<1>1. m \in Nat
  BY AnswerTypes
<1>2. answer = [k \in 1..m |-> place(k)]
  BY DEF ServerIInv, AnswerOfPage, ValuesUpTo, ValueAt, PerItem
<1> HIDE DEF m, place
<1>3. answer = [k \in 1..m |-> answer[k]] /\ \A k \in 1..m : answer[k] = place(k)
  BY <1>2
<1>4. Len(answer) = m /\ DOMAIN answer = 1..m
  BY <1>1, <1>3, ConcatByPlace
<1>5. QED
  BY <1>3, <1>4 DEF m, place

\* Every value of an answer is made of consecutive bytes of one item, no byte is
\* in two values, and they come in the order of the queue.
THEOREM AnswersKeepOrder == ServerSpec => []AnswersInOrder
<1>1. ServerIInv => AnswersInOrder
  BY AnswerIs DEF AnswersInOrder
<1>2. QED
  BY <1>1, ServerInvariance, PTL

\* An answer is shorter than asked only if the queue has nothing more, whatever
\* the size of the items, as long as their rests are covered by the spare items.
THEOREM EstimateDoesNotCut == ServerSpec => []ShortOnlyIfExhausted
<1>1. ServerIInv => ShortOnlyIfExhausted
  <2> SUFFICES ASSUME ServerIInv, Answered, RestsAreCovered, Len(answer) < Count
               PROVE  Len(reply) < asked[1]
    BY DEF ShortOnlyIfExhausted
  <2> DEFINE limit == ItemsNeeded(Width, Count)
  <2>1. limit \in Nat /\ Count <= limit * PerItem
    BY AnswerTypes, EstimateIsEnough DEF RestsAreCovered, PerItem
  <2> HIDE DEF limit
  <2>2. Len(reply) * PerItem < Count
    BY AnswerTypes, AnswerIs
  <2>3. limit <= Len(reply) => limit * PerItem <= Len(reply) * PerItem
    BY <2>1, AnswerTypes, TimesMonotone
  <2>4. limit * PerItem \in Nat
    BY <2>1, AnswerTypes, TimesMonotone
  <2>5. ~(limit <= Len(reply))
    BY <2>1, <2>2, <2>3, <2>4, AnswerTypes
  <2>6. QED
    BY <2>1, <2>5, AnswerTypes DEF limit
<1>2. QED
  BY <1>1, ServerInvariance, PTL

\* All the items that a request takes are in its answer, but for the spare ones,
\* when they have the size that the estimate assumes. The first value of each of
\* the others is at a place of the answer, and no two of them are the same item.
THEOREM NothingIsWasted == ServerSpec => []PageIsUsed
<1>1. ServerIInv => PageIsUsed
  <2> SUFFICES ASSUME ServerIInv, Answered, itemSize = EstimateBytes
               PROVE  Len(reply) <= Cardinality({answer[k][1] : k \in DOMAIN answer}) + Spare
    BY DEF PageIsUsed
  <2> DEFINE used == {answer[k][1] : k \in DOMAIN answer}
             d == ItemsNeeded(Width, Count) - Spare
             m == IF Len(reply) <= d THEN Len(reply) ELSE d
  <2>1. d \in Nat /\ d * PerItem <= Count /\ Spare \in Nat
    BY AnswerTypes, EstimateIsNeeded, SpareAssumption DEF PerItem
  <2>2. Len(reply) <= d + Spare
    <3>1. ItemsNeeded(Width, Count) \in Nat
      BY AnswerTypes, EstimatesAreLimits, LimitsAssumption
    <3>2. QED
      BY <2>1, <3>1, AnswerTypes
  <2> HIDE DEF d
  <2>3. m \in Nat /\ m <= d /\ m <= Len(reply) /\ Len(reply) <= m + Spare
    BY <2>1, <2>2, AnswerTypes
  <2> HIDE DEF m
  <2>4. m * PerItem <= Len(answer)
    <3>1. /\ m * PerItem \in Nat /\ m * PerItem <= d * PerItem
          /\ m * PerItem <= Len(reply) * PerItem /\ d * PerItem \in Nat
      <4>1. PerItem \in Nat /\ Len(reply) \in Nat
        BY AnswerTypes
      <4>2. QED
        BY <2>1, <2>3, <4>1, TimesMonotone
    <3>2. QED
      BY <2>1, <3>1, AnswerTypes, AnswerIs
  <2>5. \A q \in 1..m : reply[q] \in used
    <3> SUFFICES ASSUME NEW q \in 1..m PROVE reply[q] \in used
      OBVIOUS
    <3> DEFINE k == (q - 1) * PerItem + 1
    <3>1. /\ q - 1 \in Nat /\ (q - 1) * PerItem \in Nat
          /\ q * PerItem = (q - 1) * PerItem + PerItem
      <4>1. q \in Nat \ {0} /\ PerItem \in Nat
        BY <2>3, AnswerTypes
      <4>2. QED
        BY <4>1, OneTimeLess
    <3>2. q * PerItem <= m * PerItem
      <4>1. q \in Nat /\ q <= m /\ PerItem \in Nat
        BY <2>3, AnswerTypes
      <4>2. QED
        BY <2>3, <4>1, TimesMonotone
    <3>3. k \in 1..Len(answer)
      <4>1. m * PerItem \in Nat /\ Len(answer) \in Nat
        BY <2>3, AnswerTypes, AnswerIs, TimesMonotone
      <4>2. PerItem \in Nat \ {0}
        BY AnswerTypes
      <4>3. QED
        BY <2>4, <3>1, <3>2, <4>1, <4>2
    <3>4. (k - 1) \div PerItem = q - 1
      <4>1. 0 \in 0..(PerItem - 1) /\ k - 1 = (q - 1) * PerItem + 0
        BY <3>1, AnswerTypes
      <4> HIDE DEF k
      <4>2. QED
        BY <3>1, <4>1, AnswerTypes, DivisionIsUnique
    <3> HIDE DEF k
    <3>5. answer[k][1] = reply[q]
      <4>1. answer[k][1] = reply[(k - 1) \div PerItem + 1]
        BY <3>3, AnswerIs
      <4>2. (q - 1) + 1 = q
        BY <2>3
      <4>3. QED
        BY <3>4, <4>1, <4>2
    <3>6. QED
      BY <3>3, <3>5, AnswerIs
  <2>6. used \subseteq 0..MaxPushes
    <3>1. ASSUME NEW k \in 1..Len(answer) PROVE answer[k][1] \in ItemNumbers
      <4>1. answer[k][1] = reply[(k - 1) \div PerItem + 1]
        BY AnswerIs
      <4>2. (k - 1) \div PerItem \in 0..(Len(reply) - 1)
        <5>1. k - 1 \in Nat /\ k - 1 < Len(reply) * PerItem
          BY AnswerTypes, AnswerIs
        <5>2. /\ (k - 1) \div PerItem \in Nat
              /\ ((k - 1) \div PerItem) * PerItem <= k - 1
          BY <5>1, AnswerTypes, QuotientTimes
        <5>3. Len(reply) <= (k - 1) \div PerItem
                => Len(reply) * PerItem <= ((k - 1) \div PerItem) * PerItem
          BY <5>2, AnswerTypes, TimesMonotone
        <5>4. QED
          BY <5>1, <5>2, <5>3, AnswerTypes
      <4>3. QED
        BY <4>1, <4>2, AnswerTypes, ElementOfSeq
    <3>2. QED
      BY <3>1, AnswerIs, MaxPushesAssumption DEF ItemNumbers
  <2> HIDE DEF used
  <2>7. IsFiniteSet(used) /\ Cardinality(used) \in Nat
    <3>1. IsFiniteSet(0..MaxPushes)
      BY FS_Interval, MaxPushesAssumption
    <3>2. IsFiniteSet(used)
      BY <2>6, <3>1, FS_Subset
    <3>3. QED
      BY <3>2, FS_CardinalityType
  <2>8. m <= Cardinality(used)
    <3> DEFINE f == [q \in 1..m |-> reply[q]]
    <3>1. f \in Injection(1..m, used)
      <4>1. f \in [1..m -> used]
        BY <2>5
      <4>2. ASSUME NEW p \in 1..m, NEW q \in 1..m, reply[p] = reply[q] PROVE p = q
        <5>1. p \in 1..Len(reply) /\ q \in 1..Len(reply)
          BY <2>3, AnswerTypes
        <5>2. reply[p] \in Int /\ reply[q] \in Int
          <6>1. reply[p] \in used /\ reply[q] \in used
            BY <2>5
          <6>2. 0..MaxPushes \subseteq Int
            BY MaxPushesAssumption
          <6> HIDE DEF f
          <6>3. QED
            BY <2>6, <6>1, <6>2
        <5>3. (p < q => reply[p] < reply[q]) /\ (q < p => reply[q] < reply[p])
          BY <5>1 DEF ServerIInv, AnswerOfPage, StrictlyIncreasing
        <5>4. QED
          BY <4>2, <5>1, <5>2, <5>3
      <4>3. QED
        BY <4>1, <4>2 DEF Injection, IsInjective
    <3>2. Cardinality(1..m) <= Cardinality(used)
      BY <2>7, <3>1, FS_Injection
    <3>3. Cardinality(1..m) = m
      BY <2>3, FS_Interval
    <3>4. QED
      BY <3>2, <3>3
  <2>9. QED
    BY <2>1, <2>3, <2>7, <2>8, AnswerTypes DEF used
<1>2. QED
  BY <1>1, ServerInvariance, PTL
=============================================================================
