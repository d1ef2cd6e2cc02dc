----------------------------- MODULE RandomData -----------------------------
(***************************************************************************)
(* POST /data (GetRandomData of pkg/api/server.go) on the ring buffer of   *)
(* one source: the number of items that a request asks the queue for is    *)
(* estimated from the bytes it needs, and the items of the page become the *)
(* values of its format. ChannelDB is the module where requests and pushes *)
(* interleave inside Get; here each request is one step.                   *)
(*                                                                         *)
(* A format is the bytes of a value; "binary" is a sequence of values of   *)
(* one byte, and the sign of an integer is left out. A value is the place  *)
(* its bytes come from: an item, and the first of its width bytes there.   *)
(*                                                                         *)
(* A definition named X_Y is a faulty version of X, in the way Y.          *)
(***************************************************************************)
EXTENDS CircularQueue, FiniteSets

CONSTANTS
    ItemSizes,      \* the bytes of an item: 31 from the TRNG, 256 from Fortuna
    EstimateBytes,  \* the bytes that the estimate takes an item to have: 31
    Spare,          \* the items that it adds: 5
    Widths,         \* the bytes of a value: 1, 2, 4, 8
    Counts          \* the numbers of values asked for: 1 .. 100000

ASSUME WidthsAssumption == EstimateBytes \in Nat /\ Widths \subseteq 1..EstimateBytes
ASSUME SizesAssumption ==
    ItemSizes \subseteq Nat /\ \A bytes \in ItemSizes : bytes >= EstimateBytes
ASSUME SpareAssumption == Spare \in Nat \ {0}
ASSUME CountsAssumption == Counts \subseteq Nat \ {0}

VARIABLES
    itemSize,   \* of the source that the queue belongs to
    request,    \* the width and count of the latest request, <<>> before
    answer      \* the values it was answered; none is answered by 404

requests == <<itemSize, request, answer>>
allVars == <<vars, requests>>

ServerInit ==
    /\ Init
    /\ itemSize \in ItemSizes
    /\ request = <<>> /\ answer = <<>>

----------------------------------------------------------------------------
(* Conversion *)

ItemsNeeded_NoneSpare(width, count) == (count * width) \div EstimateBytes

ItemsNeeded_InBytes(width, count) == count * width + Spare

\* estimatedChunksNeeded.
ItemsNeeded(width, count) == (count * width) \div EstimateBytes + Spare

ASSUME EstimatesAreLimits ==
    \A width \in Widths, count \in Counts : ItemsNeeded(width, count) \in Limits

ValuesOf_Overlap(item, width) ==
    [i \in 1 .. itemSize - width + 1 |-> <<item, i - 1>>]

\* The values that an item holds: i starts at 0 and goes on by the width while
\* i <= len(chunk) - width, so the rest of an item is never used.
ValuesOf(item, width) ==
    [i \in 1 .. itemSize \div width |-> <<item, (i - 1) * width>>]

\* The values with those of one more item, of which as many are taken as are
\* missing.
AddValues(values, item, width, count) ==
    LET left == count - Len(values)
        more == ValuesOf(item, width)
    IN  values \o (IF Len(more) <= left THEN more ELSE SubSeq(more, 1, left))

\* convertToIntFormat, and the loop for "binary": item after item, until there
\* are count values.
Converted(page, width, count) ==
    LET values[n \in 0 .. Len(page)] ==
            IF n = 0 THEN <<>> ELSE AddValues(values[n - 1], page[n], width, count)
    IN  values[Len(page)]

----------------------------------------------------------------------------
(* Requests *)

\* A request that passes validation, in either consume mode.
GetRandomData(width, count, offset, consume) ==
    /\ Get(ItemsNeeded(width, count), offset, consume)
    /\ request' = <<width, count>>
    /\ answer' = Converted(reply', width, count)
    /\ UNCHANGED itemSize

StoreItem == Push /\ UNCHANGED requests

ServerNext ==
    \/ StoreItem
    \/ \E width \in Widths, count \in Counts, offset \in Offsets, consume \in BOOLEAN :
          GetRandomData(width, count, offset, consume)

ServerSpec == ServerInit /\ [][ServerNext]_allVars

----------------------------------------------------------------------------
(* Properties *)

Answered == request # <<>>
Width == request[1]
Count == request[2]
PerItem == itemSize \div Width

\* The values of an answer are the first Count of those the page holds, in the
\* order of the queue: none is made of the bytes of two items, no two of them
\* share a byte, and only the rest of an item, too short for a value, is left
\* out between them.
AnswersInOrder ==
    Answered =>
        /\ Len(answer) = IF Count < Len(reply) * PerItem THEN Count ELSE Len(reply) * PerItem
        /\ \A k \in DOMAIN answer :
              answer[k] = << reply[(k - 1) \div PerItem + 1], ((k - 1) % PerItem) * Width >>

\* The spare items make up for the rests of the others: always if an item is a
\* whole number of values, for up to 53 integers of eight bytes from the TRNG.
RestsAreCovered == Count * (itemSize % Width) <= (Spare - 1) * PerItem * itemSize

\* An answer is shorter than asked only because the queue has nothing more:
\* the estimate, made before the size of the items is known, does not cut it.
ShortOnlyIfExhausted ==
    Answered /\ RestsAreCovered /\ Len(answer) < Count =>
        LET limit == asked[1] IN Len(reply) < limit

\* What a page takes from the queue, in consume mode for good, is used but for
\* the spare items, when the items have the size that the estimate assumes.
PageIsUsed ==
    Answered /\ itemSize = EstimateBytes =>
        LET used == {answer[k][1] : k \in DOMAIN answer}
        IN  Len(reply) <= Cardinality(used) + Spare
=============================================================================
