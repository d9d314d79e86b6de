----------------------------- MODULE PolyFence ------------------------------
(***************************************************************************)
(* AC_PolyFence_loader: when a list of fence items is a fence, how many    *)
(* bytes of storage it takes, and what indexing the storage finds.         *)
(*                                                                         *)
(* An item is a record: its type, the number of vertices of its polygon,   *)
(* its location, and whether radius and location are valid.                *)
(***************************************************************************)
EXTENDS Integers, Sequences

CONSTANTS
    StorageSize,  \* fence_storage.size(), in bytes
    Items,        \* items a ground station may send
    JunkCounts    \* bound: items that a junk type byte may add to the count, of 0 .. 255

IsVertex(it) == it.type \in {"inclusion", "exclusion"}

\* The types of items that are stored.
ItemTypes == {"inclusion", "exclusion", "circle", "home", "return"}

\* validate_fence(): left is expected_type_count.
ValidateItem(s, it) ==
    IF IsVertex(it) THEN
        [s EXCEPT !.ok = @ /\ it.valid /\ it.n >= 3
                           /\ (s.left # 0 => it.type = s.type /\ it.n = s.n),
                  !.left = (IF s.left = 0 THEN it.n ELSE @) - 1,
                  !.type = IF s.left = 0 THEN it.type ELSE @,
                  !.n = IF s.left = 0 THEN it.n ELSE @]
    ELSE
        [s EXCEPT !.ok = @ /\ it.type \in ItemTypes /\ it.valid /\ s.left = 0
                           /\ (it.type = "return" => ~s.ret),
                  !.ret = @ \/ it.type = "return"]

Validated(items) ==
    LET s[k \in 0 .. Len(items)] ==
            IF k = 0 THEN [ok |-> TRUE, left |-> 0, type |-> "none", n |-> 0, ret |-> FALSE]
            ELSE ValidateItem(s[k - 1], items[k])
    IN  s
validate_fence(items) ==
    LET s == Validated(items)[Len(items)] IN s.ok /\ s.left = 0

\* Bytes of an item that is no vertex, with its type.
ItemBytes(it) == CASE it.type = "circle" -> 13 [] it.type = "home" -> 5 [] OTHER -> 9

\* A polygon is counted at its first vertex and the others are skipped.
SpaceItem(s, it) ==
    IF s.skip > 0 THEN [s EXCEPT !.skip = @ - 1]
    ELSE IF IsVertex(it) THEN [skip |-> it.n - 1, bytes |-> s.bytes + 2 + 8 * it.n]
    ELSE [s EXCEPT !.bytes = @ + ItemBytes(it)]

Space(items) ==
    LET s[k \in 0 .. Len(items)] ==
            IF k = 0 THEN [skip |-> 0, bytes |-> 4] ELSE SpaceItem(s[k - 1], items[k])
    IN  s

fence_storage_space_required(items) == Space(items)[Len(items)].bytes

\* Where write_fence() is after an item, and the vertices that are left of a polygon.
WriteItem(s, it) ==
    IF IsVertex(it) THEN [left |-> (IF s.left = 0 THEN it.n ELSE s.left) - 1,
                          offset |-> s.offset + 8 + IF s.left = 0 THEN 2 ELSE 0]
    ELSE [s EXCEPT !.offset = @ + ItemBytes(it)]

Written(items) ==
    LET s[k \in 0 .. Len(items)] ==
            IF k = 0 THEN [left |-> 0, offset |-> 4] ELSE WriteItem(s[k - 1], items[k])
    IN  s

\* Where write_fence() is after the last item: there it puts the end marker.
EndOffset(items) == Written(items)[Len(items)].offset

max_items == StorageSize \div 8

\* write_fence() stores the items.
Fits(items) == validate_fence(items) /\ fence_storage_space_required(items) <= StorageSize

-----------------------------------------------------------------------------
(* Reading the storage                                                     *)

\* What is read as a type byte, with the count byte that follows a polygon's.
EndMarker == [type |-> "end", n |-> 0]
NoType    == [type |-> "other", n |-> 0]

\* What is read where write_fence() has put no type: a byte of an older fence, or, at the
\* end of the storage, whatever was on the stack.
Junk ==
    {EndMarker, NoType, [type |-> "circle", n |-> 0]}
    \cup {[type |-> "inclusion", n |-> k] : k \in JunkCounts}

\* The items that write_fence() has written a type for at an offset: all but the further
\* vertices of polygons.
TypedAt(items, o) == {k \in DOMAIN items : Written(items)[k - 1] = [left |-> 0, offset |-> o]}

\* Nothing is stored behind the end of the storage.
ReadType(items, o, junk) ==
    IF o >= StorageSize THEN junk
    ELSE IF o = EndOffset(items) THEN EndMarker
    ELSE IF TypedAt(items, o) # {} THEN items[CHOOSE k \in TypedAt(items, o) : TRUE]
    ELSE junk

\* Mutant: the byte with the number of vertices is not skipped.
ScanBytes_NoCount(b) ==
    CASE IsVertex(b) -> 1 + 8 * b.n [] b.type = "circle" -> 13 [] b.type = "home" -> 5 [] OTHER -> 9

\* The bytes that scan_eeprom() skips for a type, and the items that it stands for.
ScanBytes(b) ==
    CASE IsVertex(b) -> 2 + 8 * b.n [] b.type = "circle" -> 13 [] b.type = "home" -> 5 [] OTHER -> 9
ScanItems(b) == IF IsVertex(b) THEN b.n ELSE 1

\* scan_eeprom(), with what scan_eeprom_count_fences() counts.
Scans == [at : Nat, fences : Nat, items : Nat]
Skip(x, b) ==
    [at |-> x.at + ScanBytes(b), fences |-> x.fences + 1, items |-> x.items + ScanItems(b)]

scan_eeprom(items, junk) ==
    LET Outcome(x, ok) == [ok |-> ok, fences |-> x.fences, items |-> x.items]
        Scan[x \in Scans] ==
            LET b == ReadType(items, x.at, junk)
            IN  IF x.at > StorageSize THEN Outcome(x, FALSE)
                ELSE IF b = EndMarker THEN Outcome(x, TRUE)
                ELSE IF b.type \notin ItemTypes THEN Outcome(x, FALSE)
                ELSE Scan[Skip(x, b)]
    IN  Scan[[at |-> 4, fences |-> 0, items |-> 0]]

\* index_eeprom(): a scan that counts and, if there is a fence and memory for the index,
\* one that fills it, with the count of the first.
IndexResults(items) ==
    LET Index(c, ok, memory) ==
            [attempted |-> TRUE, indexed |-> ok, memory |-> memory, count |-> c.items]
        Filled(c) == {Index(c, scan_eeprom(items, junk).ok, TRUE) : junk \in Junk}
        After(c) == IF ~c.ok THEN {Index(c, FALSE, TRUE)}
                    ELSE IF c.fences = 0 THEN {Index(c, TRUE, TRUE)}
                    ELSE {Index(c, FALSE, FALSE)} \cup Filled(c)
    IN  UNION {After(scan_eeprom(items, junk)) : junk \in Junk}
=============================================================================
