--------------------------- MODULE MCEntryHandler ---------------------------
(* Small instances of EntryHandler for TLC: the values of its constants that *)
(* are functions.  A resource has as many bytes as the names say.            *)
EXTENDS EntryHandler

CONSTANTS a, b, c    \* contents

OneContent    == {a}
ThreeContents == {a, b, c}

FiveBytes   == [x \in Contents |-> 5]
FourBytes   == [x \in Contents |-> 4]
ThreeBytes  == [x \in Contents |-> 3]
FourThreeNone == [x \in Contents |-> IF x = a THEN 4 ELSE IF x = b THEN 3 ELSE 0]
ThreeThreeTwo == [x \in Contents |-> IF x = c THEN 2 ELSE 3]

SizeKnown     == SizeOf
SizeOfBUnknown == [x \in Contents |-> IF x = b THEN -1 ELSE SizeOf[x]]

Ranges         == [x \in Contents |-> TRUE]
RangesButForB  == [x \in Contents |-> x # b]

OwnUrl  == [x \in Contents |-> <<"url of", x>>]
SameUrl == [x \in Contents |-> "url"]
NoLimit == -1

\* The process may die at every point.
Anywhere == PC \ {"idle"}
=============================================================================
