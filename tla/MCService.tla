------------------------------ MODULE MCService ------------------------------
(* The service for TLC: small values for the constants of every part.       *)
EXTENDS Service, TLC

CONSTANTS k1, k2, k3, v, w

\* Two clients of a bucket with limit 2, one of a bucket with limit 1.
TwoAndOne == [k \in Keys |-> IF k = k3 THEN 1 ELSE 2]

\* The clients with one limit, and any two values.
Interchangeable == Permutations({k1, k2}) \cup Permutations({v, w})

\* A negative length, and lengths below, at and above the limit.
AroundTheLimit == {-1, 0, 3, 4, 5}

\* Two records of one type and one of another.
TwoTypes == {<<"shipment", "1">>, <<"shipment", "2">>, <<"order", "1">>}

\* Two sentences that fit, and one of which a word is longer than a chunk.
TwoLines == {<<"letter", "stop", "space", "letter", "letter">>,
             <<"letter", "space", "letter", "letter", "letter", "letter", "letter", "letter",
               "space", "letter", "letter", "letter">>}
OneTitle == {<<"letter", "letter">>}

\* A field with one value and a list; the type, which a heading may name.
LinesPerField == [f \in Fields |-> IF f = "document_type" THEN 2 ELSE 3]
=============================================================================
