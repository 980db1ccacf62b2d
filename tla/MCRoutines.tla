----------------------------- MODULE MCRoutines -----------------------------
(***************************************************************************)
(* Routines for TLC: octets and code units on both sides of every          *)
(* boundary of the encodings, rows of 2 bytes, ints of 2 and longs of 4    *)
(* hexadecimal digits.                                                     *)
(***************************************************************************)
EXTENDS Routines

Ends == {0, 65, 127, 128, 143, 144, 159, 160, 191, 192, 193, 194, 223, 224, 225, 236, 237,
         238, 239, 240, 241, 243, 244, 245, 247, 248, 255}
Trails == {65, 127, 128, 143, 144, 159, 160, 191, 194}
Longer == {194, 223, 224, 225, 236, 237, 238, 239, 240, 243, 244, 245}

MCOctetStrings ==
  {<<>>} \cup {<<a>> : a \in Ends} \cup {<<a, b>> : a, b \in Ends}
  \cup {<<a, b, c>> : a \in Longer, b, c \in Trails}
  \cup {<<a, b, c, d>> : a \in {194, 224, 240, 243, 244, 245, 247},
                         b, c \in {127, 128, 143, 144, 191, 194}, d \in {65, 128, 191, 224}}
  \cup {<<a, b, c, d, 65>> : a \in {240, 244}, b \in {143, 144}, c, d \in {128, 191}}

\* -1 is a wchar_t that is not a code point.
CodeUnits == {-1, 0, 127, 128, 2047, 2048, 55295, 55296, 56319, 56320, 57343, 57344,
              65535, 65536, 65537, 1114111, 1114112}

MCWideStrings ==
  {<<>>} \cup {<<a>> : a \in CodeUnits} \cup {<<a, b>> : a, b \in CodeUnits}
  \cup {<<a, b, 65>> : a, b \in 55295 .. 55297 \cup 56319 .. 56321}

MCBuffers == UNION {[1 .. n -> {"a", "nul"}] : n \in 0 .. 5}

MCNatives == {1, 9, 10, 15, 16, 25, 90, 99, 100, 101, 109, 110, 115, 190, 200, 201, 215, 255, 256,
              900, 999, 1000, 1001, 1015, 1100, 4095, 4096, 9900, 9999, 10000, 10001, 20000}

\* One depth below 0 and one beyond gapString.
MCDepths == -1 .. 3

=============================================================================
