-------------------------------- MODULE Utf8 --------------------------------
(***************************************************************************)
(* The vendored utf8 library, as the conversions of Utilities.cpp use it:  *)
(* octets are 0 .. 255, code units and code points are numbers, and the    *)
(* iterator range [it, end) is the part of a sequence from position it on. *)
(* Shifts and masks are products, quotients and remainders; fields that    *)
(* are or-ed together have no bits in common, so they are added.           *)
(***************************************************************************)
EXTENDS Integers, Sequences

LEAD_SURROGATE_MIN  == 55296    \* 0xd800
LEAD_SURROGATE_MAX  == 56319    \* 0xdbff
TRAIL_SURROGATE_MIN == 56320    \* 0xdc00
TRAIL_SURROGATE_MAX == 57343    \* 0xdfff
CODE_POINT_MAX      == 1114111  \* 0x10ffff
LEAD_OFFSET         == LEAD_SURROGATE_MIN - 64
SURROGATE_OFFSET    == 65536 - LEAD_SURROGATE_MIN * 1024 - TRAIL_SURROGATE_MIN

is_trail(oc) == oc \div 64 = 2

is_lead_surrogate(u)  == LEAD_SURROGATE_MIN <= u /\ u <= LEAD_SURROGATE_MAX
is_trail_surrogate(u) == TRAIL_SURROGATE_MIN <= u /\ u <= TRAIL_SURROGATE_MAX

\* A code point is unsigned: a negative wchar_t is far above CODE_POINT_MAX.
is_code_point_valid_Surrogates(cp) == 0 <= cp /\ cp <= CODE_POINT_MAX
is_code_point_valid(cp) ==
  /\ 0 <= cp /\ cp <= CODE_POINT_MAX
  /\ ~ (LEAD_SURROGATE_MIN <= cp /\ cp <= TRAIL_SURROGATE_MAX)

sequence_length(lead) ==
  IF lead < 128             THEN 1
  ELSE IF lead \div 32 = 6  THEN 2
  ELSE IF lead \div 16 = 14 THEN 3
  ELSE IF lead \div 8 = 30  THEN 4
  ELSE 0

is_overlong_sequence(cp, length) ==
  IF cp < 128 THEN length # 1
  ELSE IF cp < 2048 THEN length # 2
  ELSE cp < 65536 /\ length # 3

(***************************************************************************)
(* increase_safely, as get_sequence_x calls it for each trail octet in     *)
(* turn: the error is that of the first one that is not there.             *)
(***************************************************************************)
TrailError(s, it, length) ==
  IF \E k \in it + 1 .. it + length - 1 : k <= Len(s) /\ ~ is_trail(s[k])
  THEN "INCOMPLETE_SEQUENCE"
  ELSE IF it + length - 1 > Len(s) THEN "NOT_ENOUGH_ROOM" ELSE "UTF8_OK"

\* The low six bits of a trail octet, and the code point get_sequence_x puts
\* together; the masks drop the marker bits of the lead octet.
payload(oc) == oc % 64

get_sequence(s, it, length) ==
  IF length = 1 THEN s[it]
  ELSE IF length = 2 THEN ((s[it] * 64) % 2048) + payload(s[it + 1])
  ELSE IF length = 3 THEN ((s[it] * 4096) % 65536) + payload(s[it + 1]) * 64
                            + payload(s[it + 2])
  ELSE ((s[it] * 262144) % 2097152) + payload(s[it + 1]) * 4096
         + payload(s[it + 2]) * 64 + payload(s[it + 3])

(***************************************************************************)
(* validate_next: the checks in their order.  The code point is undefined  *)
(* unless the trail octets are there.                                      *)
(***************************************************************************)
validate_next(s, it) ==
  LET length == sequence_length(s[it])
      trail  == TrailError(s, it, length)
      cp     == get_sequence(s, it, length)
  IN  IF length = 0                         THEN "INVALID_LEAD"
      ELSE IF trail # "UTF8_OK"             THEN trail
      ELSE IF ~ is_code_point_valid(cp)     THEN "INVALID_CODE_POINT"
      ELSE IF is_overlong_sequence(cp, length) THEN "OVERLONG_SEQUENCE"
      ELSE "UTF8_OK"

\* utf8::append, for a valid code point.
trail_octet(x) == 128 + payload(x)

append(cp) ==
  IF cp < 128 THEN <<cp>>
  ELSE IF cp < 2048 THEN <<192 + (cp \div 64), trail_octet(cp)>>
  ELSE IF cp < 65536 THEN <<224 + (cp \div 4096), trail_octet(cp \div 64), trail_octet(cp)>>
  ELSE <<240 + (cp \div 262144), trail_octet(cp \div 4096), trail_octet(cp \div 64),
         trail_octet(cp)>>

\* The code units utf8to16 writes for a code point, and their combination in
\* utf16to8; in uint32_t the sum wraps around to the same number.
utf16(cp) ==
  IF cp > 65535 THEN <<(cp \div 1024) + LEAD_OFFSET, (cp % 1024) + TRAIL_SURROGATE_MIN>>
  ELSE <<cp>>

Pair(lead, trail) == lead * 1024 + trail + SURROGATE_OFFSET

=============================================================================
