----------------------------- MODULE OptionInts -----------------------------
(***************************************************************************)
(* The variable-length integers of an option header: option deltas and     *)
(* option lengths as a nibble and up to two more bytes                     *)
(* (mcoap/mc_options_list.c, mcoap/mc_option.c).                           *)
(***************************************************************************)
EXTENDS Integers

UINT16_MAX == 65535
UInt16 == 0..UINT16_MAX

\* value_to_encoded_int: the nibble and the extended integer.
HeadNibble(v) == IF v < 13 THEN v ELSE IF v < 269 THEN 13 ELSE 14

Extended(v) == IF v < 13 THEN 0 ELSE IF v < 269 THEN v - 13 ELSE v - 269

\* The bytes that extended_num_to_buffer writes for a nibble.
ExtendedSize(head) == IF head = 13 THEN 1 ELSE IF head = 14 THEN 2 ELSE 0

\* encoded_int_to_value, into a uint16_t.
EncodedIntToValue(head, ext) ==
  IF head < 13 THEN head
  ELSE IF head = 13 THEN (ext + 13) % 65536
  ELSE IF head = 14 THEN (ext + 269) % 65536
  ELSE 0

\* extended_int_size, the bytes that mc_option_buffer_size counts for an integer.
ExtendedIntSize(v) ==
  IF v < 13 THEN 1 ELSE IF v < 269 THEN 2 ELSE IF v < 65805 THEN 3 ELSE 0
=============================================================================
