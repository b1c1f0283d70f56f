------------------------------- MODULE StrBuf -------------------------------
(***************************************************************************)
(* string_builder.c: a string that grows by blocks.  `buf` holds the bytes *)
(* written, so its length is strb.size; `space` is the allocation.         *)
(***************************************************************************)
EXTENDS Integers, Sequences

CONSTANT block_size
ASSUME BlockAssumption == block_size \in Nat \ {0}

VARIABLES buf, space

strbVars == <<buf, space>>

(* strb_init, with a block size that is not 0 *)
strb_init == buf' = <<>> /\ space' = block_size

Full_oneLate == Len(buf) > space
Full == Len(buf) + 1 > space

(* strb_addc: a block more first, if the string is full *)
Addc(c) ==
  /\ buf' = Append(buf, c)
  /\ space' = IF Full THEN space + block_size ELSE space

(* realloc finds no memory: the string stays as it is *)
AddcFails == Full /\ UNCHANGED strbVars

(* Nothing is written past the allocation. *)
WithinSpace == Len(buf) <= space
=============================================================================
