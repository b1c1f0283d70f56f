-------------------------------- MODULE Lfix --------------------------------
(***************************************************************************)
(* lfix.c: the longest run of fixed literal characters of an expression,   *)
(* which rxvm_fsearch looks for before it runs the virtual machine.  The   *)
(* five static variables are a record; each function maps it to the next   *)
(* one.  Positions are offsets in the text of the expression.              *)
(***************************************************************************)
EXTENDS Integers, Sequences

(* The C type is unsigned int.  Positions are far below UINT_MAX, and only  *)
(* a wrapped difference is near it, so any modulus above twice the longest  *)
(* expression gives the same comparisons.                                   *)
UIntSize == 65536
unsigned(i) == i % UIntSize

(* lfixs tells whether a run is open *)
LfixType ==
  [ltemp0 : 0..(UIntSize - 1), ltempn : 0..(UIntSize - 1),
   lfix0 : 0..(UIntSize - 1), lfixn : 0..(UIntSize - 1), lfixs : {0, 1}]

lfix_static == [ltemp0 |-> 0, ltempn |-> 0, lfix0 |-> 0, lfixn |-> 0, lfixs |-> 0]

(* lfix_zero leaves lfixs as an earlier compilation left it *)
lfix_zero(l) == [lfix_static EXCEPT !.lfixs = l.lfixs]

lfix_continue(l, lp1) ==
  IF l.lfixs = 1
  THEN [l EXCEPT !.ltempn = unsigned(@ + 1)]
  ELSE [l EXCEPT !.lfixs = 1, !.ltemp0 = unsigned(lp1), !.ltempn = unsigned(lp1)]

lfix_update_longest(l) ==
  IF unsigned(l.ltempn - l.ltemp0) > unsigned(l.lfixn - l.lfix0)
  THEN [l EXCEPT !.lfix0 = l.ltemp0, !.lfixn = l.ltempn]
  ELSE l

lfix_stop(l) ==
  [lfix_update_longest(l) EXCEPT !.lfixs = 0, !.ltemp0 = 0, !.ltempn = 0]

lfix_dec_never(l) == l
lfix_dec(l) ==
  IF l.ltempn > l.ltemp0 THEN [l EXCEPT !.ltempn = @ - 1] ELSE l

(* lfix_to_str: the text from offset lfix0 to lfixn without its             *)
(* backslashes, each of which moves the end by one; 0 is read behind it    *)
lfix_to_str(orig, lfix0, lfixn) ==
  LET at(i) == IF i < Len(orig) THEN orig[i + 1] ELSE 0
      copied[i \in lfix0..(lfixn + Len(orig) + 1)] ==  \* before offset i: text, end
        IF i = lfix0 THEN [str |-> <<>>, end |-> lfixn]
        ELSE LET r == copied[i - 1]
             IN  IF i - 1 > r.end THEN r
                 ELSE IF at(i - 1) = 92 THEN [r EXCEPT !.end = @ + 1]
                 ELSE [r EXCEPT !.str = Append(@, at(i - 1))]
  IN  copied[lfixn + Len(orig) + 1].str

set_ltempn(l, val) == [l EXCEPT !.ltempn = unsigned(val)]
=============================================================================
