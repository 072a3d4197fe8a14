---------------------------- MODULE StringUtils ----------------------------
(* TrimString and RemoveQuotes (string_utils.cpp).  A text is a sequence of *)
(* characters.                                                              *)
EXTENDS Naturals, Sequences, FiniteSetsExt

Blanks == {" ", "\t", "\n", "\r"}
Quote == "\""

\* substr(pos, n) of a string_view: n is cut to what is left.
Substr(str, pos, n) == SubSeq(str, pos + 1, Min({pos + n, Len(str)}))

\* Mutant: end - start.
TrimmedShort(str, start, end) == Substr(str, start, end - start)

Trimmed(str, start, end) == Substr(str, start, end - start + 1)

\* find_first_not_of, find_last_not_of; positions from 0.
TrimString(str) ==
  LET solid == {k \in 0..Len(str) - 1 : str[k + 1] \notin Blanks}
  IN  IF solid = {} THEN <<>> ELSE Trimmed(str, Min(solid), Max(solid))

\* Mutant: a lone quote is taken for the opening and the closing one.
LongEnoughForOne(str) == Len(str) >= 1

LongEnough(str) == Len(str) >= 2

RemoveQuotes(str) ==
  LET result == TrimString(str)
  IN  IF LongEnough(result) /\ Head(result) = Quote /\ result[Len(result)] = Quote
      THEN SubSeq(result, 2, Len(result) - 1)
      ELSE result
=============================================================================
