-------------------------------- MODULE Lists --------------------------------
(***************************************************************************)
(* The loops over a list that several parts share, as recursive functions  *)
(* over the length of the list (SelectSeq and FoldLeft take an operator,   *)
(* and what takes an operator cannot be reasoned about).                   *)
(***************************************************************************)
EXTENDS Integers, Sequences

\* The entries that stay when others are passed over, in their order.
EntriesKept(entries, stay) ==
  LET walk[j \in 0 .. Len(entries)] ==
        IF j = 0 THEN <<>>
        ELSE IF entries[j] \in stay THEN Append(walk[j - 1], entries[j]) ELSE walk[j - 1]
  IN  walk[Len(entries)]

Total(numbers) ==
  LET sum[j \in 0 .. Len(numbers)] == IF j = 0 THEN 0 ELSE sum[j - 1] + numbers[j]
  IN  sum[Len(numbers)]
=============================================================================
