------------------ MODULE MC_AddressSpaceFilterContainer ------------------
(***************************************************************************)
(* Small instance: texts of length 0-3, one with a leading blank; a term *)
(* needs 2 characters to be queried.  The server holds the address space *)
(* "ab" in namespace "abc" and "abd", so that the namespace queries for  *)
(* "ab" and "abc" have different non-empty answers, and a name query for *)
(* "abc" has an empty one.                                                *)
(***************************************************************************)
EXTENDS AddressSpaceFilterContainer

MCTexts == {"", "a", " ab", "ab", "abc", "abd"}

MCTyped == {"", " ab", "abc"}

MCTrim == [t \in MCTexts |-> IF t = " ab" THEN "ab" ELSE t]

MCShort == {"", "a"}

\* a query matches the values that begin with the term
MCMatch == ("" :> {"ab", "abc", "abd"}) @@ ("a" :> {"ab", "abc", "abd"})
           @@ (" ab" :> {}) @@ ("ab" :> {"ab", "abc", "abd"}) @@ ("abc" :> {"abc"}) @@ ("abd" :> {"abd"})

MCSpaceNames == {"ab"}

MCSpaceNamespaces == {"abc", "abd"}

MCTypes == {"Standard"}

MCMaxPending == 1

MCMaxPendingRace == 2

=============================================================================
