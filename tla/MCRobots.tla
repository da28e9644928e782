----------------------------- MODULE MCRobots ------------------------------
(* Robots over small sets of values and addresses. *)
EXTENDS Robots

\* "raw" is a letter outside ASCII, "%enc" its percent-encoding, "%61" that of "a".
AllTokens == {"/", "a", "b", "raw", "%enc", "%61"} \cup Special
ParsedAs  == [t \in AllTokens |-> IF t = "raw" THEN "%enc" ELSE t]
CanonOf   == [t \in AllTokens |-> CASE t = "raw" -> "%enc" [] t = "%61" -> "a" [] OTHER -> t]

\* A plain rule, a longer one with a query, and an encoded one; addresses with and without
\* query, in raw and in needlessly encoded form.
MixedValues    == {<<"/", "a">>, <<"/", "a", "?">>, <<"/", "%enc">>}
MixedAddresses == {<<"/">>, <<"/", "a">>, <<"/", "a", "b">>, <<"/", "a", "?", "b">>, <<"/", "raw">>, <<"/", "%61">>}
=============================================================================
