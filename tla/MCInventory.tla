----------------------------- MODULE MCInventory -----------------------------
(* Names "a", "A", "a!" and "a 2": two spellings of one name, two names    *)
(* with one slug, and a name whose slug is another's with a suffix.         *)
EXTENDS Inventory, TLC

MCLower == [n \in Names |-> IF n = "A" THEN "a" ELSE n]
MCSlugOf == [n \in Names |-> IF n = "a 2" THEN <<"a", 2>> ELSE <<"a">>]
MCCustomRefs == {[area |-> "custom", of |-> NoId, slug |-> << >>, user |-> NoId]}
MCSymmetry == Permutations(Tenants)
=============================================================================
