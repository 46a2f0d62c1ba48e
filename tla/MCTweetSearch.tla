---------------------------- MODULE MCTweetSearch ----------------------------
(* Two tweets of one author, one of them spam, which does not get old.     *)
EXTENDS TweetSearch, TLC

CONSTANTS a1, c1, c2, r1, s1, t1, t2

MCAuthor == [t \in Tweet |-> a1]
MCMaxAge == [t \in Tweet |-> IF t \in Spam THEN 1 ELSE 3]

Symmetry == Permutations(Search)
=============================================================================
