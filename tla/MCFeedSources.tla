--------------------------- MODULE MCFeedSources ----------------------------
(***************************************************************************)
(* FeedSources on small instances. Urls, codes and calls are interchangeable *)
(* and appear in no CHOOSE, so they may be permuted in the safety runs.      *)
(***************************************************************************)
EXTENDS FeedSources, TLC

NameSymmetry == Permutations(Ids) \cup Permutations(Urls) \cup Permutations(Codes)
                    \cup Permutations(Tools)
=============================================================================
