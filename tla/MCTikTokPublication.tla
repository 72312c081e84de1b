-------------------------- MODULE MCTikTokPublication --------------------------
(* One commercial publication with the local review and one legacy one.    *)
EXTENDS TikTokPublication

CONSTANTS a, b

MCPublications == {a, b}
MCCommercial == {a}
MCRequests ==
  [pub : {a}, action : {"publish", "recover", "status"}]
    \cup {[pub |-> b, action |-> "publish"]}

=============================================================================
