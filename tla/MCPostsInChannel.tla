-------------------------- MODULE MCPostsInChannel --------------------------
(* Post 3 is a reply to post 1; the other posts are roots. *)
EXTENDS PostsInChannel
Roots == [p \in Post |-> IF p = 3 THEN 1 ELSE 0]
=============================================================================
