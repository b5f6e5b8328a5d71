------------------------------ MODULE MCColony ------------------------------
(***************************************************************************)
(* ColonySync on small chains.                                              *)
(***************************************************************************)
EXTENDS ColonySync

\* A post, a reaction, a reply to a post no one knows of, a transaction that does
\* not decode, a reply to the first post, and one more post.
MCKind == <<"post", "reaction", "post", "malformed", "post", "post">>
MCParent == <<0, 0, 2, 0, 1, 0>>

\* Two posts that are no replies.
MCPosts == <<"post", "post">>
MCNoParents == <<0, 0>>
=============================================================================
