------------------------------- MODULE MCTrie -------------------------------
(***************************************************************************)
(* Instances of Trie for TLC.                                              *)
(***************************************************************************)
EXTENDS Trie

\* Names over two bytes: a name, its extensions, and one apart.
FewNames == {<<1>>, <<1, 1>>, <<1, 2>>, <<2>>}
DeepNames == {<<1>>, <<1, 2, 1>>, <<2>>}
=============================================================================
