--------------------------- MODULE MCPiperEngine ---------------------------
(* An instance of PiperEngine for TLC: nothing tells initialisations,      *)
(* sessions or the utterances of a session apart.                          *)
EXTENDS PiperEngine, TLC

Symmetry ==
  Permutations(InitCall) \cup Permutations(Session) \cup Permutations(Utterance)

=============================================================================
