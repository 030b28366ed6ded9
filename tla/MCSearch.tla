------------------------------- MODULE MCSearch -------------------------------
(* An instance of SearchSession for TLC: the browser provider, which short- *)
(* circuits on an exact model only and opens after two empty results, then  *)
(* a search engine with a quality gate.                                     *)
EXTENDS SearchProperties

MCProviders  == {1, 2}
MCSkips      == {{}, {1}}
MCEmptyLimit == <<2, 0>>
=============================================================================
