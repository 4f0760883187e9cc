------------------------ MODULE MCProviderCatalogue ------------------------
(* A discovery of Antigravity models, two saves of one custom provider and *)
(* two changes of the export selection share the database.  The upstreams' *)
(* answers leave out a model that a save may have configured.  Of the      *)
(* requests that are refused, those with two credentials are enough.       *)
EXTENDS ProviderCatalogue, TLC

CONSTANTS m1, m2, d1, s1, s2, c1, c2

MCAnswers == {{}, {m1}}
MCManual == {{}, {m1, m2}}
MCForms == {"plain", "authorization"}
Symmetry == Permutations({s1, s2}) \cup Permutations({c1, c2})
=============================================================================
