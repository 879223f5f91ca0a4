--------------------------- MODULE MCJobTemplates ---------------------------
(* JobTemplates on small instances.                                        *)
EXTENDS JobTemplates, TLC

\* Every input of updateTemplate that touches one of the two fields, and the
\* ordinary one that touches neither.
AllInputs == {in \in [cron: {"keep", "set", "clear"}, enabled: {"keep", "on", "off"}] :
                in.cron = "keep" \/ in.enabled = "keep"}
=============================================================================
