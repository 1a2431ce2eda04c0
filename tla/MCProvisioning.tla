--------------------------- MODULE MCProvisioning ---------------------------
(* Two answers of the server tell one activation from another, two pair keys *)
(* a new one from an old.                                                    *)
EXTENDS Provisioning

CONSTANTS i1, i2, t1, t2

MCIssues == {i1, i2}
MCTokens == {t1, t2}

OneToken == {t1}
=============================================================================
