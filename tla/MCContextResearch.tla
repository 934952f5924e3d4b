---------------------------- MODULE MCContextResearch ----------------------------
EXTENDS ContextResearch

CONSTANTS f1, f2

MCFigures == {f1, f2}
MCAppears == [f \in MCFigures |-> IF f = f1 THEN {1, 2, 3} ELSE {2, 3}]
================================================================================
