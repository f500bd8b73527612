-------------------------- MODULE MCReleasePipeline --------------------------
(* ReleasePipeline for TLC: the numbers of the first version, from which a *)
(* minor and then a patch version can still be reached.                    *)
EXTENDS ReleasePipeline

MCFirstVersion == <<1, 0, 1>>
===============================================================================
