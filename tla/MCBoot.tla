------------------------------- MODULE MCBoot --------------------------------
(* Message sequences of flash.sh: the introduction, then lines that are    *)
(* opened and finished, and after a failure perhaps an explanation.        *)
EXTENDS Boot

ShortTraces == {<<"A", "B", "A">>, <<"A", "A", "B", "A", "B", "A", "A">>,
                <<"A", "A", "A", "A", "B", "A", "B", "A", "B", "A", "B", "A">>}
=============================================================================
