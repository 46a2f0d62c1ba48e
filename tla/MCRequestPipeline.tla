-------------------------- MODULE MCRequestPipeline --------------------------
(* The pipeline for TLC: every kind of request alone, and pairs whose      *)
(* halves go to different workers or to the worker that may block.         *)
EXTENDS RequestPipeline

CONSTANTS s1, s2

MCContent ==
  {<<k>> : k \in {"quiet", "silent", "async"}}
    \cup (({"query", "price"} \X {"task", "volatility"})
    \cup {<<"blockly", "async">>, <<"volatility", "blockly">>})
=============================================================================
