---------------------------- MODULE MCGenAIService ----------------------------
(***************************************************************************)
(* One streamed query and one job, as jobs share nothing.  The queries:    *)
(* one answered in sequence, one whose four subtasks are cut to two        *)
(* workers, one whose four run side by side, and one that is refused.      *)
(***************************************************************************)
EXTENDS GenAIService

Query(length, words, analyze, refused) ==
  [length |-> length, words |-> words, analyze |-> analyze, refused |-> refused]

MCQueries ==
  {Query(99, 12, FALSE, FALSE), Query(299, 40, TRUE, FALSE),
   Query(300, 40, TRUE, FALSE), Query(60, 8, FALSE, TRUE)}
===============================================================================
