------------------------------ MODULE MCFilter ------------------------------
(***************************************************************************)
(* Instantiates Filter for TLC: two MAC values, filter strings of up to    *)
(* four segments, and checks that filter_parse() and filter_matches()      *)
(* implement the rule-with-budget of FilterAbstract.                       *)
(***************************************************************************)
EXTENDS Filter, TLC

CONSTANTS m1, m2, m3, Unlimited, MaxSegments

(* Segments: a MAC (atoi reads 2 from "02:..", 0 from "aa:.."), the words *)
(* of the grammar and one outside it, counts 0 .. 3 and -1, an empty      *)
(* field.  m3 is written by no string: only undefined bytes produce it.    *)
MCSegments ==
    {[t |-> "mac", mac |-> m1, n |-> 2], [t |-> "mac", mac |-> m2, n |-> 0],
     [t |-> "word", w |-> "commit", n |-> 0], [t |-> "word", w |-> "confirm", n |-> 0],
     [t |-> "word", w |-> "action", n |-> 0], [t |-> "word", w |-> "other", n |-> 0],
     [t |-> "num", n |-> -1], [t |-> "empty"]}
    \cup {[t |-> "num", n |-> k] : k \in 0 .. 3}

MCFilterStrings == UNION {[1 .. k -> MCSegments] : k \in 0 .. MaxSegments}

Abs == INSTANCE FilterAbstract
         WITH rule    <- IF filter = Null THEN Null
                         ELSE [mac |-> filter.mac, type |-> filter.frame_type],
              budget  <- IF filter = Null THEN 0
                         ELSE IF filter.count < 0 THEN Unlimited
                         ELSE filter.count,
              verdict <- verdict,
              MaxBudget <- 3

(* filter_parse() and filter_matches() refine the spec's rule: every rule  *)
(* parsed is a (MAC, subtype, budget) rule, a negative or missing count    *)
(* is an unlimited budget, and over any sequence of frames the filter      *)
(* drops exactly the frames the abstract rule drops, spending one unit of  *)
(* a finite budget per drop and passing everything once it is spent.       *)
FilterImplementsAbstract == Abs!Spec
=============================================================================
