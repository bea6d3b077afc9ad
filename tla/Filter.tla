------------------------------- MODULE Filter -------------------------------
(***************************************************************************)
(* The frame filter of src/wmediumd/filter.c: filter_parse() turns a       *)
(* dotted string "mac.type[.count]" into a rule, filter_matches() decides  *)
(* PASS or DROP for each frame and spends the rule's count.                *)
(*                                                                         *)
(* The string is a sequence of segments (what lies between dots; an empty *)
(* one where two dots meet).  A segment is abstracted to what the parser  *)
(* gets from it: a MAC written as xx:xx:xx:xx:xx:xx, a word, or a decimal  *)
(* number, each with the value atoi() reads from its leading digits.       *)
(* A frame is abstracted to its source MAC and its kind.                   *)
(***************************************************************************)
EXTENDS Integers, Sequences, SequencesExt

CONSTANTS
    AnyMac,      \* every 6-byte value a MAC field can hold
    Null,        \* NULL: no filter
    FilterStrings \* the filter strings offered to filter_parse()

Words      == {"commit", "confirm", "action", "other"}
Segments   == [t : {"mac"}, mac : AnyMac, n : Int]
              \cup [t : {"word"}, w : Words, n : {0}]
              \cup [t : {"num"}, n : Int]
              \cup [t : {"empty"}]

FrameKinds == {"sae_commit", "sae_confirm", "action", "data"}

(* frame_is_action(), frame_is_sae_commit(), frame_is_sae_confirm() are    *)
(* not in this source tree; spec 4.9: an SAE commit or confirm is an       *)
(* action frame of category 3 with action 1 or 2.                          *)
frame_is_action(kind)      == kind \in {"sae_commit", "sae_confirm", "action"}
frame_is_sae_commit(kind)  == kind = "sae_commit"
frame_is_sae_confirm(kind) == kind = "sae_confirm"

(* string_to_mac_address(): sscanf("%x:%x:...") into an int array that is  *)
(* not initialised; a field that is not a MAC leaves some of it unread,    *)
(* and the bytes copied out are whatever the stack held: any MAC.          *)
string_to_mac_address(seg) == IF seg.t = "mac" THEN {seg.mac} ELSE AnyMac

(* filter_parse(): strtok() skips empty segments; field 0 is the MAC,      *)
(* field 1 the type (an unknown one returns NULL at once), field 2 the     *)
(* count through atoi(), later fields are ignored; fewer than two fields   *)
(* return NULL.  The count defaults to -1.  The set of possible results.   *)
filter_parse(str) ==
    LET tok == SelectSeq(str, LAMBDA g : g.t # "empty")
    IN  IF Len(tok) < 2 THEN {Null}
        ELSE IF tok[2].t # "word" \/ tok[2].w = "other" THEN {Null}
        ELSE {[mac |-> m, frame_type |-> tok[2].w,
               count |-> IF Len(tok) >= 3 THEN tok[3].n ELSE -1]
              : m \in string_to_mac_address(tok[1])}

VARIABLES
    filter,     \* Null or [mac, frame_type, count]
    verdict     \* FILTER_PASS / FILTER_DROP of the last frame, or "none"

vars == <<filter, verdict>>

Init ==
    /\ \E str \in FilterStrings : filter \in filter_parse(str)
    /\ verdict = "none"

(* The type test of filter_matches().                                      *)
TypeMatches(f, kind) ==
    \/ f.frame_type = "commit" /\ frame_is_sae_commit(kind)
    \/ f.frame_type = "confirm" /\ frame_is_sae_confirm(kind)
    \/ f.frame_type = "action" /\ frame_is_action(kind)

(* A filter_matches() that omits the inert-filter test on the count.       *)
OfferFrameNoCountTest(src, kind) ==
    IF filter # Null /\ filter.mac = src /\ TypeMatches(filter, kind)
    THEN /\ verdict' = "drop"
         /\ filter' = IF filter.count > 0 THEN [filter EXCEPT !.count = @ - 1]
                      ELSE filter
    ELSE /\ verdict' = "pass"
         /\ UNCHANGED filter

(* filter_matches() on a frame from src of the given kind; with no filter  *)
(* installed every frame passes.                                           *)
OfferFrame(src, kind) ==
    IF /\ filter # Null
       /\ filter.count # 0
       /\ filter.mac = src
       /\ TypeMatches(filter, kind)
    THEN /\ verdict' = "drop"
         /\ filter' = IF filter.count > 0 THEN [filter EXCEPT !.count = @ - 1]
                      ELSE filter
    ELSE /\ verdict' = "pass"
         /\ UNCHANGED filter

Next == \E src \in AnyMac, kind \in FrameKinds : OfferFrame(src, kind)

Spec == Init /\ [][Next]_vars
=============================================================================
