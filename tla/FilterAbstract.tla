--------------------------- MODULE FilterAbstract ---------------------------
(***************************************************************************)
(* The frame filter as spec section 4.9 and scenario S4 describe it: a     *)
(* rule (source MAC, frame subtype) with a budget of frames to drop.  A    *)
(* frame from that MAC of that subtype is dropped while the budget lasts,  *)
(* each drop spends one unit, and a spent rule lets everything pass.  A    *)
(* rule given no count has an unlimited budget.                            *)
(***************************************************************************)
EXTENDS Naturals

CONSTANTS
    AnyMac,      \* every source MAC a frame or a rule can name
    Null,        \* no rule
    Unlimited,   \* the budget of a rule without a count
    MaxBudget    \* bound: the largest finite budget

FrameKinds == {"sae_commit", "sae_confirm", "action", "data"}
RuleTypes  == {"commit", "confirm", "action"}

(* Spec 4.9: commit and confirm name the SAE messages, action any action  *)
(* frame (SAE messages are action frames).                                 *)
Covers(type, kind) ==
    CASE type = "commit"  -> kind = "sae_commit"
      [] type = "confirm" -> kind = "sae_confirm"
      [] type = "action"  -> kind \in {"sae_commit", "sae_confirm", "action"}

VARIABLES
    rule,       \* Null or [mac, type]
    budget,     \* drops left: a number or Unlimited
    verdict     \* the verdict on the last frame offered, or "none"

Init ==
    /\ rule \in {Null} \cup [mac : AnyMac, type : RuleTypes]
    /\ budget \in (0 .. MaxBudget) \cup {Unlimited}
    /\ verdict = "none"

Offer(src, kind) ==
    IF rule # Null /\ rule.mac = src /\ Covers(rule.type, kind) /\ budget # 0
    THEN /\ verdict' = "drop"
         /\ budget' = IF budget = Unlimited THEN Unlimited ELSE budget - 1
         /\ UNCHANGED rule
    ELSE /\ verdict' = "pass"
         /\ UNCHANGED <<rule, budget>>

Next == \E src \in AnyMac, kind \in FrameKinds : Offer(src, kind)

Spec == Init /\ [][Next]_<<rule, budget, verdict>>
=============================================================================
