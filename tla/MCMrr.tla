------------------------------- MODULE MCMrr -------------------------------
(***************************************************************************)
(* Checks the MRR walk of queue_frame() against its reference definition   *)
(* over every input built from small sets: MRR tables of up to MaxRows     *)
(* rows, every sequence of drand48() draws, both random-value policies,    *)
(* per-rate error probabilities, no-ack or not, and two access categories. *)
(* The harness moves through the input space one field at a time.          *)
(***************************************************************************)
EXTENDS Mrr, TLC

CONSTANTS RateIdxs, Counts, MaxRows, FrameLen, ACs

VARIABLE in

MaxAttempts == MaxRows * (CHOOSE c \in Counts : \A d \in Counts : c >= d)

RowSet     == [idx : RateIdxs \cup {-1}, count : Counts]
RateTables == UNION {[1 .. n -> RowSet] : n \in 1 .. MaxRows}
(* The draw after the last attempt is taken but never compared.           *)
DrawSeqs   == {d \in [1 .. MaxAttempts + 1 -> Draws] : d[MaxAttempts + 1] = 0}

Init ==
    in = [rates     |-> <<[idx |-> 0, count |-> 1]>>,
          len       |-> FrameLen,
          noack     |-> FALSE,
          cwMin     |-> QueueCw(2).cw_min,
          cwMax     |-> QueueCw(2).cw_max,
          fixed     |-> FALSE,
          errorProb |-> [r \in RateIdxs |-> 0],
          draws     |-> [n \in 1 .. MaxAttempts + 1 |-> 0]]

SetRates     == \E r \in RateTables : in' = [in EXCEPT !.rates = r]
SetDraws     == \E d \in DrawSeqs : in' = [in EXCEPT !.draws = d]
SetNoack     == \E b \in BOOLEAN : in' = [in EXCEPT !.noack = b]
SetFixed     == \E b \in BOOLEAN : in' = [in EXCEPT !.fixed = b]
SetAc        == \E ac \in ACs :
                    in' = [in EXCEPT !.cwMin = QueueCw(ac).cw_min,
                                     !.cwMax = QueueCw(ac).cw_max]
SetErrorProb == \E r \in RateIdxs, p \in Probs :
                    in' = [in EXCEPT !.errorProb[r] = p]

Next == SetRates \/ SetDraws \/ SetNoack \/ SetFixed \/ SetAc \/ SetErrorProb

Spec == Init /\ [][Next]_in

TypeOK ==
    /\ in.rates \in RateTables
    /\ in.draws \in DrawSeqs
    /\ in.errorProb \in [RateIdxs -> Probs]
    /\ in.noack \in BOOLEAN /\ in.fixed \in BOOLEAN
    /\ LET out == QueueFrameTx(in).rates
       IN  \A k \in DOMAIN out : out[k].idx \in -1 .. 127 /\ out[k].count \in 0 .. 255

(* The nested rate/attempt loops of queue_frame(), with their breaks, the  *)
(* backoff applied from the second attempt of a row on, the contention     *)
(* window carried across rows, and the resampling of drand48(), compute   *)
(* the same airtime, ACK decision and truncated MRR table as the attempt-  *)
(* list definition.                                                        *)
WalkMatchesReference == QueueFrameTx(in) = RefQueueFrameTx(in)

=============================================================================
