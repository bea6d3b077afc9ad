-------------------------------- MODULE Mrr --------------------------------
(***************************************************************************)
(* The airtime and multi-rate-retry (MRR) walk that queue_frame() runs on  *)
(* every submitted frame (src/wmediumd/wmediumd.c).  The walk decides how  *)
(* long the frame occupies the medium (send_time), whether it is           *)
(* acknowledged, and how the MRR table reported back to the driver is      *)
(* truncated.                                                              *)
(*                                                                         *)
(* drand48() returns a double in [0,1); an error probability is a double   *)
(* in [0,1].  Both are modelled on the grid k / Scale, Scale = 2 *         *)
(* ProbScale: an error probability is an even point 0, 2, .., Scale and a  *)
(* draw any point 0 .. Scale-1.  An odd draw stands for every value        *)
(* strictly between two error-probability points, an even one for a value *)
(* equal to one, so each way a real draw can compare with the error        *)
(* probabilities is represented, the draw 0 (drand48() returning 0.0)      *)
(* included.                                                               *)
(***************************************************************************)
EXTENDS Integers, Sequences, SequencesExt

CONSTANT ProbScale

ASSUME ProbScale \in Nat \ {0}

Scale == 2 * ProbScale
Draws == 0 .. Scale - 1
Probs == {2 * e : e \in 0 .. ProbScale}

(* PHY timing of queue_frame(): slot, SIFS, DIFS in microseconds.          *)
SlotTime == 9
Sifs     == 16
Difs     == 2 * SlotTime + Sifs

div_round(a, b) == (a + b - 1) \div b

(* Airtime of len bytes at rate (in 100 kbps): preamble + signal + symbols *)
pkt_duration(len, rate) ==
    16 + 4 + 4 * div_round((16 + 8 * len + 6) * 10, 4 * rate)

(* index_to_rate() lives in per.c, which is not part of this source tree;  *)
(* the OFDM rate table of the spec (index 0 is 6 Mbps).                    *)
RateTable == <<60, 90, 120, 180, 240, 360, 480, 540>>
index_to_rate(idx) == RateTable[idx + 1]

ack_time_usec == pkt_duration(14, index_to_rate(0)) + Sifs

(* An MRR row as sent by the driver: a signed char idx, unsigned char count *)
(* Writing -1 into the unsigned count stores 255.                          *)
TerminatedRowSigned == [idx |-> -1, count |-> -1]
TerminatedRow == [idx |-> -1, count |-> 255]

MinOf(a, b) == IF a < b THEN a ELSE b

(* station_init_queues(): (cw_min, cw_max) of each access category, in    *)
(* the order IEEE80211_AC_VO = 0, AC_VI = 1, AC_BE = 2, AC_BK = 3.          *)
station_queue_cw ==
    <<[cw_min |-> 3, cw_max |-> 7], [cw_min |-> 7, cw_max |-> 15],
      [cw_min |-> 15, cw_max |-> 1023], [cw_min |-> 15, cw_max |-> 1023]>>
QueueCw(ac) == station_queue_cw[ac + 1]

(***************************************************************************)
(* The walk.  "in" carries what queue_frame() reads:                       *)
(*   rates     the frame's tx_rates[0 .. tx_rates_count-1]                 *)
(*   len       frame->data_len                                             *)
(*   noack     management frame or multicast destination                   *)
(*   cwMin, cwMax   the (cw_min, cw_max) of the frame's queue              *)
(*   fixed     use_fixed_random_value(): an error_prob matrix is loaded    *)
(*   errorProb [rate index -> Probs]: ctx->get_error_prob() for this link  *)
(*   draws     successive drand48() results: draws[1] is the initial      *)
(*             choice, draws[n+1] the one drawn after the n-th failure     *)
(* The walk state w mirrors the locals i, j, send_time, cw, retries,       *)
(* is_acked and choice.                                                    *)
(***************************************************************************)
RECURSIVE AttemptLoop(_, _)
AttemptLoop(in, w) ==
    LET row == in.rates[w.i + 1]
        t1  == w.send_time + Difs + pkt_duration(in.len, index_to_rate(row.idx))
        bo  == IF w.j > 0 THEN (w.cw * SlotTime) \div 2 ELSE 0
        cw2 == IF w.j > 0 THEN MinOf(2 * w.cw + 1, in.cwMax) ELSE w.cw
        t2  == t1 + bo + ack_time_usec
    IN  IF w.j >= row.count THEN w
        ELSE IF in.noack
             THEN [w EXCEPT !.send_time = t1, !.retries = @ + 1,
                            !.is_acked = TRUE]
        ELSE IF w.choice > in.errorProb[row.idx]
             THEN [w EXCEPT !.send_time = t2, !.cw = cw2, !.retries = @ + 1,
                            !.is_acked = TRUE]
        ELSE AttemptLoop(in,
                [w EXCEPT !.send_time = t2, !.cw = cw2, !.retries = @ + 1,
                          !.j = @ + 1,
                          !.choice = IF in.fixed THEN @
                                     ELSE in.draws[w.retries + 2]])

RECURSIVE RateLoop(_, _)
RateLoop(in, w) ==
    IF w.i >= Len(in.rates) \/ w.is_acked THEN w
    ELSE IF in.rates[w.i + 1].idx < 0 THEN w
    ELSE RateLoop(in, [AttemptLoop(in, [w EXCEPT !.j = 0]) EXCEPT !.i = @ + 1])

MrrWalk(in) ==
    RateLoop(in, [i |-> 0, j |-> 0, send_time |-> 0, cw |-> in.cwMin,
                  retries |-> 0, is_acked |-> FALSE, choice |-> in.draws[1]])

(* A truncation that keeps j attempts of the successful row, not j+1.     *)
TruncatedRatesOffByOne(in, w) ==
    IF ~w.is_acked THEN in.rates
    ELSE [k \in 1 .. Len(in.rates) |->
            IF k = w.i THEN [in.rates[k] EXCEPT !.count = w.j]
            ELSE IF k > w.i THEN TerminatedRow
            ELSE in.rates[k]]

(* The table reported in the TX status: on ACK the successful row keeps    *)
(* j+1 attempts and every later row is terminated.                         *)
TruncatedRates(in, w) ==
    IF ~w.is_acked THEN in.rates
    ELSE [k \in 1 .. Len(in.rates) |->
            IF k = w.i THEN [in.rates[k] EXCEPT !.count = w.j + 1]
            ELSE IF k > w.i THEN TerminatedRow
            ELSE in.rates[k]]

(* What queue_frame() derives from the walk: airtime, ACK flag, MRR table. *)
QueueFrameTx(in) ==
    LET w == MrrWalk(in)
    IN  [send_time |-> w.send_time, acked |-> w.is_acked,
         rates |-> TruncatedRates(in, w)]

-----------------------------------------------------------------------------
(***************************************************************************)
(* Reference definition, stated over the list of attempts instead of the   *)
(* nested loops: the attempts are the (row, j) pairs of the rows before    *)
(* the first negative index; the walk stops at the first attempt that is   *)
(* no-ack or whose draw beats the row's error probability; the contention  *)
(* window before the b-th backoff is min(cwMax, 2^b * (cwMin + 1) - 1).    *)
(***************************************************************************)
LiveRows(rates) ==
    LET cut == SelectInSeq(rates, LAMBDA r : r.idx < 0)
    IN  IF cut = 0 THEN Len(rates) ELSE cut - 1

Attempts(rates) ==
    FlattenSeq([k \in 1 .. LiveRows(rates) |->
                    [j \in 1 .. rates[k].count |-> [row |-> k, j |-> j - 1]]])

RefDraw(in, n) == IF in.fixed THEN in.draws[1] ELSE in.draws[n]

RefSucceeds(in, a, n) ==
    in.noack \/ RefDraw(in, n) > in.errorProb[in.rates[a[n].row].idx]

RefStop(in) ==
    LET a == Attempts(in.rates)
        ok == {n \in 1 .. Len(a) : RefSucceeds(in, a, n)}
    IN  IF ok = {} THEN 0 ELSE CHOOSE n \in ok : \A m \in ok : n <= m

RefCw(in, b) == MinOf(in.cwMax, 2^b * (in.cwMin + 1) - 1)

RefCost(in, a, n) ==
    LET b == Len(SelectSeq(SubSeq(a, 1, n - 1), LAMBDA x : x.j > 0))
    IN  Difs + pkt_duration(in.len, index_to_rate(in.rates[a[n].row].idx))
        + IF in.noack THEN 0
          ELSE ack_time_usec
               + IF a[n].j > 0 THEN (RefCw(in, b) * SlotTime) \div 2 ELSE 0

RefQueueFrameTx(in) ==
    LET a    == Attempts(in.rates)
        stop == RefStop(in)
        last == IF stop = 0 THEN Len(a) ELSE stop
    IN  [send_time |-> FoldLeft(+, 0, [n \in 1 .. last |-> RefCost(in, a, n)]),
         acked     |-> stop # 0,
         rates     |->
            IF stop = 0 THEN in.rates
            ELSE [k \in 1 .. Len(in.rates) |->
                    IF k < a[stop].row THEN in.rates[k]
                    ELSE IF k = a[stop].row
                         THEN [in.rates[k] EXCEPT !.count = a[stop].j + 1]
                    ELSE TerminatedRow]]
=============================================================================
