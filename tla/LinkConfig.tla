----------------------------- MODULE LinkConfig -----------------------------
(***************************************************************************)
(* load_config() and parse_path_loss() (src/wmediumd/config.c): from the   *)
(* parsed configuration file to the station count, the link model and the  *)
(* row-major N x N matrices snr_matrix and error_prob_matrix, indexed      *)
(* [src * N + dst] as in the code.                                         *)
(*                                                                         *)
(* The file is given already parsed by libconfig: a missing key is NoKey,  *)
(* a list is a sequence.  A link entry keeps its length and its three      *)
(* integers; a position its length and integer coordinates on a small      *)
(* grid; error probabilities are the even grid points of Mrr.              *)
(***************************************************************************)
EXTENDS Integers, Sequences, FiniteSets, SequencesExt, Mrr

CONSTANT NoKey     \* config_lookup() returned NULL

NOISE_LEVEL == -91
SNR_DEFAULT == 30

INT_MIN == -2147483647 - 1

(* a - b in the build's 32-bit two's-complement int, where b = INT_MIN is  *)
(* the only operand large enough to overflow: -INT_MIN wraps to INT_MIN.   *)
Sub32(a, b) ==
    IF b # INT_MIN THEN a - b
    ELSE IF a >= 0 THEN a + INT_MIN
    ELSE (a + 2147483647) + 1

(***************************************************************************)
(* calc_path_loss_log_distance() for the model parameters the harness      *)
(* uses, ("log_distance", 3.5, 0.0): PL0 + 35 * log10(d) truncated to int, *)
(* tabulated by the squared distance d2 = 1 .. 8.  At d = 0, log10 gives   *)
(* -inf and the double-to-int conversion is undefined; x86-64 and AArch64  *)
(* builds both produce INT_MIN.                                            *)
(***************************************************************************)
LogDistancePL == <<40, 45, 48, 50, 52, 53, 54, 55>>

calc_path_loss(dst, src) ==
    LET d2 == (src.x - dst.x)^2 + (src.y - dst.y)^2
    IN  IF d2 = 0 THEN INT_MIN ELSE LogDistancePL[d2]

Failed == [ok |-> FALSE, n |-> 0, snr |-> <<>>, errorProb |-> NoKey]

-----------------------------------------------------------------------------
(* The "read snr values" loop: a link that is not a triple, or whose       *)
(* indices are out of range, is skipped with a message; a valid one writes *)
(* both directions.                                                        *)
LinkValid(l, n) ==
    /\ l.len = 3
    /\ l.start >= 0 /\ l.start < n /\ l.end >= 0 /\ l.end < n

(* A loop that writes only the direction the entry names.                 *)
ApplyLinkOneWay(n, snr, l) ==
    IF ~LinkValid(l, n) THEN snr
    ELSE [snr EXCEPT ![n * l.start + l.end] = l.snr]

ApplyLink(n, snr, l) ==
    IF ~LinkValid(l, n) THEN snr
    ELSE [snr EXCEPT ![n * l.start + l.end] = l.snr,
                     ![n * l.end + l.start] = l.snr]

ReadLinks(snr, links, n) ==
    IF links = NoKey THEN snr
    ELSE FoldLeft(LAMBDA m, l : ApplyLink(n, m, l), snr, links)

(* The "read error probabilities" loop: every row must have n entries;     *)
(* only the upper triangle is read and mirrored; calloc() zeroes the rest. *)
ErrorProbRowsOk(eps, n) == \A r \in 1 .. n : Len(eps[r]) = n

ReadErrorProbs(eps, n) ==
    [k \in 0 .. n * n - 1 |->
        LET start == MinOf(k \div n, k % n)
            end   == IF k \div n = start THEN k % n ELSE k \div n
        IN  IF start = end THEN 0 ELSE eps[start + 1][end + 1]]

(* parse_path_loss(): the lookups and length checks in the code's order,   *)
(* then snr[start][end] = tx_power[start] - path_loss - NOISE_LEVEL.       *)
PathLossOk(pl, n) ==
    /\ pl.positions # NoKey /\ Len(pl.positions) = n
    /\ pl.txPowers # NoKey /\ Len(pl.txPowers) = n
    /\ pl.model # NoKey
    /\ pl.model.name = "log_distance" /\ pl.model.len >= 3
    /\ \A i \in 1 .. n : pl.positions[i].len = 2

parse_path_loss(snr, pl, n) ==
    [k \in 0 .. n * n - 1 |->
        LET start == k \div n
            end   == k % n
        IN  IF start = end THEN snr[k]
            ELSE Sub32(Sub32(pl.txPowers[start + 1],
                             calc_path_loss(pl.positions[end + 1],
                                            pl.positions[start + 1])),
                       NOISE_LEVEL)]

(* Exactly one of links / error_probs / path_loss, or none of them.        *)
SourcesExclusive(cf) ==
    Cardinality({k \in {"links", "errorProbs", "pathLoss"} : cf[k] # NoKey}) <= 1

(* load_config(), failure paths included, in the order the code takes.     *)
load_config(cf) ==
    IF cf.ids = NoKey THEN Failed
    ELSE LET n == cf.ids IN
    IF ~SourcesExclusive(cf) THEN Failed
    ELSE IF cf.errorProbs # NoKey /\ Len(cf.errorProbs) # n THEN Failed
    ELSE LET snr == ReadLinks([k \in 0 .. n * n - 1 |-> SNR_DEFAULT], cf.links, n) IN
    IF cf.errorProbs # NoKey /\ ~ErrorProbRowsOk(cf.errorProbs, n) THEN Failed
    ELSE IF cf.pathLoss # NoKey /\ ~PathLossOk(cf.pathLoss, n) THEN Failed
    ELSE [ok |-> TRUE, n |-> n,
          snr |-> IF cf.pathLoss = NoKey THEN snr
                  ELSE parse_path_loss(snr, cf.pathLoss, n),
          errorProb |-> IF cf.errorProbs = NoKey THEN NoKey
                        ELSE ReadErrorProbs(cf.errorProbs, n)]

-----------------------------------------------------------------------------
(***************************************************************************)
(* Reference definition, per matrix entry rather than by loops: the SNR of *)
(* a pair is the snr of the last valid link naming it in either order, or  *)
(* the default; the error probability of (i, j) is the config entry of the *)
(* row with the smaller index; spec 4.2 for path loss.                     *)
(***************************************************************************)
RefOk(cf) ==
    /\ cf.ids # NoKey
    /\ SourcesExclusive(cf)
    /\ cf.errorProbs # NoKey =>
          Len(cf.errorProbs) = cf.ids /\ ErrorProbRowsOk(cf.errorProbs, cf.ids)
    /\ cf.pathLoss # NoKey => PathLossOk(cf.pathLoss, cf.ids)

RefLinkSnr(cf, i, j) ==
    LET n     == cf.ids
        hits  == {m \in 1 .. Len(cf.links) :
                    LinkValid(cf.links[m], n)
                    /\ {cf.links[m].start, cf.links[m].end} = {i, j}}
    IN  IF hits = {} THEN SNR_DEFAULT ELSE cf.links[Max(hits)].snr

RefSnr(cf, i, j) ==
    IF cf.pathLoss # NoKey /\ i # j
    THEN LET p == cf.pathLoss
             d2 == (p.positions[i + 1].x - p.positions[j + 1].x)^2
                   + (p.positions[i + 1].y - p.positions[j + 1].y)^2
         IN  IF d2 = 0 THEN p.txPowers[i + 1] + INT_MIN - NOISE_LEVEL
             ELSE p.txPowers[i + 1] - LogDistancePL[d2] - NOISE_LEVEL
    ELSE IF cf.links = NoKey THEN SNR_DEFAULT
    ELSE RefLinkSnr(cf, i, j)

RefErrorProb(cf, i, j) ==
    IF i = j THEN 0
    ELSE IF i < j THEN cf.errorProbs[i + 1][j + 1]
    ELSE cf.errorProbs[j + 1][i + 1]
=============================================================================
