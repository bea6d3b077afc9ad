---------------------------- MODULE MCLinkConfig ----------------------------
(***************************************************************************)
(* Checks load_config() against its reference definition over every        *)
(* configuration built from small sets: no ids, or two stations; up to two *)
(* link entries, malformed or out of range ones included; error_probs      *)
(* tables of every shape up to 3 x 2; path_loss sections with each key      *)
(* missing or of the wrong length, on a 2 x 2 position grid.  Mixed        *)
(* sources are taken from small representatives.  main() is then started *)
(* on the file with every command line of up to three words.              *)
(***************************************************************************)
EXTENDS Startup, TLC

CONSTANTS NumIds, LinkIdx, LinkSnrs, TxPowers, MaxLinks, MaxArgs

VARIABLES
    cf,     \* the configuration file on disk
    args,   \* the command line main() was last started with
    proc    \* its outcome, or NoProc

(* Station indices of link entries: one below and one above the range.    *)
MCLinkIdx == -1 .. NumIds

LinkEntries == [len : {2, 3}, start : LinkIdx, end : LinkIdx, snr : LinkSnrs]
LinkLists   == UNION {[1 .. k -> LinkEntries] : k \in 0 .. MaxLinks}
EpTables    == UNION {[1 .. k -> UNION {[1 .. m -> Probs] : m \in 1 .. 2}]
                        : k \in 1 .. 3}
Positions   == [len : {2, 3}, x : 0 .. 1, y : 0 .. 1]
PlSections  ==
    [positions : {NoKey} \cup [1 .. NumIds -> Positions] \cup {<<>>},
     txPowers  : {NoKey} \cup [1 .. NumIds -> TxPowers],
     model     : {NoKey} \cup [name : {"log_distance", "other"}, len : {2, 3}]]

Cfg(i, l, e, p) == [ids |-> i, links |-> l, errorProbs |-> e, pathLoss |-> p]

SomeLinks == <<[len |-> 3, start |-> 0, end |-> 1, snr |-> CHOOSE s \in LinkSnrs : TRUE]>>
SomeEps   == [r \in 1 .. NumIds |-> [c \in 1 .. NumIds |-> 0]]
SomePl    == [positions |-> [i \in 1 .. NumIds |-> [len |-> 2, x |-> i % 2, y |-> 0]],
              txPowers |-> [i \in 1 .. NumIds |-> CHOOSE t \in TxPowers : TRUE],
              model |-> [name |-> "log_distance", len |-> 3]]

Configs ==
    {Cfg(i, l, NoKey, NoKey) : i \in {NoKey, NumIds}, l \in LinkLists \cup {NoKey}}
    \cup {Cfg(NumIds, NoKey, e, NoKey) : e \in EpTables}
    \cup {Cfg(NumIds, NoKey, NoKey, p) : p \in PlSections}
    \cup {Cfg(NumIds, l, e, p) : l \in {NoKey, SomeLinks}, e \in {NoKey, SomeEps},
                                 p \in {NoKey, SomePl}}

NoFile == Cfg(NoKey, NoKey, NoKey, NoKey)

NoProc == [exit |-> "none"]

(* main() is started on no file, on one load_config() accepts and on one *)
(* it rejects: its outcome depends on the file only through that result. *)
StartFiles == {NoFile, Cfg(NumIds, SomeLinks, NoKey, NoKey),
               Cfg(NumIds, SomeLinks, SomeEps, NoKey)}

Argvs == UNION {[1 .. k -> Words] : k \in 0 .. MaxArgs}

Init == cf = NoFile /\ args = <<>> /\ proc = NoProc

(* A configuration file is written, and removed again.                    *)
LoadFile == cf = NoFile /\ proc = NoProc /\ \E c \in Configs : cf' = c
                /\ UNCHANGED <<args, proc>>
Restart  == (cf # NoFile \/ proc # NoProc) /\ cf' = NoFile /\ args' = <<>> /\ proc' = NoProc

(* wmediumd is started on the file with a command line.                   *)
Start == /\ cf \in StartFiles /\ proc = NoProc
         /\ \E a \in Argvs : args' = a /\ proc' \in main(a, cf)
         /\ UNCHANGED cf

vars == <<cf, args, proc>>
Spec == Init /\ [][LoadFile \/ Restart \/ Start]_vars

(* The loops of load_config() and parse_path_loss() -- the key-combination *)
(* check, the skip of malformed and out-of-range links, the two writes per *)
(* link, the mirrored upper triangle of error_probs, the length checks     *)
(* that abort -- accept exactly the configurations the reference accepts   *)
(* and build the same SNR and error-probability matrices entry by entry.   *)
LoadMatchesReference ==
    LET r == load_config(cf)
        n == cf.ids
    IN  /\ r.ok = RefOk(cf)
        /\ r.ok =>
             /\ \A i, j \in 0 .. n - 1 : r.snr[n * i + j] = RefSnr(cf, i, j)
             /\ (r.errorProb = NoKey) = (cf.errorProbs = NoKey)
             /\ cf.errorProbs # NoKey =>
                  \A i, j \in 0 .. n - 1 : r.errorProb[n * i + j] = RefErrorProb(cf, i, j)

(* Spec 4.2: with path loss PL = PL0 + 10 * exponent * log10(d) grows with *)
(* the distance, so a station never hears a nearer station worse than the *)
(* same transmitter at any greater distance of the grid.                   *)
SnrNonIncreasingWithDistance ==
    LET r == load_config(cf)
        n == cf.ids
    IN  r.ok /\ cf.pathLoss # NoKey =>
          \A i, j \in 0 .. n - 1 : i # j =>
            LET p  == cf.pathLoss.positions
                d2 == (p[i + 1].x - p[j + 1].x)^2 + (p[i + 1].y - p[j + 1].y)^2
            IN  \A far \in d2 + 1 .. Len(LogDistancePL) :
                   r.snr[n * i + j] >=
                     cf.pathLoss.txPowers[i + 1] - LogDistancePL[far] - NOISE_LEVEL
(* The level an -l argument names by its leading decimal digits, if any. *)
LevelNamed == [w \in LogArgs |->
                 CASE w = "3" -> 3 [] w = "9" -> 9 [] w = "5x" -> 5 [] OTHER -> -1]

(* main() reaches its scheduler loop only with a configuration            *)
(* load_config() accepted, given with -c, and the log level the last -l    *)
(* names (6 without one), which is in 0..7; it exits with success only for *)
(* -h or -V, and only when no word before them was rejected.               *)
StartupSound ==
    /\ proc.exit = "running" =>
          /\ load_config(cf).ok
          /\ \E i \in DOMAIN args : args[i].o = "c"
          /\ proc.lvl \in 0 .. 7
          /\ LET ls == {i \in DOMAIN args : args[i].o = "l"}
             IN  proc.lvl = IF ls = {} THEN 6
                            ELSE LevelNamed[args[Max(ls)].arg]
    /\ proc.exit = "success" =>
          \E i \in DOMAIN args :
             /\ args[i].o \in {"h", "V"}
             /\ \A j \in 1 .. i - 1 :
                   /\ args[j].o # "?"
                   /\ args[j].o = "l" => LevelNamed[args[j].arg] \in 0 .. 7
=============================================================================
