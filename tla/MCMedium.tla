------------------------------ MODULE MCMedium ------------------------------
(***************************************************************************)
(* Instantiates Medium for TLC: three stations, a netlink client, a        *)
(* vhost-user client and an API client, two transmitter addresses.         *)
(***************************************************************************)
EXTENDS Medium

CONSTANTS s1, s2, s3, nl, vu, api, hwA, hwB

MCClientType ==
    [c \in Clients |-> CASE c = nl -> "netlink" [] c = vu -> "vhost" [] OTHER -> "api"]
MCInitHwAddr == [s \in Stations |-> hwA]

(* Link SNRs from ifaces.links [(s1,s2,40),(s1,s3,0)]: symmetric, default 30 *)
MCSnr ==
    [p \in Stations \X Stations |->
        IF p \in {<<s1, s2>>, <<s2, s1>>} THEN 40
        ELSE IF p \in {<<s1, s3>>, <<s3, s1>>} THEN 0
        ELSE SNR_DEFAULT]

Mgmt   == [ftype |-> "mgmt", qos |-> FALSE, tid |-> 0]
Data   == [ftype |-> "data", qos |-> FALSE, tid |-> 0]
QosVO  == [ftype |-> "data", qos |-> TRUE, tid |-> 6]

MCFrameTypes == {Mgmt, Data}
MCDataOnly   == {Data}

(* An error_probs matrix: the s1-s3 link loses every frame, others none.   *)
MCErrorProb ==
    [p \in Stations \X Stations |->
        IF p \in {<<s1, s3>>, <<s3, s1>>} THEN Scale ELSE 0]

MCMrrTables == {<<[idx |-> 0, count |-> 2], [idx |-> 3, count |-> 1]>>}

(* With a table whose first row has count 0 the walk makes no attempt:    *)
(* zero airtime, so a frame starts exactly when the medium frees up and   *)
(* ties with the frame ahead of it.                                        *)
MCMrrTablesTie == MCMrrTables \cup {<<[idx |-> 0, count |-> 0]>>}

(* The refinement mapping onto the abstract medium: the clock is the       *)
(* scheduler's time, the live clients are the allocated ones, a frame's   *)
(* owner is frame->src and its due time its job's start.                   *)
AbsFrames ==
    [id \in DOMAIN fr |->
        [sender |-> fr[id].sender, dest |-> fr[id].dest, owner |-> fr[id].src,
         due |-> fr[id].start, fate |-> fr[id].status]]

AbsMedium == INSTANCE MediumAbstract
                 WITH clock <- now, live <- connected, frames <- AbsFrames,
                      got <- rx, Ids <- 1 .. MaxFrames,
                      InitLive <- {c \in Clients : ClientType[c] = "netlink"}

(* Spec 4.5, 4.6 and 5: the engine implements the abstract medium -- the   *)
(* scheduler fires frames earliest start first and never lets time pass a *)
(* queued frame, each frame is delivered or cancelled once, copies reach  *)
(* only the sender's audience and live clients, and client removal        *)
(* cancels exactly that client's frames.                                   *)
MediumImplementsAbstract == AbsMedium!Spec

=============================================================================
