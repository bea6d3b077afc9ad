------------------------------- MODULE Medium -------------------------------
(***************************************************************************)
(* The medium-arbitration engine of wmediumd (src/wmediumd/wmediumd.c):    *)
(* frame ingress from a client (_process_messages, queue_frame), the       *)
(* per-station EDCA queues and the scheduler jobs that deliver frames at   *)
(* their computed time (wmediumd_deliver_frame), the interference          *)
(* bookkeeping and its 10 ms job (set_interference_duration,              *)
(* wmediumd_intf_update), and the client list (vhost-user and API-socket   *)
(* connections, the netlink client, wmediumd_remove_client).               *)
(*                                                                         *)
(* The process is single-threaded: each action is one scheduler turn or    *)
(* one file-descriptor handler run to completion.  A frame is a record;   *)
(* its payload is abstracted to its frame type and destination.            *)
(***************************************************************************)
EXTENDS Integers, Sequences, FiniteSets, SequencesExt, Mrr

CONSTANTS
    Stations,        \* the radios of ifaces.ids
    Multicast,       \* a group destination address
    Unknown,         \* a unicast destination address no station has
    Clients,         \* client connections (pointers; may be reused)
    ClientType,      \* [Clients -> {"netlink", "vhost", "api"}]
    NoClient,        \* NULL client pointer
    HwAddrs,         \* transmitter hardware addresses clients may send
    InitHwAddr,      \* [Stations -> HwAddrs]: hwaddr set by load_config
    FrameTypes,      \* subset of [ftype : {"mgmt","ctl","data"}, qos : BOOLEAN, tid : 0..7]
    Dests,           \* destinations submitted: subset of Stations \cup {Multicast, Unknown}
    SnrMatrix,       \* [Stations \X Stations -> Int]: snr_matrix after load_config
    ErrorProbMatrix, \* [Stations \X Stations -> Probs], or NoMatrix
    NoMatrix,
    MrrTables,       \* MRR tables clients submit
    FrameLen,        \* data_len of submitted frames
    FadingValues,    \* values ctx->get_fading_signal() may return
    IntfEnabled,     \* ctx->intf allocated
    MaxFrames,       \* bound: frames submitted in a behaviour
    MaxTime,         \* bound: the clock, in microseconds
    TimeSteps        \* idle time that may pass between two events

ASSUME /\ Multicast \notin Stations /\ Unknown \notin Stations
       /\ Dests \subseteq Stations \cup {Multicast, Unknown}
       /\ ClientType \in [Clients -> {"netlink", "vhost", "api"}]
       /\ NoClient \notin Clients
       /\ IntfEnabled \in BOOLEAN

VARIABLES
    now,        \* scheduler.current_time
    fr,         \* every frame calloc()ed, in order: its id is its index;
                \* status "queued", "reported" or "cancelled" tracks its fate
    queues,     \* [Stations -> [ACs -> Seq(frame id)]]: station->queues[ac].frames
    jobs,       \* frame ids with a job registered in the scheduler
    staClient,  \* [Stations -> Clients \cup {NoClient}]: station->client
    hwaddr,     \* [Stations -> HwAddrs]: station->hwaddr
    connected,  \* clients allocated and not yet removed
    listed,     \* clients on ctx->clients (receive unbound stations' frames)
    intf,       \* [Stations -> [Stations -> [duration, signal, prob]]]: ctx->intf
    intfJob,    \* start of ctx->intf_job
    rx          \* history: copies handed to clients, [id, sta, to]

vars == <<now, fr, queues, jobs, staClient, hwaddr, connected, listed,
          intf, intfJob, rx>>

ACs == 0 .. 3
SNR_DEFAULT   == 30
NOISE_LEVEL   == -91
CCA_THRESHOLD == -90
IntfPeriod    == 10000

fixed == ErrorProbMatrix # NoMatrix    \* use_fixed_random_value()

-----------------------------------------------------------------------------
(* Frame classification.  ieee802_1d_to_ac[] is in ieee80211.h, outside   *)
(* this source tree: the standard 802.1D map (VO = 0 .. BK = 3).           *)
ieee802_1d_to_ac == <<2, 3, 3, 2, 1, 1, 0, 0>>

frame_select_queue_80211(ft) ==
    IF ft.ftype # "data" THEN 0
    ELSE IF ~ft.qos THEN 2
    ELSE ieee802_1d_to_ac[ft.tid + 1]

frame_is_mgmt(ft) == ft.ftype = "mgmt"

(* The link model chosen by load_config(): with an error_probs matrix the  *)
(* SNR is the constant default and the error probability is read from the  *)
(* matrix (0 when there is no destination station).                        *)
get_link_snr(s, r) == IF fixed THEN SNR_DEFAULT ELSE SnrMatrix[<<s, r>>]

(* get_error_prob_from_snr() is in per.c, outside this source tree: an     *)
(* abstraction that loses no frame at high SNR, every frame at SNR <= 0,   *)
(* and half of them in between; higher rate indices need more SNR.         *)
get_error_prob_from_snr(snr, rate_idx) ==
    IF snr >= 10 + 2 * rate_idx THEN 0
    ELSE IF snr <= 0 THEN Scale
    ELSE 2 * (ProbScale \div 2)

get_error_prob(snr, rate_idx, s, d) ==
    IF ~fixed THEN get_error_prob_from_snr(snr, rate_idx)
    ELSE IF d \notin Stations THEN 0
    ELSE ErrorProbMatrix[<<s, d>>]

-----------------------------------------------------------------------------
(* Interference.  Milliwatts are kept in thousandths: dBm_to_milliwatt()   *)
(* relative to the noise floor, clamped at +-31 dB, and the rounding of    *)
(* milliwatt_to_dBm(x) + 0.5 to an int as a threshold table.               *)
MwBelowNoise == <<794, 631, 501, 398, 316, 251, 200, 158, 126, 100, 79, 63,
                  50, 40, 32, 25, 20, 16, 13, 10, 8, 6, 5, 4, 3, 3, 2, 2, 1, 1>>
MwAboveNoise == <<1259, 1585, 1995, 2512, 3162, 3981, 5012, 6310, 7943, 10000,
                  12589, 15849, 19953, 25119, 31623, 39811, 50119, 63096,
                  79433, 100000, 125893, 158489, 199526, 251189, 316228,
                  398107, 501187, 630957, 794328, 1000000>>
dBm_to_milliwatt(dbm) ==
    LET diff == NOISE_LEVEL - dbm
    IN  IF diff >= 31 THEN 1
        ELSE IF diff <= -31 THEN 1000000
        ELSE IF diff = 0 THEN 1000
        ELSE IF diff > 0 THEN MwBelowNoise[diff]
        ELSE MwAboveNoise[-diff]

(* 1000 * 10^((k - 0.5)/10): the least sum that rounds to k dB.            *)
DbRoundUp == <<1123, 1413, 1779, 2239, 2819, 3549, 4467, 5624, 7080, 8913,
               11221, 14126, 17783, 22388, 28184, 35482, 44669, 56235, 70795,
               89126>>
RoundedDbm(mw) ==
    LET ks == {k \in 1 .. Len(DbRoundUp) : DbRoundUp[k] <= mw}
    IN  IF ks = {} THEN 0 ELSE Max(ks)

(* set_interference_duration(): whether it records, and its effect.        *)
IntfRecords(signal) == IntfEnabled /\ signal < CCA_THRESHOLD

SetIntfDuration(i, src, duration, signal) ==
    IF ~IntfRecords(signal) THEN i
    ELSE [i EXCEPT ![src] = [k \in Stations |->
              [i[src][k] EXCEPT !.duration = @ + duration, !.signal = signal]]]

(* get_signal_offset_by_interference(): every results the drand48() draws  *)
(* against prob_col (= prob / IntfPeriod) can give.  Interferer k fires    *)
(* when its draw is below prob_col: possible iff prob_col > 0, certain iff *)
(* prob_col >= 1.                                                          *)
SignalOffsets(i, src, dst) ==
    IF ~IntfEnabled THEN {0}
    ELSE LET others == Stations \ {src, dst}
             Firing == {F \in SUBSET others :
                          /\ \A k \in F : i[k][dst].prob > 0
                          /\ \A k \in others \ F : i[k][dst].prob < IntfPeriod}
             Power(F) == MapThenSumSet(LAMBDA k : dBm_to_milliwatt(i[k][dst].signal), F)
         IN  {IF Power(F) <= 1000 THEN 0 ELSE RoundedDbm(Power(F)) : F \in Firing}

-----------------------------------------------------------------------------
(* The drand48() sequences of the MRR walk.  The walk only sees whether    *)
(* each attempt's draw beats the error probability and stops at the first  *)
(* that does; draw 0 never beats one and draw Scale-1 beats every one that *)
(* any draw beats.  So with a fixed draw every constant sequence, and with *)
(* fresh draws "first success at attempt n" for every n, is one of every   *)
(* kind of behaviour.                                                      *)
DrawLen == 1 + Max({FoldLeft(LAMBDA a, r : a + r.count, 0, t) : t \in MrrTables})

DrawOptions ==
    IF fixed THEN {[n \in 1 .. DrawLen |-> c] : c \in Draws}
    ELSE {[n \in 1 .. DrawLen |-> IF n = k THEN Scale - 1 ELSE 0] : k \in 0 .. DrawLen}

(* A scan that stops below the frame's own access category.               *)
MediumFreeAtBelow(ac) ==
    LET busy == {p \in Stations \X (0 .. ac - 1) : queues[p[1]][p[2]] # <<>>}
    IN  Max({now} \cup {fr[Last(queues[p[1]][p[2]])].start : p \in busy})

(* The latest start among the tails of queues 0..ac of every station, or   *)
(* now: the medium is busy until the last equal-or-higher priority frame.  *)
MediumFreeAt(ac) ==
    LET busy == {p \in Stations \X (0 .. ac) : queues[p[1]][p[2]] # <<>>}
    IN  Max({now} \cup {fr[Last(queues[p[1]][p[2]])].start : p \in busy})

Queued == {id \in DOMAIN fr : fr[id].status = "queued"}

-----------------------------------------------------------------------------
Init ==
    /\ now = 0
    /\ fr = <<>>
    /\ queues = [s \in Stations |-> [ac \in ACs |-> <<>>]]
    /\ jobs = {}
    /\ staClient = [s \in Stations |-> NoClient]
    /\ hwaddr = InitHwAddr
    /\ connected = {c \in Clients : ClientType[c] = "netlink"}
    /\ listed = connected
    /\ intf = [s \in Stations |-> [k \in Stations |->
                  [duration |-> 0, signal |-> 0, prob |-> 0]]]
    /\ intfJob = IntfPeriod
    /\ rx = {}

-----------------------------------------------------------------------------
(***************************************************************************)
(* Ingress: _process_messages() for an HWSIM_CMD_FRAME sent by client c    *)
(* with transmitter hw and header addr2 of station s.  A frame shorter     *)
(* than a header or from an unknown sender returns before any state        *)
(* change.  The sender's hwaddr is overwritten and, if unbound, the        *)
(* station is bound to c before the frame is allocated.                    *)
(***************************************************************************)
(* Ingress that never binds the sender station to the submitting client.  *)
BindSenderNoBind(c, s, hw) ==
    /\ hwaddr' = [hwaddr EXCEPT ![s] = hw]
    /\ staClient' = staClient

BindSender(c, s, hw) ==
    /\ hwaddr' = [hwaddr EXCEPT ![s] = hw]
    /\ staClient' = [staClient EXCEPT ![s] = IF @ = NoClient THEN c ELSE @]

(* calloc() of the frame fails: the binding stays, no frame is queued.     *)
SubmitAllocFail(c, s, hw) ==
    /\ c \in connected
    /\ BindSender(c, s, hw)
    /\ UNCHANGED <<now, fr, queues, jobs, connected, listed, intf, intfJob, rx>>

(* The frame is allocated and queue_frame() runs: queue selection, link    *)
(* SNR less interference plus fading for a known unicast destination, the  *)
(* MRR walk, the start after the busy medium, the job and the enqueue.     *)
(* frame->src is the station's client, not necessarily c.                  *)
SubmitFrame(c, s, hw, d, ft, rates) ==
    /\ c \in connected
    /\ Len(fr) < MaxFrames
    /\ BindSender(c, s, hw)
    /\ \E fading \in (IF d \in Stations THEN FadingValues ELSE {0}),
          off \in (IF d \in Stations THEN SignalOffsets(intf, s, d) ELSE {0}),
          draws \in DrawOptions :
        LET id  == Len(fr) + 1
            ac  == frame_select_queue_80211(ft)
            snr == IF d \in Stations THEN get_link_snr(s, d) - off + fading
                   ELSE SNR_DEFAULT
            tx  == QueueFrameTx(
                     [rates |-> rates, len |-> FrameLen,
                      noack |-> frame_is_mgmt(ft) \/ d = Multicast,
                      cwMin |-> QueueCw(ac).cw_min, cwMax |-> QueueCw(ac).cw_max,
                      fixed |-> fixed,
                      errorProb |-> [r \in 0 .. 7 |-> get_error_prob(snr, r, s, d)],
                      draws |-> draws])
        IN  /\ fr' = Append(fr,
                       [sender |-> s, submitter |-> c, src |-> staClient'[s],
                        dest |-> d, ac |-> ac, hw |-> hw,
                        signal |-> snr + NOISE_LEVEL, duration |-> tx.send_time,
                        start |-> MediumFreeAt(ac) + tx.send_time,
                        acked |-> tx.acked, rate0 |-> tx.rates[1].idx,
                        status |-> "queued", txTo |-> NoClient, txHw |-> hw])
            /\ queues' = [queues EXCEPT ![s][ac] = Append(@, id)]
            /\ jobs' = jobs \cup {id}
    /\ UNCHANGED <<now, connected, listed, intf, intfJob>>
    /\ UNCHANGED rx

-----------------------------------------------------------------------------
(* The interference job is inside the model's horizon.                     *)
IntfJobPending == IntfEnabled /\ intfJob <= MaxTime

(* A scheduler that runs any registered job, not the earliest.            *)
FirstJobAnyOrder(start) == IntfJobPending => start <= intfJob

(* The scheduler runs the job with the earliest start; ties go either way. *)
FirstJob(start) ==
    /\ \A o \in jobs : start <= fr[o].start
    /\ IntfJobPending => start <= intfJob

(* Whether a multicast copy may reach (TRUE) or miss (FALSE) receiver r:   *)
(* the reverse link plus fading, the CCA check, interference recording    *)
(* (never taken: the signal is at or above CCA here), the interference    *)
(* offset, and drand48() <= error_prob at the first MRR rate.             *)
McastOutcomes(f, r) ==
    UNION {LET snr    == get_link_snr(f.sender, r) + fading
               signal == snr + NOISE_LEVEL
           IN  IF signal < CCA_THRESHOLD THEN {FALSE}
               ELSE IF IntfRecords(signal) THEN {FALSE}
               ELSE UNION {{c > get_error_prob(snr - off, f.rate0, f.sender, r)
                              : c \in Draws}
                           : off \in SignalOffsets(intf, f.sender, r)}
           : fading \in FadingValues}

(* A receiver's copy reaches: its bound client, else every listed client.  *)
Recipients(r) == IF staClient[r] # NoClient THEN {staClient[r]} ELSE listed

(* A delivery loop that does not skip the sender's own station.           *)
ReceiversWithSender(f) == Stations

(* The stations the delivery loop offers a copy to: every station whose    *)
(* address is not the sender's (stations have distinct addresses here).   *)
Receivers(f) == Stations \ {f.sender}

(* wmediumd_deliver_frame(): unlink, then for an acked frame offer a copy  *)
(* to each station other than the sender (multicast: each decided on its   *)
(* own; unicast: the destination unless interference was recorded), else  *)
(* record interference; then the TX status to frame->src; then free.      *)
Deliver(id) ==
    LET f      == fr[id]
        others == Receivers(f)
        Outcome(r) ==
            IF ~f.acked THEN {FALSE}
            ELSE IF f.dest = Multicast THEN McastOutcomes(f, r)
            ELSE IF f.dest = r THEN {~IntfRecords(f.signal)}
            ELSE {FALSE}
    IN
    /\ id \in jobs
    /\ FirstJob(f.start)
    /\ now' = f.start
    /\ queues' = [queues EXCEPT ![f.sender][f.ac] = Remove(@, id)]
    /\ jobs' = jobs \ {id}
    /\ \E R \in SUBSET others :
          /\ \A r \in R : TRUE \in Outcome(r)
          /\ \A r \in others \ R : FALSE \in Outcome(r)
          /\ rx' = rx \cup {[id |-> id, sta |-> r, to |-> Recipients(r)] : r \in R}
    /\ intf' = IF f.acked /\ f.dest \notin others THEN intf
               ELSE SetIntfDuration(intf, f.sender, f.duration, f.signal)
    /\ fr' = [fr EXCEPT ![id].status = "reported", ![id].txTo = f.src,
                        ![id].txHw = hwaddr[f.sender]]
    /\ UNCHANGED <<staClient, hwaddr, connected, listed, intfJob>>

(* An update that leaves the accumulated duration in place.               *)
IntfUpdateNoReset ==
    /\ IntfJobPending
    /\ \A o \in jobs : intfJob <= fr[o].start
    /\ now' = intfJob
    /\ intf' = [i \in Stations |-> [j \in Stations |->
                  IF i = j THEN intf[i][j]
                  ELSE [intf[i][j] EXCEPT !.prob = intf[i][j].duration]]]
    /\ intfJob' = intfJob + IntfPeriod
    /\ UNCHANGED <<fr, queues, jobs, staClient, hwaddr, connected, listed, rx>>

(* wmediumd_intf_update(): prob_col = duration / 10000 for i # j, reset    *)
(* the duration, and re-arm 10 ms later.                                   *)
IntfUpdate ==
    /\ IntfJobPending
    /\ \A o \in jobs : intfJob <= fr[o].start
    /\ now' = intfJob
    /\ intf' = [i \in Stations |-> [j \in Stations |->
                  IF i = j THEN intf[i][j]
                  ELSE [intf[i][j] EXCEPT !.prob = intf[i][j].duration,
                                          !.duration = 0]]]
    /\ intfJob' = intfJob + IntfPeriod
    /\ UNCHANGED <<fr, queues, jobs, staClient, hwaddr, connected, listed, rx>>

(* Time passes with no job due.                                            *)
Advance(step) ==
    /\ now + step <= MaxTime
    /\ FirstJob(now + step)
    /\ now' = now + step
    /\ UNCHANGED <<fr, queues, jobs, staClient, hwaddr, connected, listed,
                   intf, intfJob, rx>>

-----------------------------------------------------------------------------
(* Clients.  wmediumd_vu_connected() lists a vhost-user client at once;    *)
(* wmediumd_api_connected() does not, REGISTER/UNREGISTER do (a repeated   *)
(* one answers INVALID and changes nothing).                               *)
VhostConnected(c) ==
    /\ ClientType[c] = "vhost" /\ c \notin connected
    /\ connected' = connected \cup {c}
    /\ listed' = listed \cup {c}
    /\ UNCHANGED <<now, fr, queues, jobs, staClient, hwaddr, intf, intfJob, rx>>

ApiConnected(c) ==
    /\ ClientType[c] = "api" /\ c \notin connected
    /\ connected' = connected \cup {c}
    /\ UNCHANGED <<now, fr, queues, jobs, staClient, hwaddr, listed, intf,
                   intfJob, rx>>

ApiRegister(c) ==
    /\ ClientType[c] = "api" /\ c \in connected /\ c \notin listed
    /\ listed' = listed \cup {c}
    /\ UNCHANGED <<now, fr, queues, jobs, staClient, hwaddr, connected, intf,
                   intfJob, rx>>

ApiUnregister(c) ==
    /\ ClientType[c] = "api" /\ c \in listed
    /\ listed' = listed \ {c}
    /\ UNCHANGED <<now, fr, queues, jobs, staClient, hwaddr, connected, intf,
                   intfJob, rx>>

(* Removal variants: one that leaves the stations bound to the freed       *)
(* client, one that unlinks the frames but leaves their jobs scheduled.    *)
RemoveClientKeepBinding(c) ==
    LET gone == {id \in Queued : fr[id].src = c}
    IN  /\ staClient' = staClient
        /\ queues' = [s \in Stations |-> [ac \in ACs |->
                        SelectSeq(queues[s][ac], LAMBDA id : fr[id].src # c)]]
        /\ jobs' = jobs \ gone
        /\ fr' = [id \in DOMAIN fr |->
                    IF id \in gone THEN [fr[id] EXCEPT !.status = "cancelled"]
                    ELSE fr[id]]
        /\ listed' = listed \ {c}
        /\ connected' = connected \ {c}
        /\ UNCHANGED <<now, hwaddr, intf, intfJob, rx>>

RemoveClientKeepJobs(c) ==
    LET gone == {id \in Queued : fr[id].src = c}
    IN  /\ staClient' = [s \in Stations |->
                           IF staClient[s] = c THEN NoClient ELSE staClient[s]]
        /\ queues' = [s \in Stations |-> [ac \in ACs |->
                        SelectSeq(queues[s][ac], LAMBDA id : fr[id].src # c)]]
        /\ jobs' = jobs
        /\ fr' = [id \in DOMAIN fr |->
                    IF id \in gone THEN [fr[id] EXCEPT !.status = "cancelled"]
                    ELSE fr[id]]
        /\ listed' = listed \ {c}
        /\ connected' = connected \ {c}
        /\ UNCHANGED <<now, hwaddr, intf, intfJob, rx>>

(* wmediumd_remove_client(): unbind its stations, then unlink and          *)
(* deschedule every queued frame whose src is c, then unlist and free it.  *)
RemoveClient(c) ==
    LET gone == {id \in Queued : fr[id].src = c}
    IN  /\ staClient' = [s \in Stations |->
                           IF staClient[s] = c THEN NoClient ELSE staClient[s]]
        /\ queues' = [s \in Stations |-> [ac \in ACs |->
                        SelectSeq(queues[s][ac], LAMBDA id : fr[id].src # c)]]
        /\ jobs' = jobs \ gone
        /\ fr' = [id \in DOMAIN fr |->
                    IF id \in gone THEN [fr[id] EXCEPT !.status = "cancelled"]
                    ELSE fr[id]]
        /\ listed' = listed \ {c}
        /\ connected' = connected \ {c}
        /\ UNCHANGED <<now, hwaddr, intf, intfJob, rx>>

(* wmediumd_vu_disconnected(), and the disconnect path of                  *)
(* wmediumd_api_handler() (short read, oversize, write failure).           *)
VhostDisconnected(c) ==
    /\ ClientType[c] = "vhost" /\ c \in connected
    /\ RemoveClient(c)

ApiDisconnect(c) ==
    /\ ClientType[c] = "api" /\ c \in connected
    /\ RemoveClient(c)

-----------------------------------------------------------------------------
Next ==
    \/ \E c \in Clients, s \in Stations, hw \in HwAddrs :
          \/ SubmitAllocFail(c, s, hw)
          \/ \E d \in Dests, ft \in FrameTypes, rates \in MrrTables :
                SubmitFrame(c, s, hw, d, ft, rates)
    \/ \E id \in jobs : Deliver(id)
    \/ IntfUpdate
    \/ \E step \in TimeSteps : Advance(step)
    \/ \E c \in Clients :
          \/ VhostConnected(c) \/ VhostDisconnected(c)
          \/ ApiConnected(c) \/ ApiRegister(c) \/ ApiUnregister(c)
          \/ ApiDisconnect(c)

Spec == Init /\ [][Next]_vars

-----------------------------------------------------------------------------
FrameRec ==
    [sender : Stations, submitter : Clients, src : Clients,
     dest : Stations \cup {Multicast, Unknown}, ac : ACs, hw : HwAddrs,
     signal : Int, duration : Nat, start : Nat, acked : BOOLEAN,
     rate0 : Int, status : {"queued", "reported", "cancelled"},
     txTo : Clients \cup {NoClient}, txHw : HwAddrs]

TypeOK ==
    /\ now \in Nat
    /\ fr \in Seq(FrameRec) /\ Len(fr) <= MaxFrames
    /\ queues \in [Stations -> [ACs -> Seq(DOMAIN fr)]]
    /\ jobs \subseteq DOMAIN fr
    /\ staClient \in [Stations -> Clients \cup {NoClient}]
    /\ hwaddr \in [Stations -> HwAddrs]
    /\ listed \subseteq connected /\ connected \subseteq Clients
    /\ intf \in [Stations -> [Stations -> [duration : Nat, signal : Int, prob : Nat]]]
    /\ intfJob \in Nat

(* Spec section 3 / 8.1: every frame is in exactly one queue, its          *)
(* station's queue for its access category, exactly once, and has exactly *)
(* one scheduler job -- or is in no queue and has no job.  Delivery and    *)
(* client removal must each unlink and deschedule together.               *)
JobsMatchQueues ==
    /\ jobs = Queued
    /\ \A id \in DOMAIN fr, s \in Stations, ac \in ACs :
          Len(SelectSeq(queues[s][ac], LAMBDA x : x = id)) =
             IF id \in Queued /\ s = fr[id].sender /\ ac = fr[id].ac THEN 1 ELSE 0

(* queue_frame() scans the tails of queues 0..ac of every station: a frame *)
(* queued after another frame of equal or higher priority (a lower or      *)
(* equal AC number), of any station, only starts its airtime once that    *)
(* frame's delivery time has passed.  Implies spec 8.2 (starts within one  *)
(* queue never decrease).                                                  *)
AirtimeNoOverlap ==
    \A f, g \in Queued :
        (f < g /\ fr[f].ac <= fr[g].ac) =>
            fr[g].start - fr[g].duration >= fr[f].start

(* After any sequence of connects, submissions and removals no state       *)
(* refers to a freed client: ctx->clients, station->client and the src of  *)
(* every queued frame (where its TX status will be written) are live.      *)
NoDanglingClient ==
    /\ listed \subseteq connected
    /\ \A s \in Stations : staClient[s] \in connected \cup {NoClient}
    /\ \A id \in Queued : fr[id].src \in connected

(* A delivered frame whose set_interference_duration() call recorded its  *)
(* airtime: not acked, or acked unicast to a station other than the       *)
(* sender, with a signal below the CCA threshold (a multicast receiver    *)
(* that passes the CCA check never records).                               *)
IntfRecorded(id) ==
    /\ fr[id].status = "reported"
    /\ IntfRecords(fr[id].signal)
    /\ ~fr[id].acked \/ fr[id].dest \in Receivers(fr[id])

(* The airtime station i recorded with deliveries in [lo, hi).             *)
RecordedAirtime(i, lo, hi) ==
    MapThenSumSet(LAMBDA id : fr[id].duration,
                  {id \in DOMAIN fr : /\ IntfRecorded(id)
                                      /\ fr[id].sender = i
                                      /\ lo <= fr[id].start
                                      /\ fr[id].start < hi})

(* Spec 4.7: prob_col is the share of the last 10 ms window in which the   *)
(* source was active.  Whatever deliveries, submissions and ticks of the   *)
(* interference job interleave, each intf[i][j] with i # j holds in       *)
(* duration the airtime i recorded since the last run of                  *)
(* wmediumd_intf_update(), and in prob that of the window before it, the  *)
(* one get_signal_offset_by_interference() reads.                          *)
IntfTracksWindows ==
    \A i, j \in Stations : i # j =>
        /\ intf[i][j].duration = RecordedAirtime(i, intfJob - IntfPeriod, intfJob)
        /\ intf[i][j].prob =
              RecordedAirtime(i, intfJob - 2 * IntfPeriod, intfJob - IntfPeriod)

-----------------------------------------------------------------------------
(* Properties the spec states that the code does not have.                 *)

(* Spec 3 and 4.6: the TX status goes back to the client that submitted    *)
(* the frame.                                                              *)
TxStatusToSubmitter ==
    \A id \in DOMAIN fr : fr[id].status = "reported" => fr[id].txTo = fr[id].submitter

(* Spec 4.3 and 4.6: the TX status names the transmitter address the frame *)
(* was submitted with (the hwaddr is rebound on the first frame only).     *)
TxStatusHwaddr ==
    \A id \in DOMAIN fr : fr[id].status = "reported" => fr[id].txHw = fr[id].hw
=============================================================================
