# TLA+ models of wmediumd

This directory holds TLA+ models of `src/wmediumd/` for the TLC model checker. wmediumd is a single-threaded wireless-medium simulator. It runs on the usfstl event loop and scheduler. Radios reach it through one of three kinds of client:

- the netlink client (mac80211_hwsim);
- vhost-user devices;
- API-socket clients.

The process has no threads. Every model action is one scheduler job, or one file-descriptor handler run to completion.

## The system and its parts

| Part | Code | Interacts with |
|---|---|---|
| Configuration loader | `config.c: load_config, parse_path_loss` | Builds the stations, `snr_matrix`, `error_prob_matrix` and link-model callbacks that the medium reads. |
| Ingress | `wmediumd.c: _process_messages` | Reached from the netlink callback, `wmediumd_vu_handle` or `wmediumd_api_handler`. Binds the sender station to the client and calls `queue_frame`. |
| MRR walk and queueing | `queue_frame` | Computes airtime, ACK and the truncated rate table. Places the frame after the busy medium, schedules a job and appends it to an EDCA queue. |
| Delivery | `wmediumd_deliver_frame`, `send_cloned_frame_msg`, `send_tx_info_frame_nl` | Scheduler job. Copies the frame to receivers (their bound client, otherwise every listed client) and sends the TX status to `frame->src`. |
| Interference | `set_interference_duration`, `get_signal_offset_by_interference`, `wmediumd_intf_update` | Delivery records airtime below CCA. A 10 ms job turns it into `prob_col`. Submission and multicast delivery draw against it. |
| Clients | `wmediumd_vu_connected/disconnected`, `wmediumd_api_connected/handler`, `wmediumd_remove_client` | Client lifetimes, the `ctx->clients` list (REGISTER/UNREGISTER) and removal of a client's frames. |
| API socket stream | `wmediumd_api_handler`, `wmediumd_send_to_client` | One byte stream each way per API client. Requests and responses are `{type, data_len}` headers plus data. Frames pushed by delivery jobs are followed by a blocking read of the client's ACK. |
| Start-up | `wmediumd.c: main, print_help` | Parses the command line with `getopt`, calls `load_config`, chooses netlink (`-n` or no `-u`), opens the transports and enters the scheduler loop of the medium. |
| Frame filter | `filter.c` | Not called from `wmediumd.c` in this tree. It is modelled on its own. |

## Modules

| Module | Models | State / actions |
|---|---|---|
| `Mrr` | The airtime and MRR part of `queue_frame` (lines 260-354) | Pure operators. `AttemptLoop`/`RateLoop` are the two loops (RECURSIVE), with the walk state `[i, j, send_time, cw, retries, is_acked, choice]`. `TruncatedRates` is the rewrite on ACK. `QueueFrameTx` is the result. `RefQueueFrameTx` is a flat reference over the attempt list. |
| `MCMrr` | Harness for `Mrr` | One variable `in`. Each step changes one input: the table, draws, noack, fixed, AC or error probability. |
| `Medium` | Ingress, queues, scheduler, delivery, interference, clients | Variables: `now`, `fr` (every allocated frame and its fate), `queues`, `jobs`, `staClient` (`station->client`), `hwaddr`, `connected`, `listed` (`ctx->clients`), `intf`, `intfJob`, `rx` (history of copies). The actions are listed below. |
| `MCMedium` | Model values and small link tables for `Medium` | Station SNRs 40/0/30, an error matrix with one lossy link, and MRR tables. It also holds the refinement mapping onto `MediumAbstract`. |
| `MediumAbstract` | What the medium promises (spec 4.5, 4.6, 5) | `clock`, `live` clients, `frames` (sender, destination, owner, due time, fate) and `got` (copies handed out). `Accept` takes a frame of a live client due no earlier than now. `Deliver` delivers the earliest pending frame exactly at its due time, with copies only to its audience and only to live clients. `Tick` never moves time past a pending frame. `Leave` cancels a client's frames in the same step. |
| `LinkConfig` | `load_config` and `parse_path_loss` | A pure operator from a parsed file to `[ok, n, snr, errorProb]`, taking the failure checks in the code's order. Path loss uses the log-distance model tabulated on a grid, with 32-bit wrap (`Sub32`). |
| `Startup` | `main` up to its loop, `print_help` | Pure operators. `Getopt` (RECURSIVE) is the option switch over a list of words (an option with its argument, `?` for what getopt rejects, `pos` for a non-option word). `strtoul`/`LogLvlAccepted` are the `-l` test. `main(argv, cf)` is the set of outcomes: an exit with success or failure, or a running process with its log level and transports; `init_netlink` may fail. |
| `MCLinkConfig` | Harness and composition | `LoadFile` picks any bounded configuration. `Start` runs `main` of `Startup` on any command line of up to `MaxArgs` words over a loaded file and records the outcome in `proc`. `Restart` returns to no file and no process. |
| `FilterAbstract` | What the filter promises (spec 4.9 and scenario S4) | A rule with a drop budget. |
| `Filter` | `filter_parse`, `filter_matches` | `Init` parses any string of up to 4 segments. `OfferFrame` is `filter_matches`. |
| `ApiSocket` | The API socket between wmediumd and one client | `toW`/`toC` are the two streams, as sequences of chunks (a header `[kind, type, id]` or a data body). `wm` is `idle`, `awaitAck` (blocked in the ACK read) or `dead` (killed by SIGPIPE). `conn`, `listed`, `bound` and `txPending` are the client's state in wmediumd. The client's side follows spec 6: one request at a time, an ACK for every frame it receives, and a `replies` history of (request id, id the response answers). |
| `MCFilter` | Refinement | `Abs == INSTANCE FilterAbstract WITH ...` maps `count < 0` to `Unlimited`. `FilterImplementsAbstract == Abs!Spec` is checked as a PROPERTY. |

### Medium actions and the code

| Action | Code |
|---|---|
| `SubmitFrame(c, s, hw, d, ft, rates)` | The whole of `_process_messages` for a frame, followed by `queue_frame`, in one action. It overwrites the hwaddr, binds an unbound station, picks the queue, computes SNR with the interference offset and fading, runs the MRR walk with every relevant `drand48()` outcome (`DrawOptions`), starts after `MediumFreeAt(ac)`, then adds the job and the queue entry. |
| `SubmitAllocFail` | The same path when `calloc` fails after the binding (lines 693-700). |
| `Deliver(id)` | `wmediumd_deliver_frame`: unlink, copies for multicast and unicast receivers, interference recording, TX status to `frame->src` with the current `sender->hwaddr`, then free. |
| `IntfUpdate` | `wmediumd_intf_update`, including the re-arm. |
| `Advance` | Idle time passing in the main loop. |
| `VhostConnected`, `VhostDisconnected`, `ApiConnected`, `ApiRegister`, `ApiUnregister`, `ApiDisconnect` | The client handlers. |
| `RemoveClient` | `wmediumd_remove_client`. |

The scheduler runs the job with the earliest start (`FirstJob`). Ties may go either way, because usfstl's tie order is not something the code relies on.

### ApiSocket actions and the code

| Action | Code |
|---|---|
| `HandleRequest` | `wmediumd_api_handler`, lines 773-843: read header and data, dispatch REGISTER/UNREGISTER/NETLINK/other, then write the response. `Respond` is the response write. A closed peer makes it either kill the process (`dead`) or fail, which takes the disconnect path (`Disconnect`, lines 841-843). |
| `HandleGarbage` | The same handler when the next bytes are a data body, left behind after a desync, and not a header. Their length field either passes the 1 MiB cap and the read fails (disconnect), or the type is unknown and the answer is INVALID. |
| `HandleEof` | `read()` returning 0 on the header. |
| `SendTxInfo`, `SendCloned` | `send_tx_info_frame_nl` and `send_cloned_frame_msg` reaching `wmediumd_send_to_client`. `WriteNetlink` is lines 401-406: header and message are written, or the write hits a closed peer. |
| `ReadAck` | Lines 407-409: the blocking `read()` of 8 bytes. It consumes whatever chunk comes next, not only an ACK. |
| `ClientRequest`, `ClientReceive`, `ClientClose` | The client (spec 6). They are not mapped to code. |

Whether SIGPIPE kills the process depends on the usfstl library, which is not in the tree, so both outcomes are modelled.

### Refinement

`MCMedium` instantiates `MediumAbstract` with this mapping:

- `clock <- now`;
- `live <- connected`;
- `got <- rx`;
- each frame of `fr` becomes its sender, destination, `src` client (the owner), job start (the due time) and status.

`MediumImplementsAbstract == AbsMedium!Spec` is then a PROPERTY. Submissions map to `Accept` and deliveries to `Deliver`. `Advance` and `IntfUpdate` map to `Tick`. Client connects and removals map to `Join` and `Leave`. Allocation failures, registrations and hwaddr changes are stuttering steps. The abstract actions constrain the next state rather than enumerate it, so the module is only used as a property.

### Abstractions

Probabilities and `drand48()` draws lie on a grid `k / (2*ProbScale)`:

- an error probability is an even point;
- a draw is any point, so every way a real draw can compare with an error probability is present, draw 0.0 included.

`per.c` (`get_error_prob_from_snr`, `index_to_rate`) and `ieee80211.h` are not in the tree. They are modelled from the spec and marked `spec_modelled` in PROJECT.json.

Milliwatts are integers in thousandths, and `milliwatt_to_dBm`'s rounding is a threshold table.

A frame payload is reduced to its type, destination and MRR table.

## Runs

| Run | Config | What it shows |
|---|---|---|
| `mrr_walk` (pass) | `MCMrr.cfg` | The loops equal the flat reference for tables of at most 2 rows, counts 0..3 and all draws and error probabilities. This includes the contention-window cap and the truncation. |
| `medium_core` (pass) | `MCMedium.cfg` | 3 stations, 3 frames, mgmt and data (AC 0 and 2), a unicast and a multicast destination, a zero-count table that produces start ties, and idle time. Checks `AirtimeNoOverlap`: every frame starts its airtime after every earlier equal-or-higher-priority frame, over all stations. Also checks `MediumImplementsAbstract`: the engine implements `MediumAbstract`, including multicast fan-out and start ties. Result: about 1.06M states in about 2 minutes. |
| `medium_clients` (pass) | `MCMediumClients.cfg` | One client of each kind, 2 stations and 2 frames. Any order of connects, registers, submissions, allocation failures, deliveries and disconnects keeps queues and jobs in step (`JobsMatchQueues`) and leaves no pointer to a freed client (`NoDanglingClient`). The run also checks `MediumImplementsAbstract` under client churn. |
| `medium_intf_windows` (pass) | `MCMediumIntf.cfg` | `IntfTracksWindows`: with interference on and one weak link (SNR 0, below CCA), under every interleaving of submissions, deliveries and the 10 ms job, each `intf[i][j]` (i # j) holds in `duration` the airtime i recorded since the last tick and in `prob` that of the window before it, the one submissions read. The horizon of 10 ms lets frames record before the first tick and be read after it. |
| `link_config` (pass) | `MCLinkConfig.cfg` | `load_config` agrees with a per-entry reference: last valid link wins in both directions, mirrored upper triangle for error probabilities, and path loss. Two stations, up to 2 links with indices -1..2 and lengths 2/3, error tables of ragged lengths, positions on a 2x2 grid. `StartupSound`: a process reaches its loop only with a loaded file, a `-c`, the log level the last `-l` names (6 without one), which is in 0..7, and exits with success only on an `-h` or `-V` that no rejected word precedes; command lines of up to 3 words with `-l` arguments `3`, `9`, empty, `-1` and `5x`. |
| `filter_refinement` (pass) | `MCFilter.cfg` | The C filter implements the abstract one, for every parse of up to 4 segments (empty segments, non-MACs, counts -1..3). |
| `medium_txstatus_to` (violation) | `MCMedium_txto.cfg` | The TX status goes to the station's first client, not the submitter. |
| `medium_txstatus_hwaddr` (violation) | `MCMedium_hwaddr.cfg` | The TX status carries a later frame's transmitter address. |
| `link_config_colocated` (violation) | `MCLinkConfig_colocated.cfg` | Colocated stations get SNR about -2^31: `log10(0)` converted to int and the subtraction wraps. |
| `api_one_request` (pass) | `ApiSocket.cfg` | With one request, the client always gets its own response (`ClientGetsOwnReply`), and every request is eventually answered unless the client closes (`RequestsAnswered`). This holds even while jobs push frames and TX status to it. |
| `api_race_progress` (pass) | `ApiSocket_progress.cfg` | With two requests, the ACK read always returns (`AckReadReturns`). Desync paths are reached, including garbage headers. |
| `api_request_race` (violation) | `ApiSocket_race.cfg` | A second request sent while a frame is being written is eaten by the ACK read. The client's own ACK is then answered INVALID, and the client takes that INVALID as its response. |

Each property of a passing run has a mutant in PROJECT.json: a plausible bug in the mapped code that TLC then finds. Examples:

- the medium scan stopping below the frame's own AC;
- removal keeping jobs or bindings;
- the interference job not re-arming;
- a one-way link write;
- the truncation off by one;
- the filter losing its zero-count test.

## Bounds

- **Three stations.** This is the least number with a third party: a receiver that is neither sender nor destination, and an interferer for `get_signal_offset_by_interference`.
- **Two or three frames.** Enough for one frame to queue behind another in the same or another AC and station, and for a start tie.
- **MRR tables of 1-2 rows.** These cover the walk's row change, the CW doubling and the truncation.
- **`MaxTime`.** 200 µs in the core run lets idle time pass before a submission, so `now` rises above zero. 10-20 ms in the interference runs covers one or two firings of the 10 ms job.
- **API socket.** `MaxReq` 1 is the single-request case. 2 is the least number that lets a request race a frame write. `MaxSends` 3 lets a TX status and cloned frames interleave with requests.
- **Clients.** One client of each kind is enough for every pairing of binder and submitter.

## Fairness

`Medium` is checked for safety only. A liveness property for it (every queued frame leaves) held by weak fairness on delivery alone, since the interference job never holds a frame back, and said nothing about the code; it was replaced by `IntfTracksWindows`. `IntfJobPending` bounds the interference job by `MaxTime`, as `Advance` bounds idle time: the job stays registered in the code for ever.

`ApiSocket` has weak fairness on:

- the handler, the EOF path and the ACK read: the loop polls the fd while data is pending;
- the TX-status send: a queued frame's delivery job runs;
- the client's receive: a live client reads its socket.

Client requests and closing are not fair. `CHECK_DEADLOCK FALSE` holds there because the bounded client stops and wmediumd then waits in its loop.

## Not modelled

- Byte-level partial reads and writes on the API socket. Chunks are atomic; only their order is modelled.
- The API disconnect path never `close()`s the fd (line 841). The fd leak is noted as a hazard, not checked.
- Oversized `tx_rates` attributes (memory corruption).
- The leaked `data` buffer in `wmediumd_api_handler`.
- Duplicate station MACs.
- libconfig parsing.
- `wserver_messages.c`: serialisation macros over structs declared in `wserver_messages.h` and `wserver_messages_network.h`. Neither header is in the tree and nothing calls it.
- netlink and vhost-user transport.
- The body of `main`'s loop beyond the scheduler (modelled in `Medium`), the usfstl library, the time-control socket and the wall-clock set-up: the library is not in the repository.
- Wiring faults of this tree, seen while modelling `main` and the medium: nothing assigns `ctx->get_fading_signal`, so the first unicast frame to a known station (line 293) calls a NULL pointer; nothing allocates `ctx->intf`, so the interference job never starts (line 1074); `main` calls `load_config` with three arguments (line 1065) while `config.c` defines two; `-x` is therefore ignored. `Medium` models fading and interference as the spec describes them.

## Planned for later sittings

- `-l 5x` is accepted as level 5 (strtoul stops at the junk); the help text says values 0 - 7. `StartupSound` states only the range, which holds.

- The combined interference offset of two interferers. It needs four stations and three frames: two that record interference, then a victim after the 10 ms job. Four stations with two frames already take about 3.5 minutes on the interference run, so this needs a dedicated, smaller harness.
- A run with aliased station MACs.
- Disagreements seen while modelling that have no run (the run limit):
  - `prob_col` can exceed 1 after a long retry chain (line 621);
  - the multicast deafening of spec 9 cannot happen, since its check is dead after the CCA test (line 563);
  - a malformed link entry is skipped, not rejected (`config.c`, line 321);
  - a no-ack frame's MRR table is truncated and flagged as ACKed (`queue_frame`, line 347);
  - a unicast frame to an unknown address is ACKed with no receiver (line 288);
  - two back-to-back frames in one queue are spaced `send_time2` apart, where the spec says `send_time1` (line 370).
