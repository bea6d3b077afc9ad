------------------------------ MODULE ApiSocket ------------------------------
(***************************************************************************)
(* One API-socket client of wmediumd (src/wmediumd/wmediumd.c) at the      *)
(* level of the byte stream: wmediumd_api_handler() reading requests,      *)
(* wmediumd_send_to_client() pushing frames and TX status to the client    *)
(* from scheduler jobs and then blocking in read() for the client's ACK,   *)
(* and the disconnect path.  The client is the environment: it follows the *)
(* API protocol of spec section 6 (a request, then its response; every     *)
(* NETLINK message it is sent is answered with an ACK).                    *)
(*                                                                         *)
(* Each direction of the stream socket is a sequence of chunks: a          *)
(* {type, data_len} header, and the payload that follows it.  A header     *)
(* carries the id of what it answers or starts: a request number, AckId    *)
(* for the client's ACK, Garbage for a header parsed out of payload bytes. *)
(***************************************************************************)
EXTENDS Naturals, Sequences

CONSTANTS
    Requests,     \* request types the client may send
    MaxReq,       \* bound: requests the client sends
    MaxSends,     \* bound: messages wmediumd's jobs send to the client
    CanClose      \* the client may close its socket

AckId   == 0 - 1
Garbage == 0 - 2
None    == 0

Hdr(type, id) == [k |-> "hdr", type |-> type, id |-> id]
Body(id)      == [k |-> "body", id |-> id]

VARIABLES
    toW,        \* bytes in flight client -> wmediumd
    toC,        \* bytes in flight wmediumd -> client
    wm,         \* wmediumd: "idle" in its loop, "awaitAck" blocked at the
                \* read() of wmediumd_send_to_client(), "dead" (SIGPIPE)
    conn,       \* "open", or "removed" by wmediumd_remove_client()
    listed,     \* client->list is on ctx->clients (REGISTER)
    bound,      \* a station has this client as station->client
    txPending,  \* queued frames with frame->src = this client
    sends,      \* messages the jobs have sent to this client
    cSent,      \* requests the client has sent
    cOut,       \* the client's unanswered request, or None
    cClosed,    \* the client has closed its end
    replies     \* history: [req, re] for every response the client read

vars == <<toW, toC, wm, conn, listed, bound, txPending, sends, cSent, cOut,
          cClosed, replies>>

Init ==
    /\ toW = <<>> /\ toC = <<>>
    /\ wm = "idle" /\ conn = "open"
    /\ listed = FALSE /\ bound = FALSE /\ txPending = 0 /\ sends = 0
    /\ cSent = 0 /\ cOut = None /\ cClosed = FALSE /\ replies = {}

-----------------------------------------------------------------------------
(* wmediumd_remove_client(): unbind, drop the client's queued frames,      *)
(* unlist.  The disconnect path unregisters the fd but never close()s it,  *)
(* so the client sees neither a response nor end-of-file.                  *)
Disconnect ==
    /\ conn' = "removed"
    /\ listed' = FALSE /\ bound' = FALSE /\ txPending' = 0
    /\ UNCHANGED <<wm, toC>>

(* The end of wmediumd_api_handler(): the request's effect st, then the    *)
(* response header.  Writing to a peer that has closed raises SIGPIPE,     *)
(* which wmediumd.c neither ignores nor masks with MSG_NOSIGNAL: whether   *)
(* it kills the process depends on the event-loop library, so both; if it *)
(* does not, write() fails and the handler disconnects.                    *)
Respond(st, type, re) ==
    \/ /\ ~cClosed
       /\ toC' = Append(toC, Hdr(type, re))
       /\ listed' = st.listed /\ bound' = st.bound /\ txPending' = st.txPending
       /\ UNCHANGED <<wm, conn>>
    \/ /\ cClosed
       /\ wm' = "dead"
       /\ listed' = st.listed /\ bound' = st.bound /\ txPending' = st.txPending
       /\ UNCHANGED <<conn, toC>>
    \/ cClosed /\ Disconnect

Now == [listed |-> listed, bound |-> bound, txPending |-> txPending]

(* The switch on hdr.type for a well-framed request: REGISTER and          *)
(* UNREGISTER answer INVALID when repeated; NETLINK hands the message to   *)
(* _process_messages(), which binds the sender station to this client and *)
(* queues a frame whose TX status will come back here; any other type     *)
(* (an ACK or INVALID read as a request) answers INVALID.                  *)
Dispatch(h) ==
    CASE h.type = "REGISTER" /\ ~listed ->
             [st |-> [Now EXCEPT !.listed = TRUE], resp |-> "ACK"]
      [] h.type = "UNREGISTER" /\ listed ->
             [st |-> [Now EXCEPT !.listed = FALSE], resp |-> "ACK"]
      [] h.type = "NETLINK" ->
             [st |-> [Now EXCEPT !.bound = TRUE, !.txPending = @ + 1],
              resp |-> "ACK"]
      [] OTHER -> [st |-> Now, resp |-> "INVALID"]

(* A handler whose INVALID paths return before writing the response.      *)
HandleRequestNoInvalidReply ==
    /\ wm = "idle" /\ conn = "open"
    /\ toW # <<>> /\ Head(toW).k = "hdr"
    /\ LET h    == Head(toW)
           n    == IF h.type = "NETLINK" THEN 2 ELSE 1
           d    == Dispatch(h)
       IN  /\ toW' = SubSeq(toW, n + 1, Len(toW))
           /\ IF d.resp = "INVALID"
              THEN UNCHANGED <<toC, wm, conn, listed, bound, txPending>>
              ELSE Respond(d.st, d.resp, h.id)
    /\ UNCHANGED <<sends, cSent, cOut, cClosed, replies>>

(* wmediumd_api_handler() on a readable fd whose next bytes are a header:  *)
(* read the header, read data_len bytes of payload, dispatch, respond.     *)
HandleRequest ==
    /\ wm = "idle" /\ conn = "open"
    /\ toW # <<>> /\ Head(toW).k = "hdr"
    /\ LET h    == Head(toW)
           n    == IF h.type = "NETLINK" THEN 2 ELSE 1
           d    == Dispatch(h)
       IN  /\ toW' = SubSeq(toW, n + 1, Len(toW))
           /\ Respond(d.st, d.resp, h.id)
    /\ UNCHANGED <<sends, cSent, cOut, cClosed, replies>>

(* The next bytes are payload: they are read as {type, data_len}.  The     *)
(* data_len is a netlink length/type/flags word: over the 1 MiB cap or     *)
(* more than the socket holds, the read falls short and the handler        *)
(* disconnects; otherwise the payload is read as the body of a request of  *)
(* an unknown type, answered INVALID.                                      *)
HandleGarbage ==
    /\ wm = "idle" /\ conn = "open"
    /\ toW # <<>> /\ Head(toW).k = "body"
    /\ toW' = Tail(toW)
    /\ \/ Disconnect
       \/ Respond(Now, "INVALID", Garbage)
    /\ UNCHANGED <<sends, cSent, cOut, cClosed, replies>>

(* The client has closed and everything it sent is read: read() returns 0 *)
HandleEof ==
    /\ wm = "idle" /\ conn = "open"
    /\ toW = <<>> /\ cClosed
    /\ Disconnect
    /\ UNCHANGED <<toW, sends, cSent, cOut, cClosed, replies>>

-----------------------------------------------------------------------------
(* A send that does not wait for the client's ACK.                        *)
WriteNetlinkNoAckRead ==
    /\ \/ ~cClosed /\ toC' = toC \o <<Hdr("NETLINK", None), Body(None)>>
                   /\ wm' = "idle"
       \/ cClosed /\ wm' = "dead" /\ UNCHANGED toC
       \/ cClosed /\ wm' = "idle" /\ UNCHANGED toC
    /\ sends' = sends + 1

(* A send that writes the header but not the netlink message.             *)
WriteNetlinkHeaderOnly ==
    /\ \/ ~cClosed /\ toC' = Append(toC, Hdr("NETLINK", None))
                   /\ wm' = "awaitAck"
       \/ cClosed /\ wm' = "dead" /\ UNCHANGED toC
       \/ cClosed /\ wm' = "awaitAck" /\ UNCHANGED toC
    /\ sends' = sends + 1

(* wmediumd_send_to_client(), CLIENT_API_SOCK: write the header, write the *)
(* netlink message, then block reading the ACK.  To a closed peer the      *)
(* first write() raises SIGPIPE (see Respond); ignored, both writes fail  *)
(* and the read() returns end-of-file.                                     *)
WriteNetlink ==
    /\ \/ ~cClosed /\ toC' = toC \o <<Hdr("NETLINK", None), Body(None)>>
                   /\ wm' = "awaitAck"
       \/ cClosed /\ wm' = "dead" /\ UNCHANGED toC
       \/ cClosed /\ wm' = "awaitAck" /\ UNCHANGED toC
    /\ sends' = sends + 1

(* send_tx_info_frame_nl() from the delivery job of a frame this client    *)
(* submitted (frame->src).                                                 *)
SendTxInfo ==
    /\ wm = "idle" /\ conn = "open" /\ sends < MaxSends
    /\ txPending > 0
    /\ txPending' = txPending - 1
    /\ WriteNetlink
    /\ UNCHANGED <<toW, conn, listed, bound, cSent, cOut, cClosed, replies>>

(* send_cloned_frame_msg() from a delivery job: a copy reaches the client  *)
(* of a station bound to it, or every listed client.                       *)
SendCloned ==
    /\ wm = "idle" /\ conn = "open" /\ sends < MaxSends
    /\ listed \/ bound
    /\ WriteNetlink
    /\ UNCHANGED <<toW, conn, listed, bound, txPending, cSent, cOut, cClosed,
                   replies>>

(* The read() at the end of wmediumd_send_to_client(): sizeof(hdr) bytes,  *)
(* whatever they are, are taken as the ACK.                                *)
ReadAck ==
    /\ wm = "awaitAck"
    /\ \/ toW # <<>> /\ toW' = Tail(toW)
       \/ toW = <<>> /\ cClosed /\ UNCHANGED toW
    /\ wm' = "idle"
    /\ UNCHANGED <<toC, conn, listed, bound, txPending, sends, cSent, cOut,
                   cClosed, replies>>

-----------------------------------------------------------------------------
(* The client, from the protocol of spec section 6.  It sends a request    *)
(* only when its previous one is answered.                                 *)
ClientRequest(t) ==
    /\ ~cClosed /\ cOut = None /\ cSent < MaxReq
    /\ toW' = toW \o (IF t = "NETLINK" THEN <<Hdr(t, cSent + 1), Body(cSent + 1)>>
                      ELSE <<Hdr(t, cSent + 1)>>)
    /\ cSent' = cSent + 1
    /\ cOut' = cSent + 1
    /\ UNCHANGED <<toC, wm, conn, listed, bound, txPending, sends, cClosed,
                   replies>>

(* It reads what wmediumd wrote: a NETLINK message is ACKed, a response    *)
(* answers its outstanding request.                                        *)
ClientReceive ==
    /\ ~cClosed /\ toC # <<>>
    /\ IF Head(toC).type = "NETLINK"
       THEN /\ Len(toC) >= 2
            /\ toC' = SubSeq(toC, 3, Len(toC))
            /\ toW' = Append(toW, Hdr("ACK", AckId))
            /\ UNCHANGED <<cOut, replies>>
       ELSE /\ toC' = Tail(toC)
            /\ replies' = replies \cup {[req |-> cOut, re |-> Head(toC).id]}
            /\ cOut' = None
            /\ UNCHANGED toW
    /\ UNCHANGED <<wm, conn, listed, bound, txPending, sends, cSent, cClosed>>

(* It closes its socket; bytes still in flight to it are dropped.          *)
ClientClose ==
    /\ CanClose /\ ~cClosed
    /\ cClosed' = TRUE
    /\ toC' = <<>>
    /\ UNCHANGED <<toW, wm, conn, listed, bound, txPending, sends, cSent, cOut,
                   replies>>

-----------------------------------------------------------------------------
Next ==
    \/ HandleRequest \/ HandleGarbage \/ HandleEof
    \/ SendTxInfo \/ SendCloned \/ ReadAck
    \/ \E t \in Requests : ClientRequest(t)
    \/ ClientReceive \/ ClientClose

(* The loop runs a handler whenever the fd is readable and every due job; *)
(* a queued frame's TX status is sent when its job fires.  The client is   *)
(* assumed to keep reading its socket, not to send or close.               *)
Fairness ==
    /\ WF_vars(HandleRequest) /\ WF_vars(HandleGarbage) /\ WF_vars(HandleEof)
    /\ WF_vars(SendTxInfo) /\ WF_vars(ReadAck) /\ WF_vars(ClientReceive)

Spec == Init /\ [][Next]_vars /\ Fairness

-----------------------------------------------------------------------------
(* Spec 6, "every request yields exactly one response": each response the *)
(* client reads answers the request it has outstanding -- not a stray ACK  *)
(* of its own, nor bytes of a payload that wmediumd mistook for a header.  *)
ClientGetsOwnReply == \A x \in replies : x.req = x.re

(* A request the client sends is answered, unless the client closes.      *)
RequestsAnswered ==
    \A n \in 1 .. MaxReq : (cOut = n) ~> (cOut # n \/ cClosed)

(* wmediumd's blocking read of the ACK returns: the simulation does not    *)
(* stall in wmediumd_send_to_client().                                     *)
AckReadReturns == (wm = "awaitAck") ~> (wm # "awaitAck")
=============================================================================
