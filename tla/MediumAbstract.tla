---------------------------- MODULE MediumAbstract ----------------------------
(***************************************************************************)
(* What the wireless medium promises its clients (spec sections 4.5, 4.6   *)
(* and 5), with no queues, rates or interference: a frame is accepted      *)
(* from a live client with a due time no earlier than the present; frames *)
(* are delivered one at a time, earliest due first, exactly when due, and  *)
(* only while their client is live; a delivery hands copies to stations   *)
(* other than the sender (only the destination for a unicast frame), each *)
(* to live clients; a client's removal cancels its frames in the same     *)
(* step; time never passes a frame that is still due.                     *)
(***************************************************************************)
EXTENDS Naturals, Sequences, TLC

CONSTANTS Stations, Multicast, Clients, Ids, InitLive

VARIABLES
    clock,   \* the present
    live,    \* clients that exist
    frames,  \* [accepted ids -> [sender, dest, owner, due, fate]]
    got      \* copies handed out: [id, sta, to]

vars == <<clock, live, frames, got>>

Pending == {id \in DOMAIN frames : frames[id].fate = "queued"}

(* Time may move up to the earliest due of a pending frame.                *)
NotPast(t) == \A o \in Pending : t <= frames[o].due

Init ==
    /\ clock = 0
    /\ live = InitLive
    /\ frames = <<>>
    /\ got = {}

(* A new frame: its owner is live and it is due now or later.             *)
Accept(id) ==
    /\ id \notin DOMAIN frames
    /\ DOMAIN frames' = DOMAIN frames \cup {id}
    /\ \A o \in DOMAIN frames : frames'[o] = frames[o]
    /\ frames'[id].owner \in live
    /\ frames'[id].sender \in Stations
    /\ frames'[id].due >= clock
    /\ frames'[id].fate = "queued"
    /\ UNCHANGED <<clock, live, got>>

(* Stations a frame may reach.                                             *)
Audience(f) ==
    IF f.dest = Multicast THEN Stations \ {f.sender}
    ELSE ({f.dest} \cap Stations) \ {f.sender}

(* The earliest pending frame of a live client, exactly at its due time;   *)
(* every copy is new, for this frame, to a station of its audience and    *)
(* handed to live clients only.                                            *)
Deliver(id) ==
    LET f == frames[id]
    IN  /\ id \in Pending
        /\ f.owner \in live
        /\ NotPast(f.due)
        /\ clock <= f.due
        /\ clock' = f.due
        /\ frames' = [frames EXCEPT ![id].fate = "reported"]
        /\ got \subseteq got'
        /\ \A x \in got' \ got :
              x.id = id /\ x.sta \in Audience(f) /\ x.to \subseteq live
        /\ UNCHANGED live

(* Idle time, never past a pending frame.                                  *)
Tick ==
    /\ clock' \in Nat
    /\ clock <= clock'
    /\ NotPast(clock')
    /\ UNCHANGED <<live, frames, got>>

Join(c) ==
    /\ c \notin live
    /\ live' = live \cup {c}
    /\ UNCHANGED <<clock, frames, got>>

(* A client goes: its pending frames are cancelled with it.                *)
Leave(c) ==
    /\ c \in live
    /\ live' = live \ {c}
    /\ frames' = [id \in DOMAIN frames |->
                    IF id \in Pending /\ frames[id].owner = c
                    THEN [frames[id] EXCEPT !.fate = "cancelled"]
                    ELSE frames[id]]
    /\ UNCHANGED <<clock, got>>

Next ==
    \/ \E id \in Ids : Accept(id)
    \/ \E id \in Pending : Deliver(id)
    \/ Tick
    \/ \E c \in Clients : Join(c) \/ Leave(c)

Spec == Init /\ [][Next]_vars
=============================================================================
