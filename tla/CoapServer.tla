----------------------------- MODULE CoapServer -----------------------------
(***************************************************************************)
(* The CoAP server (src/coap.c) between the packet hook of the TCP/IP      *)
(* stack and the Ethernet driver (src/ethernet.c).  One received packet    *)
(* waits in a slot for the SYS_CMD task, which answers it; SYS_CMD and the *)
(* APP task also send notes of their own: events, status and tag requests. *)
(* All of them encode into one buffer, the notes are put together in one   *)
(* structure, and all frames are built in one place behind a flag that is  *)
(* tested in one step and set in another.                                  *)
(***************************************************************************)
EXTENDS Integers

CONSTANTS
    Packet,     \* records: type, code, path, from, form
    Resource,   \* the paths in the table of resources
    None,       \* an empty buffer
    Everyone    \* the broadcast address

Task == {"SYS_CMD", "APP"}
Note == [by : Task]
NoteOf(t) == [by |-> t]

ASSUME PacketAssumption ==
    /\ Packet \subseteq [type : {"CON", "NON", "ACK"}, code : {"GET", "PUT", "OTHER"},
                         path : STRING, from : STRING, form : {"plain", "malformed", "long"}]
    /\ None \notin Packet \cup Note

VARIABLES
    coap_packet_ready,
    slot,             \* coap_current_packet: the message, and whom it is from
    copying,          \* what the packet hook is copying into the slot
    answers,          \* history: how often the packet in the slot was answered
    coap_send_busy,
    frame,            \* coap_response_packet: the message, and whom it is to
    scratch,          \* resource_cbor_buffer: whose payload it holds
    request,          \* coap_request_message
    disturbed,        \* history: the tasks whose buffer another has written since
    reply,            \* the response on the stack of SYS_CMD
    at, job,          \* of each task: where it is; the packet or note it works on
    has_ip, is_server, registered

queue == <<coap_packet_ready, slot, copying, answers>>
buffers == <<coap_send_busy, frame, scratch, request, disturbed>>
tasks == <<reply, at, job>>
network == <<has_ip, is_server, registered>>
vars == <<queue, buffers, tasks, network>>

Work == Packet \cup Note
Content == Work \cup {None}
Code == {"CONTENT", "CHANGED", "NOT_FOUND", "BAD_REQUEST", "EMPTY"}
\* Whose token a message has, and whose payload.
Message == [of : Work, code : Code, payload : Content]

Goto(t, place) == at' = [at EXCEPT ![t] = place]
Works(t, w) == job' = [job EXCEPT ![t] = w]
Finish(t) == Goto(t, "idle") /\ Works(t, None) /\ reply' = IF t = "SYS_CMD" THEN None ELSE reply

\* A write to a buffer that another task has written at these places and not
\* read yet.
Disturb(t, places) == disturbed' = disturbed \cup {u \in Task \ {t} : at[u] \in places}

-----------------------------------------------------------------------------
(* The packet hook, in the task of the TCP/IP stack *)

\* A packet that is too long or finds the slot taken is dropped.
QueuePacket(p) ==
    /\ copying = None /\ ~coap_packet_ready /\ p.form # "long"
    /\ copying' = p /\ slot' = [data |-> p, from |-> slot.from] /\ answers' = 0
    /\ UNCHANGED <<coap_packet_ready, buffers, tasks, network>>

PacketQueued ==
    /\ copying # None
    /\ slot' = [data |-> slot.data, from |-> copying.from]
    /\ coap_packet_ready' = TRUE /\ copying' = None
    /\ UNCHANGED <<answers, buffers, tasks, network>>

-----------------------------------------------------------------------------
(* coap_handle_packet, in SYS_CMD *)

\* Mutant of Respond: a packet that asks for no answer stays in the slot.
Respond_KeepsPacket(p, m) ==
    /\ IF p.type = "CON" THEN Goto("SYS_CMD", "wait") /\ Works("SYS_CMD", p) /\ reply' = m
                         ELSE Finish("SYS_CMD")
    /\ UNCHANGED coap_packet_ready

\* Only a confirmable request is answered.
Respond(p, m) ==
    IF p.type = "CON"
    THEN /\ Goto("SYS_CMD", "wait") /\ Works("SYS_CMD", p) /\ reply' = m
         /\ UNCHANGED coap_packet_ready
    ELSE Finish("SYS_CMD") /\ coap_packet_ready' = FALSE

\* Mutant of Failure: the code of the request is sent back.
Failure_Echo(p) == p.code

\* The code of an answer without a payload.  The result of a handler is only
\* looked at if the request is a GET.
Failure(p) ==
    IF p.code = "PUT" THEN IF p.path \in registered THEN "CHANGED" ELSE "BAD_REQUEST"
    ELSE IF p.code = "GET" \/ p.path \notin registered THEN "NOT_FOUND" ELSE "EMPTY"

Served(p) == coap_packet_ready /\ at["SYS_CMD"] = "idle" /\ slot.data = p
ServedByResource(p) == Served(p) /\ p.form = "plain" /\ p.code = "GET" /\ p.path \in registered

\* A message that cannot be parsed, or comes before the server was started.
IgnorePacket ==
    /\ \E p \in Packet : Served(p) /\ (p.form # "plain" \/ ~is_server)
    /\ coap_packet_ready' = FALSE
    /\ UNCHANGED <<slot, copying, answers, buffers, tasks, network>>

HandlePacket(p) ==
    /\ Served(p) /\ p.form = "plain" /\ is_server /\ ~ServedByResource(p)
    /\ Respond(p, [of |-> p, code |-> Failure(p), payload |-> None])
    /\ disturbed' = disturbed \ {"SYS_CMD"}
    /\ UNCHANGED <<slot, copying, answers, coap_send_busy, frame, scratch, request, network>>

\* Encoding a payload is the first that a task does for its message.
Encode(t, w) ==
    /\ Goto(t, "encoded") /\ Works(t, w) /\ scratch' = w
    /\ disturbed' = (disturbed \ {t}) \cup {u \in Task \ {t} : at[u] = "encoded"}
    /\ UNCHANGED <<coap_send_busy, frame, request, reply, network>>

\* Mutant of GetResource: the slot is given back before the answer is sent.
GetResource_Early(p) ==
    /\ ServedByResource(p) /\ Encode("SYS_CMD", p)
    /\ coap_packet_ready' = FALSE /\ UNCHANGED <<slot, copying, answers>>

\* A resource encodes its state.
GetResource(p) == ServedByResource(p) /\ Encode("SYS_CMD", p) /\ UNCHANGED queue

\* It is copied into the response, unless the encoding failed.
ResourceReturns(p) ==
    /\ at["SYS_CMD"] = "encoded" /\ job["SYS_CMD"] = p
    /\ \/ Respond(p, [of |-> p, code |-> "CONTENT", payload |-> scratch])
       \/ Respond(p, [of |-> p, code |-> Failure(p), payload |-> None])
    /\ UNCHANGED <<slot, copying, answers, buffers, network>>

-----------------------------------------------------------------------------
(* Notes: event_send_key_value_coap_message, network_send_request_coap_message *)

SendNote(t) == at[t] = "idle" /\ Encode(t, NoteOf(t)) /\ UNCHANGED queue

FillRequest(t) ==
    /\ at[t] = "encoded" /\ job[t] \in Note
    /\ request' = [of |-> NoteOf(t), code |-> "CONTENT", payload |-> scratch]
    /\ Goto(t, "wait")
    /\ disturbed' = disturbed \cup {u \in Task \ {t} : job[u] \in Note /\ at[u] \in {"wait", "claim", "build"}}
    /\ UNCHANGED <<queue, coap_send_busy, frame, scratch, reply, job, network>>

\* The payload cannot be encoded, or there is no address yet.
DropNote(t) ==
    /\ job[t] \in Note
    /\ at[t] = "encoded" \/ (at[t] = "wait" /\ ~has_ip)
    /\ Finish(t)
    /\ UNCHANGED <<queue, buffers, network>>

-----------------------------------------------------------------------------
(* coap_send_packet_response and coap_send_message *)

\* A task that finds the flag set sleeps and looks again.
WaitForBuffer(t) ==
    /\ at[t] = "wait" /\ ~coap_send_busy /\ (job[t] \in Note => has_ip)
    /\ Goto(t, "claim")
    /\ UNCHANGED <<queue, buffers, reply, job, network>>

ClaimBuffer(t) ==
    /\ at[t] = "claim" /\ Goto(t, "build")
    /\ coap_send_busy' = TRUE
    /\ UNCHANGED <<queue, frame, scratch, request, disturbed, reply, job, network>>

\* The buffers are cleared and the message is built.
BuildMessage(t) ==
    /\ at[t] = "build" /\ Goto(t, "address")
    /\ frame' = [to |-> None, message |-> IF job[t] \in Note THEN request ELSE reply]
    /\ Disturb(t, {"address", "transmit"})
    /\ UNCHANGED <<queue, coap_send_busy, scratch, request, reply, job, network>>

\* Mutant of InvalidAddress: returns with the flag set.
InvalidAddress_KeepsBusy(t) ==
    /\ at[t] = "build" /\ job[t] \in Note
    /\ frame' = [to |-> None, message |-> None]
    /\ Disturb(t, {"address", "transmit"})
    /\ Finish(t)
    /\ UNCHANGED <<queue, coap_send_busy, scratch, request, network>>

\* What a note is to be sent to is no address.
InvalidAddress(t) ==
    /\ at[t] = "build" /\ job[t] \in Note
    /\ coap_send_busy' = FALSE
    /\ frame' = [to |-> None, message |-> None]
    /\ Disturb(t, {"address", "transmit"})
    /\ Finish(t)
    /\ UNCHANGED <<queue, scratch, request, network>>

\* The headers are filled in.
AddressFrame(t) ==
    /\ at[t] = "address" /\ Goto(t, "transmit")
    /\ frame' = [to |-> IF job[t] \in Note THEN Everyone ELSE slot.from,
                 message |-> frame.message]
    /\ Disturb(t, {"transmit"})
    /\ UNCHANGED <<queue, coap_send_busy, scratch, request, reply, job, network>>

\* Mutant of Sent: an answered packet stays in the slot.
Sent_KeepsPacket(t) == coap_send_busy' = FALSE /\ Finish(t) /\ UNCHANGED coap_packet_ready

\* Both functions return with the flag cleared, and SYS_CMD frees the slot.
Sent(t) ==
    /\ coap_send_busy' = FALSE /\ Finish(t)
    /\ IF job[t] \in Note THEN UNCHANGED coap_packet_ready ELSE coap_packet_ready' = FALSE

\* ethernet_send takes the frame, or refuses it: no link, a stream that is open,
\* no memory, a busy driver.
Transmit(t) ==
    /\ at[t] = "transmit" /\ Sent(t)
    /\ answers' \in {answers, IF job[t] \in Note THEN answers ELSE answers + 1}
    /\ UNCHANGED <<slot, copying, frame, scratch, request, disturbed, network>>

-----------------------------------------------------------------------------
(* The Ethernet task *)

\* With the first address the server is started; its resources follow.
ObtainAddress ==
    /\ ~has_ip /\ has_ip' = TRUE
    /\ UNCHANGED <<queue, buffers, tasks, is_server, registered>>

StartServer ==
    /\ has_ip /\ ~is_server /\ is_server' = TRUE
    /\ UNCHANGED <<queue, buffers, tasks, has_ip, registered>>

RegisterResource(r) ==
    /\ is_server /\ r \notin registered
    /\ registered' = registered \cup {r}
    /\ UNCHANGED <<queue, buffers, tasks, has_ip, is_server>>

-----------------------------------------------------------------------------
Init ==
    /\ coap_packet_ready = FALSE /\ slot = [data |-> None, from |-> None] /\ copying = None
    /\ answers = 0
    /\ coap_send_busy = FALSE /\ frame = [to |-> None, message |-> None]
    /\ scratch = None /\ request = None /\ disturbed = {}
    /\ reply = None /\ at = [t \in Task |-> "idle"] /\ job = [t \in Task |-> None]
    /\ has_ip = FALSE /\ is_server = FALSE /\ registered = {}

Hook == PacketQueued \/ \E p \in Packet : QueuePacket(p)

Handle == IgnorePacket \/ \E p \in Packet : HandlePacket(p) \/ GetResource(p) \/ ResourceReturns(p)

Send(t) ==
    \/ FillRequest(t) \/ DropNote(t) \/ WaitForBuffer(t) \/ ClaimBuffer(t) \/ BuildMessage(t)
    \/ InvalidAddress(t) \/ AddressFrame(t) \/ Transmit(t)

Ethernet == ObtainAddress \/ StartServer \/ \E r \in Resource : RegisterResource(r)

Next == Hook \/ Handle \/ Ethernet \/ \E t \in Task : SendNote(t) \/ Send(t)

\* SYS_CMD looks at the slot in every round, and a task goes on with the message
\* it has begun.  One that polls the flag finds it clear if it looks often enough.
Fairness ==
    /\ SF_vars(Handle)
    /\ \A t \in Task : WF_vars(Send(t)) /\ SF_vars(WaitForBuffer(t))

Spec == Init /\ [][Next]_vars
FairSpec == Spec /\ Fairness

-----------------------------------------------------------------------------
(* Properties *)

Place == {"idle", "encoded", "wait", "claim", "build", "address", "transmit"}
Address == {p.from : p \in Packet} \cup {None, Everyone}

\* Every variable holds a value of its kind.
TypeOK ==
    /\ coap_packet_ready \in BOOLEAN /\ copying \in Packet \cup {None}
    /\ slot \in [data : Packet \cup {None}, from : Address] /\ answers \in Nat
    /\ coap_send_busy \in BOOLEAN
    /\ frame \in [to : Address, message : Message \cup {None}]
    /\ scratch \in Content /\ request \in Message \cup {None} /\ disturbed \subseteq Task
    /\ reply \in Message \cup {None} /\ at \in [Task -> Place] /\ job \in [Task -> Content]
    /\ has_ip \in BOOLEAN /\ is_server \in BOOLEAN /\ registered \subseteq Resource

\* The flag is set only while a task builds or sends a frame: no early return,
\* refused frame or race leaves it set, which would stop both tasks for ever
\* (coap.c:484-564, 893-1026).
BusyIsHeld == coap_send_busy => \E t \in Task : at[t] \in {"build", "address", "transmit"}

\* What a task has to send: its note, to everyone, or the answer to its packet,
\* to whom that came from.
Made(t) ==
    IF job[t] \in Note
    THEN [to |-> Everyone, message |-> [of |-> job[t], code |-> "CONTENT", payload |-> job[t]]]
    ELSE [to |-> job[t].from,
          message |-> [of |-> job[t], code |-> reply.code,
                       payload |-> IF reply.code = "CONTENT" THEN job[t] ELSE None]]

\* The driver is given the task's own message, with its own payload, to its own
\* address, however long the task slept for the buffer, unless the other task has
\* written to a shared buffer meanwhile.  In particular a packet that is received
\* never gets into the answer to the one before (coap.c:611-664).
SendsOwn == \A t \in Task : at[t] = "transmit" /\ t \notin disturbed => frame = Made(t)

\* A packet is answered at most once each time it is received, and only if it asks
\* for an answer (coap.c:375-377, 654-664).
AnsweredOnce == answers <= IF slot.data # None /\ slot.data.type = "CON" THEN 1 ELSE 0

\* The slot is freed for the next packet, also when SYS_CMD has to wait for the buffer
\* (coap.c:490-492, 654-664).
QueueDrains == coap_packet_ready ~> ~coap_packet_ready

\* The APP task, which also feeds the watchdog, gets its note out or drops it
\* (coap.c:905-908).
NoteEnds == at["APP"] # "idle" ~> at["APP"] = "idle"
=============================================================================
