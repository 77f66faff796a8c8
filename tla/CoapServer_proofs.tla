-------------------------- MODULE CoapServer_proofs --------------------------
(* What holds of the server for any packets and any table of resources. *)
EXTENDS CoapServer, TLAPS

-----------------------------------------------------------------------------
(* Type correctness *)

\* The answers without a payload have one of the codes.
LEMMA FailureCode == \A p \in Packet : Failure(p) \in Code
BY DEF Failure, Code

\* What a task may put into a buffer is a message.
LEMMA Messages ==
    /\ \A t \in Task : NoteOf(t) \in Note
    /\ \A w \in Work, payload \in Content : [of |-> w, code |-> "CONTENT", payload |-> payload] \in Message
    /\ \A p \in Packet : [of |-> p, code |-> Failure(p), payload |-> None] \in Message
<1>1. "CONTENT" \in Code
  BY DEF Code
<1> QED
  BY <1>1, FailureCode DEF Note, NoteOf, Message, Work, Content

LEMMA TypeInit == Init => TypeOK
<1> SUFFICES ASSUME Init PROVE TypeOK
  OBVIOUS
<1>1. None \in Address /\ None \in Content /\ "idle" \in Place
  BY DEF Address, Content, Place
<1>2. at \in [Task -> Place] /\ job \in [Task -> Content]
  BY <1>1 DEF Init
<1> QED
  BY <1>1, <1>2 DEF Init, TypeOK

LEMMA TypeHook == TypeOK /\ Hook => TypeOK'
<1> SUFFICES ASSUME TypeOK, Hook PROVE TypeOK'
  OBVIOUS
<1>1. \A p \in Packet : p.from \in Address
  BY DEF Address
<1>2. slot'  \in [data : Packet \cup {None}, from : Address] /\ copying' \in Packet \cup {None} /\ answers' \in Nat
  BY <1>1 DEF Hook, QueuePacket, PacketQueued, TypeOK
<1>3. coap_packet_ready' \in BOOLEAN
  BY DEF Hook, QueuePacket, PacketQueued, TypeOK
<1> QED
  BY <1>2, <1>3 DEF Hook, QueuePacket, PacketQueued, TypeOK, buffers, tasks, network

LEMMA TypeHandle == TypeOK /\ Handle => TypeOK'
<1> SUFFICES ASSUME TypeOK, Handle PROVE TypeOK'
  OBVIOUS
<1> USE Messages DEF TypeOK, Task, Place, Content, Work, Goto, Works, Finish, queue, buffers, tasks, network
<1>1. CASE IgnorePacket
  BY <1>1 DEF IgnorePacket
<1>2. ASSUME NEW p \in Packet, HandlePacket(p) PROVE TypeOK'
  <2>1. coap_packet_ready' \in BOOLEAN
    BY <1>2 DEF HandlePacket, Respond
  <2>2. [of |-> p, code |-> Failure(p), payload |-> None] \in Message /\ p \in Content
    OBVIOUS
  <2> QED
    BY <1>2, <2>1, <2>2 DEF HandlePacket, Respond
<1>3. ASSUME NEW p \in Packet, GetResource(p) PROVE TypeOK'
  BY <1>3 DEF GetResource, Encode
<1>4. ASSUME NEW p \in Packet, ResourceReturns(p) PROVE TypeOK'
  <2>1. coap_packet_ready' \in BOOLEAN
    BY <1>4 DEF ResourceReturns, Respond
  <2>2. [of |-> p, code |-> Failure(p), payload |-> None] \in Message
    OBVIOUS
  <2>3. [of |-> p, code |-> "CONTENT", payload |-> scratch] \in Message
    OBVIOUS
  <2> QED
    BY <1>4, <2>1, <2>2, <2>3 DEF ResourceReturns, Respond
<1> QED
  BY <1>1, <1>2, <1>3, <1>4 DEF Handle

LEMMA TypeSend == \A t \in Task : TypeOK /\ (SendNote(t) \/ Send(t)) => TypeOK'
<1> SUFFICES ASSUME NEW t \in Task, TypeOK, SendNote(t) \/ Send(t) PROVE TypeOK'
  OBVIOUS
<1> USE Messages DEF TypeOK, Place, Content, Work, Goto, Works, Finish, queue, buffers, tasks, network
<1>1. CASE SendNote(t)
  BY <1>1 DEF SendNote, Encode
<1>2. CASE FillRequest(t)
  BY <1>2 DEF FillRequest
<1>3. CASE DropNote(t)
  BY <1>3 DEF DropNote
<1>4. CASE WaitForBuffer(t)
  BY <1>4 DEF WaitForBuffer
<1>5. CASE ClaimBuffer(t)
  BY <1>5 DEF ClaimBuffer
<1>6. CASE BuildMessage(t)
  BY <1>6 DEF BuildMessage, Disturb, Address
<1>7. CASE InvalidAddress(t)
  BY <1>7 DEF InvalidAddress, Disturb, Address
<1>8. CASE AddressFrame(t)
  BY <1>8 DEF AddressFrame, Disturb, Address
<1>9. CASE Transmit(t)
  <2>1. coap_packet_ready' \in BOOLEAN
    BY <1>9 DEF Transmit, Sent
  <2>2. answers' \in Nat
    BY <1>9 DEF Transmit
  <2> QED
    BY <1>9, <2>1, <2>2 DEF Transmit, Sent
<1> QED
  BY <1>1, <1>2, <1>3, <1>4, <1>5, <1>6, <1>7, <1>8, <1>9 DEF Send

\* Every variable keeps to its kind.
THEOREM TypeCorrect == Spec => []TypeOK
<1>1. TypeOK /\ [Next]_vars => TypeOK'
  <2> SUFFICES ASSUME TypeOK, [Next]_vars PROVE TypeOK'
    OBVIOUS
  <2>1. CASE Hook
    BY <2>1, TypeHook
  <2>2. CASE Handle
    BY <2>2, TypeHandle
  <2>3. CASE Ethernet
    BY <2>3 DEF Ethernet, ObtainAddress, StartServer, RegisterResource, TypeOK, queue, buffers, tasks, network
  <2>4. CASE \E t \in Task : SendNote(t) \/ Send(t)
    BY <2>4, TypeSend
  <2>5. CASE UNCHANGED vars
    BY <2>5 DEF TypeOK, vars, queue, buffers, tasks, network
  <2> QED
    BY <2>1, <2>2, <2>3, <2>4, <2>5 DEF Next
<1> QED
  BY <1>1, TypeInit, PTL DEF Spec

-----------------------------------------------------------------------------
(* The inductive invariant *)

\* Where a task deals with its message, and where it has the buffer.
Sending == {"wait", "claim", "build", "address", "transmit"}
Holding == {"build", "address", "transmit"}

\* A task at rest has no job; only SYS_CMD answers packets.
JobOfPlace ==
    /\ \A t \in Task : at[t] = "idle" <=> job[t] = None
    /\ \A t \in Task : job[t] \in Note => job[t] = NoteOf(t)
    /\ job["APP"] \notin Packet

\* The slot is filled only while it is free, and keeps the packet that is answered.
SlotFilled ==
    /\ copying # None => ~coap_packet_ready /\ slot.data = copying
    /\ coap_packet_ready => slot.data \in Packet /\ slot.from = slot.data.from
    /\ job["SYS_CMD"] \in Packet => coap_packet_ready /\ slot.data = job["SYS_CMD"]

\* An answer is counted for a packet that asked for it, and frees the slot.
AnswerCounted ==
    /\ coap_packet_ready \/ copying # None => answers = 0
    /\ answers # 0 => answers = 1 /\ slot.data \in Packet /\ slot.data.type = "CON"
    /\ job["SYS_CMD"] \in Packet /\ at["SYS_CMD"] \in Sending => job["SYS_CMD"].type = "CON"

\* A task whose buffers nobody else has written finds in them what it put there.
Own(t) ==
    /\ at[t] = "encoded" => scratch = job[t]
    /\ at[t] \in Sending /\ job[t] \in Packet => reply = Made(t).message
    /\ at[t] \in {"wait", "claim", "build"} /\ job[t] \in Note => request = Made(t).message
    /\ at[t] \in {"address", "transmit"} => frame.message = Made(t).message
    /\ at[t] = "transmit" => frame.to = Made(t).to

BuffersOwn == \A t \in Task : t \notin disturbed => Own(t)

IInv == JobOfPlace /\ SlotFilled /\ AnswerCounted /\ BuffersOwn /\ BusyIsHeld

\* A packet is not a note, and neither is nothing.
LEMMA Kinds == Packet \cap Note = {} /\ None \notin Packet /\ None \notin Note
<1>1. ASSUME NEW p \in Packet PROVE p \notin Note
  <2>1. p \in [type : {"CON", "NON", "ACK"}, code : {"GET", "PUT", "OTHER"},
                path : STRING, from : STRING, form : {"plain", "malformed", "long"}]
    BY PacketAssumption
  <2>2. "type" \in DOMAIN p
    BY <2>1
  <2>3. \A n \in Note : "type" \notin DOMAIN n
    BY DEF Note
  <2> QED
    BY <2>2, <2>3
<1> QED
  BY <1>1, PacketAssumption

LEMMA JobStep == TypeOK /\ JobOfPlace /\ [Next]_vars => JobOfPlace'
<1> SUFFICES ASSUME TypeOK, JobOfPlace, [Next]_vars PROVE JobOfPlace'
  OBVIOUS
<1>1. \A t \in Task : NoteOf(t) \in Note /\ NoteOf(t) # None
  BY Messages, Kinds
<1> USE <1>1, Kinds DEF TypeOK, JobOfPlace, Task, Goto, Works, Finish
<1>2. CASE Hook \/ Ethernet \/ UNCHANGED vars
  BY <1>2 DEF Hook, QueuePacket, PacketQueued, Ethernet, ObtainAddress, StartServer, RegisterResource, tasks, vars
<1>3. CASE Handle
  BY <1>3 DEF Handle, IgnorePacket, HandlePacket, GetResource, ServedByResource, Served, Encode,
              ResourceReturns, Respond, tasks
<1>4. ASSUME NEW t \in Task, SendNote(t) \/ Send(t) PROVE JobOfPlace'
  BY <1>4 DEF SendNote, Encode, Send, FillRequest, DropNote, WaitForBuffer, ClaimBuffer,
              BuildMessage, InvalidAddress, AddressFrame, Transmit, Sent
<1> QED
  BY <1>2, <1>3, <1>4 DEF Next

\* The flag: who sets it holds the buffer, and clears it where it lets go.
LEMMA BusyStep == TypeOK /\ BusyIsHeld /\ [Next]_vars => BusyIsHeld'
<1> SUFFICES ASSUME TypeOK, BusyIsHeld, [Next]_vars, coap_send_busy'
             PROVE  \E t \in Task : at'[t] \in Holding
  BY DEF BusyIsHeld, Holding
<1> USE DEF TypeOK, BusyIsHeld, Holding, Goto, Works, Finish
<1>1. CASE Hook \/ Ethernet \/ UNCHANGED vars
  BY <1>1 DEF Hook, QueuePacket, PacketQueued, Ethernet, ObtainAddress, StartServer, RegisterResource, tasks, buffers, vars
<1>2. CASE Handle
  <2>1. at["SYS_CMD"] \in {"idle", "encoded"} /\ coap_send_busy' = coap_send_busy
    BY <1>2 DEF Handle, IgnorePacket, HandlePacket, GetResource, ServedByResource, Served, Encode,
                ResourceReturns, buffers
  <2>2. \A t \in Task \ {"SYS_CMD"} : at'[t] = at[t]
    BY <1>2 DEF Handle, IgnorePacket, HandlePacket, GetResource, Encode, ResourceReturns, Respond, tasks
  <2> QED
    BY <2>1, <2>2
<1>3. ASSUME NEW t \in Task, SendNote(t) \/ Send(t)
      PROVE  \E u \in Task : at'[u] \in Holding
  <2>1. CASE ClaimBuffer(t) \/ BuildMessage(t) \/ AddressFrame(t)
    BY <2>1 DEF ClaimBuffer, BuildMessage, AddressFrame
  <2>2. CASE InvalidAddress(t) \/ Transmit(t)
    BY <2>2 DEF InvalidAddress, Transmit, Sent
  <2>3. CASE SendNote(t) \/ FillRequest(t) \/ DropNote(t) \/ WaitForBuffer(t)
    <3>1. at[t] \notin Holding /\ coap_send_busy' = coap_send_busy
      BY <2>3 DEF SendNote, Encode, FillRequest, DropNote, WaitForBuffer, buffers
    <3>2. \A u \in Task \ {t} : at'[u] = at[u]
      BY <2>3 DEF SendNote, Encode, FillRequest, DropNote, WaitForBuffer
    <3> QED
      BY <3>1, <3>2
  <2> QED
    BY <1>3, <2>1, <2>2, <2>3 DEF Send
<1> QED
  BY <1>1, <1>2, <1>3 DEF Next

\* The slot: the hook fills it only when nothing is in it, SYS_CMD frees it only
\* when it is done with it.
LEMMA QueueStep ==
    ASSUME TypeOK, JobOfPlace, JobOfPlace', SlotFilled, AnswerCounted, [Next]_vars
    PROVE  SlotFilled' /\ AnswerCounted'
<1> USE Kinds DEF JobOfPlace, SlotFilled, AnswerCounted, Sending, Task, Goto, Works, Finish
<1>1. CASE Hook
  BY <1>1 DEF Hook, QueuePacket, PacketQueued, tasks, TypeOK
<1>2. CASE Ethernet \/ UNCHANGED vars
  BY <1>2 DEF Ethernet, ObtainAddress, StartServer, RegisterResource, tasks, queue, vars
<1>3. CASE IgnorePacket
  BY <1>3 DEF IgnorePacket, Served, tasks
<1>4. ASSUME NEW p \in Packet, HandlePacket(p) PROVE SlotFilled' /\ AnswerCounted'
  BY <1>4 DEF HandlePacket, Served, Respond, TypeOK
<1>5. ASSUME NEW p \in Packet, GetResource(p) PROVE SlotFilled' /\ AnswerCounted'
  BY <1>5 DEF GetResource, ServedByResource, Served, Encode, queue, TypeOK
<1>6. ASSUME NEW p \in Packet, ResourceReturns(p) PROVE SlotFilled' /\ AnswerCounted'
  BY <1>6 DEF ResourceReturns, Respond, TypeOK
<1>7. ASSUME NEW t \in Task, SendNote(t) \/ FillRequest(t) \/ DropNote(t) \/ InvalidAddress(t)
      PROVE  SlotFilled' /\ AnswerCounted'
  <2>1. NoteOf(t) \notin Packet
    BY Messages
  <2> QED
    BY <1>7, <2>1 DEF SendNote, Encode, FillRequest, DropNote, InvalidAddress, queue, TypeOK
<1>8. ASSUME NEW t \in Task, WaitForBuffer(t) \/ ClaimBuffer(t) \/ BuildMessage(t) \/ AddressFrame(t)
      PROVE  SlotFilled' /\ AnswerCounted'
  <2>1. at[t] \in Sending /\ UNCHANGED <<queue, job>> /\ \A u \in Task \ {t} : at'[u] = at[u]
    BY <1>8 DEF WaitForBuffer, ClaimBuffer, BuildMessage, AddressFrame, TypeOK
  <2>2. job["SYS_CMD"] \in Packet /\ at'["SYS_CMD"] \in Sending => at["SYS_CMD"] \in Sending
    BY <2>1
  <2>3. SlotFilled'
    BY <2>1 DEF queue
  <2>4. AnswerCounted'
    BY <2>1, <2>2 DEF queue
  <2> QED
    BY <2>3, <2>4
<1>9. ASSUME NEW t \in Task, Transmit(t) PROVE SlotFilled' /\ AnswerCounted'
  <2>1. at[t] = "transmit" /\ job'[t] = None /\ UNCHANGED <<slot, copying>>
    BY <1>9 DEF Transmit, Sent, TypeOK
  <2>2. \A u \in Task \ {t} : at'[u] = at[u] /\ job'[u] = job[u]
    BY <1>9 DEF Transmit, Sent, TypeOK
  <2>3. CASE job[t] \in Note
    <3>1. UNCHANGED <<coap_packet_ready, answers>>
      BY <1>9, <2>3 DEF Transmit, Sent
    <3>2. SlotFilled'
      BY <2>1, <2>2, <3>1
    <3>3. AnswerCounted'
      BY <2>1, <2>2, <3>1
    <3> QED
      BY <3>2, <3>3
  <2>4. CASE job[t] \notin Note
    <3>1. t = "SYS_CMD" /\ job[t] \in Packet
      BY <2>1, <2>4 DEF TypeOK, Content, Work
    <3>2. coap_packet_ready' = FALSE /\ answers' \in {0, 1} /\ copying = None
      BY <1>9, <2>4, <3>1 DEF Transmit, Sent
    <3>3. job'["SYS_CMD"] \notin Packet /\ slot.data \in Packet /\ slot.data.type = "CON"
      BY <2>1, <3>1
    <3>4. SlotFilled'
      BY <2>1, <3>2, <3>3
    <3>5. AnswerCounted'
      BY <2>1, <3>2, <3>3
    <3> QED
      BY <3>4, <3>5
  <2> QED
    BY <2>3, <2>4
<1> QED
  BY <1>1, <1>2, <1>3, <1>4, <1>5, <1>6, <1>7, <1>8, <1>9 DEF Next, Handle, Send

\* A task is not disturbed by steps that write nothing it still has to read.
LEMMA OwnKept ==
    ASSUME NEW u \in Task, Own(u), at'[u] = at[u], job'[u] = job[u],
           at[u] = "encoded" => scratch' = scratch,
           at[u] \in Sending /\ job[u] \notin Note => reply' = reply,
           at[u] \in {"wait", "claim", "build"} /\ job[u] \in Note => request' = request,
           at[u] \in {"address", "transmit"} => frame'.message = frame.message,
           at[u] = "transmit" => frame' = frame
    PROVE  Own(u)'
<1>1. at[u] \in {"wait", "claim", "build", "address", "transmit"} => at[u] \in Sending
  BY DEF Sending
<1>2. job[u] \in Note => Made(u)' = Made(u)
  BY DEF Made
<1>3. at[u] \in Sending => Made(u)' = Made(u)
  BY <1>2 DEF Made
<1>4. CASE at[u] = "encoded"
  BY <1>4 DEF Own, Sending
<1>5. CASE at[u] \in Sending
  <2>1. Made(u)' = Made(u) /\ at[u] # "encoded"
    BY <1>3, <1>5 DEF Sending
  <2>2. job[u] \in Packet => reply' = Made(u)'.message
    BY <1>5, <2>1, Kinds DEF Own
  <2>3. at[u] \in {"wait", "claim", "build"} /\ job[u] \in Note => request' = Made(u)'.message
    BY <2>1 DEF Own
  <2>4. at[u] \in {"address", "transmit"} => frame'.message = Made(u)'.message
    BY <2>1 DEF Own
  <2>5. at[u] = "transmit" => frame'.to = Made(u)'.to
    BY <2>1 DEF Own
  <2> QED
    BY <2>1, <2>2, <2>3, <2>4, <2>5 DEF Own
<1>6. CASE at[u] \notin Sending /\ at[u] # "encoded"
  BY <1>1, <1>6 DEF Own
<1> QED
  BY <1>4, <1>5, <1>6

LEMMA OwnHandle ==
    ASSUME TypeOK, JobOfPlace, BuffersOwn, Handle
    PROVE  BuffersOwn'
<1> USE DEF TypeOK, Goto, Works, Finish
<1>1. ASSUME "APP" \notin disturbed' PROVE Own("APP")'
  <2>1. "APP" \notin disturbed /\ (at["APP"] = "encoded" => scratch' = scratch)
    BY <1>1 DEF Handle, IgnorePacket, HandlePacket, GetResource, Encode, ResourceReturns, buffers, Task
  <2>2. at'["APP"] = at["APP"] /\ job'["APP"] = job["APP"] /\ UNCHANGED <<request, frame>>
    BY DEF Handle, IgnorePacket, HandlePacket, GetResource, Encode, ResourceReturns, Respond, buffers, tasks, Task
  <2>3. at["APP"] \in Sending => job["APP"] \in Note
    BY Kinds DEF JobOfPlace, Sending, Task, Content, Work
  <2> QED
    BY <2>1, <2>2, <2>3, OwnKept DEF BuffersOwn, Task
<1>2. ASSUME "SYS_CMD" \notin disturbed' PROVE Own("SYS_CMD")'
  <2>1. CASE IgnorePacket
    BY <1>2, <2>1, OwnKept DEF IgnorePacket, buffers, tasks, BuffersOwn, Task
  <2>2. ASSUME NEW p \in Packet, HandlePacket(p) PROVE Own("SYS_CMD")'
    <3>1. Failure(p) # "CONTENT" /\ p \notin Note
      BY Kinds DEF Failure
    <3>2. CASE p.type = "CON"
      <4>1. at'["SYS_CMD"] = "wait" /\ job'["SYS_CMD"] = p /\ reply' = [of |-> p, code |-> Failure(p), payload |-> None]
        BY <2>2, <3>2 DEF HandlePacket, Respond, Task
      <4> QED
        BY <3>1, <4>1 DEF Own, Made
    <3>3. CASE p.type # "CON"
      <4>1. at'["SYS_CMD"] = "idle"
        BY <2>2, <3>3 DEF HandlePacket, Respond, Task
      <4> QED
        BY <4>1 DEF Own, Sending
    <3> QED
      BY <3>2, <3>3
  <2>3. ASSUME NEW p \in Packet, GetResource(p) PROVE Own("SYS_CMD")'
    BY <2>3 DEF GetResource, Encode, Own, Sending, Task
  <2>4. ASSUME NEW p \in Packet, ResourceReturns(p) PROVE Own("SYS_CMD")'
    <3>1. Failure(p) # "CONTENT" /\ p \notin Note
      BY Kinds DEF Failure
    <3>2. scratch = p
      BY <1>2, <2>4 DEF ResourceReturns, buffers, BuffersOwn, Own, Task
    <3>3. CASE p.type = "CON"
      <4>1. at'["SYS_CMD"] = "wait" /\ job'["SYS_CMD"] = p
        BY <2>4, <3>3 DEF ResourceReturns, Respond, Task
      <4>2. \/ reply' = [of |-> p, code |-> Failure(p), payload |-> None]
            \/ reply' = [of |-> p, code |-> "CONTENT", payload |-> p]
        BY <2>4, <3>2, <3>3 DEF ResourceReturns, Respond
      <4> QED
        BY <3>1, <4>1, <4>2 DEF Own, Made
    <3>4. CASE p.type # "CON"
      <4>1. at'["SYS_CMD"] = "idle"
        BY <2>4, <3>4 DEF ResourceReturns, Respond, Task
      <4> QED
        BY <4>1 DEF Own, Sending
    <3> QED
      BY <3>3, <3>4
  <2> QED
    BY <2>1, <2>2, <2>3, <2>4 DEF Handle
<1> QED
  BY <1>1, <1>2 DEF BuffersOwn, Task

\* What the other task does to a task that is not disturbed by it.
LEMMA OwnOther ==
    ASSUME NEW t \in Task, NEW u \in Task \ {t}, TypeOK, JobOfPlace, BuffersOwn,
           SendNote(t) \/ Send(t), u \notin disturbed'
    PROVE  Own(u)'
<1> USE DEF TypeOK, Goto, Works, Finish, Disturb
<1>1. at'[u] = at[u] /\ job'[u] = job[u]
  BY DEF SendNote, Encode, Send, FillRequest, DropNote, WaitForBuffer, ClaimBuffer, BuildMessage,
         InvalidAddress, AddressFrame, Transmit, Sent
<1>2. at[u] \in Sending /\ job[u] \notin Note => reply' = reply
  <2>1. at[u] \in Sending /\ job[u] \notin Note => t # "SYS_CMD"
    BY Kinds DEF JobOfPlace, Sending, Task, Content, Work
  <2>2. t # "SYS_CMD" => reply' = reply
    <3>1. CASE SendNote(t) \/ FillRequest(t) \/ WaitForBuffer(t) \/ ClaimBuffer(t) \/ BuildMessage(t) \/ AddressFrame(t)
      BY <3>1 DEF SendNote, Encode, FillRequest, WaitForBuffer, ClaimBuffer, BuildMessage, AddressFrame
    <3>2. CASE DropNote(t) \/ InvalidAddress(t) \/ Transmit(t)
      BY <3>2 DEF DropNote, InvalidAddress, Transmit, Sent
    <3> QED
      BY <3>1, <3>2 DEF Send
  <2> QED
    BY <2>1, <2>2
<1>3. u \notin disturbed /\ (at[u] = "encoded" => scratch' = scratch)
  BY DEF SendNote, Encode, Send, FillRequest, DropNote, WaitForBuffer, ClaimBuffer, BuildMessage,
         InvalidAddress, AddressFrame, Transmit, Sent, buffers
<1>4. at[u] \in {"wait", "claim", "build"} /\ job[u] \in Note => request' = request
  BY DEF SendNote, Encode, Send, FillRequest, DropNote, WaitForBuffer, ClaimBuffer, BuildMessage,
         InvalidAddress, AddressFrame, Transmit, Sent, buffers
<1>5. /\ at[u] \in {"address", "transmit"} => frame'.message = frame.message
      /\ at[u] = "transmit" => frame' = frame
  <2>1. CASE AddressFrame(t)
    BY <2>1 DEF AddressFrame
  <2>2. CASE ~AddressFrame(t)
    <3>1. at[u] \in {"address", "transmit"} => frame' = frame
      BY <2>2 DEF SendNote, Encode, Send, FillRequest, DropNote, WaitForBuffer, ClaimBuffer, BuildMessage,
                  InvalidAddress, Transmit, Sent, buffers
    <3> QED
      BY <3>1
  <2> QED
    BY <2>1, <2>2
<1> QED
  BY <1>1, <1>2, <1>3, <1>4, <1>5, OwnKept DEF BuffersOwn

\* What a task that is not disturbed does to itself.
LEMMA OwnSend ==
    ASSUME NEW t \in Task, TypeOK, JobOfPlace, SlotFilled, BuffersOwn,
           SendNote(t) \/ Send(t), t \notin disturbed'
    PROVE  Own(t)'
<1> USE Kinds DEF TypeOK, Goto, Works, Finish, Disturb
<1>1. CASE SendNote(t)
  BY <1>1 DEF SendNote, Encode, Own, Sending
<1>2. CASE FillRequest(t)
  <2>1. job[t] = NoteOf(t) /\ job[t] \in Note /\ scratch = job[t]
    BY <1>2 DEF FillRequest, JobOfPlace, BuffersOwn, Own
  <2> QED
    BY <1>2, <2>1 DEF FillRequest, Own, Made
<1>3. CASE DropNote(t) \/ InvalidAddress(t) \/ Transmit(t)
  BY <1>3 DEF DropNote, InvalidAddress, Transmit, Sent, Own, Sending
<1>4. CASE WaitForBuffer(t) \/ ClaimBuffer(t)
  <2>1. at[t] \in {"wait", "claim"} /\ at'[t] \in {"claim", "build"} /\ UNCHANGED <<job, reply, request>> /\ Own(t)
    BY <1>4 DEF WaitForBuffer, ClaimBuffer, BuffersOwn, buffers
  <2>2. Made(t)' = Made(t)
    BY <2>1 DEF Made
  <2> QED
    BY <2>1, <2>2 DEF Own, Sending
<1>5. CASE BuildMessage(t)
  <2>1. at[t] = "build" /\ at'[t] = "address" /\ UNCHANGED <<job, reply>> /\ Own(t)
    BY <1>5 DEF BuildMessage, BuffersOwn
  <2>2. Made(t)' = Made(t)
    BY <2>1 DEF Made
  <2>3. job[t] \in Packet \cup Note
    BY <2>1 DEF JobOfPlace, Content, Work
  <2>4. (IF job[t] \in Note THEN request ELSE reply) = Made(t).message
    BY <2>1, <2>3 DEF Own, Sending
  <2>5. frame'.message = Made(t).message
    BY <1>5, <2>4 DEF BuildMessage
  <2>6. job[t] \in Packet => reply' = Made(t).message
    BY <2>1 DEF Own, Sending
  <2> QED
    BY <2>1, <2>2, <2>5, <2>6 DEF Own
<1>6. CASE AddressFrame(t)
  <2>1. at[t] = "address" /\ at'[t] = "transmit" /\ UNCHANGED <<job, reply>> /\ Own(t)
    BY <1>6 DEF AddressFrame, BuffersOwn
  <2>2. Made(t)' = Made(t)
    BY <2>1 DEF Made
  <2>3. job[t] \notin Note => job[t] = slot.data /\ slot.from = job[t].from
    BY <2>1 DEF JobOfPlace, SlotFilled, Content, Work, Task
  <2>4. frame'.to = Made(t).to
    BY <1>6, <2>3 DEF AddressFrame, Made
  <2>5. frame'.message = Made(t).message
    BY <1>6, <2>1 DEF AddressFrame, Own
  <2>6. job[t] \in Packet => reply' = Made(t).message
    BY <2>1 DEF Own, Sending
  <2> QED
    BY <2>1, <2>2, <2>4, <2>5, <2>6 DEF Own
<1> QED
  BY <1>1, <1>2, <1>3, <1>4, <1>5, <1>6 DEF Send

LEMMA OwnStep == TypeOK /\ JobOfPlace /\ SlotFilled /\ BuffersOwn /\ [Next]_vars => BuffersOwn'
<1> SUFFICES ASSUME TypeOK, JobOfPlace, SlotFilled, BuffersOwn, [Next]_vars
             PROVE  BuffersOwn'
  OBVIOUS
<1>1. CASE Hook \/ Ethernet \/ UNCHANGED vars
  <2>1. UNCHANGED <<buffers, tasks>>
    BY <1>1 DEF Hook, QueuePacket, PacketQueued, Ethernet, ObtainAddress, StartServer, RegisterResource, vars
  <2> QED
    BY <2>1, OwnKept DEF buffers, tasks, BuffersOwn
<1>2. CASE Handle
  BY <1>2, OwnHandle
<1>3. ASSUME NEW t \in Task, SendNote(t) \/ Send(t) PROVE BuffersOwn'
  BY <1>3, OwnOther, OwnSend DEF BuffersOwn
<1> QED
  BY <1>1, <1>2, <1>3 DEF Next

-----------------------------------------------------------------------------
\* The strengthened invariant of the slot, the flag and the buffers holds in
\* every state: no property below is inductive without it.
THEOREM Invariance == Spec => []IInv
<1>1. Init => IInv
  <2> SUFFICES ASSUME Init PROVE IInv
    OBVIOUS
  <2>1. JobOfPlace /\ SlotFilled /\ BusyIsHeld
    BY Kinds DEF Init, JobOfPlace, SlotFilled, BusyIsHeld, Task
  <2>2. AnswerCounted
    BY Kinds DEF Init, AnswerCounted, Sending, Task
  <2>3. BuffersOwn
    BY DEF Init, BuffersOwn, Own, Sending
  <2> QED
    BY <2>1, <2>2, <2>3 DEF IInv
<1>2. TypeOK /\ IInv /\ [Next]_vars => IInv'
  BY JobStep, BusyStep, QueueStep, OwnStep DEF IInv
<1> QED
  BY <1>1, <1>2, TypeCorrect, PTL DEF Spec

\* No early return, refused frame or race of coap_send_packet_response and
\* coap_send_message leaves coap_send_busy set with nobody to clear it.
THEOREM BusyReleased == Spec => []BusyIsHeld
BY Invariance, PTL DEF IInv

\* A task whose buffers the other has not written since gives the driver its own
\* message, payload and address; a packet that arrives never gets into the answer
\* to the one in the slot.
THEOREM OwnSent == Spec => []SendsOwn
<1>1. TypeOK /\ BuffersOwn => SendsOwn
  <2> SUFFICES ASSUME TypeOK, BuffersOwn, NEW t \in Task, at[t] = "transmit", t \notin disturbed
               PROVE  frame = Made(t)
    BY DEF SendsOwn
  <2>1. frame.message = Made(t).message /\ frame.to = Made(t).to
    BY DEF BuffersOwn, Own
  <2>2. frame = [to |-> frame.to, message |-> frame.message]
    BY DEF TypeOK
  <2>3. Made(t) = [to |-> Made(t).to, message |-> Made(t).message]
    BY DEF Made
  <2> QED
    BY <2>1, <2>2, <2>3
<1> QED
  BY <1>1, TypeCorrect, Invariance, PTL DEF IInv

\* coap_packet_queue_task answers a packet at most once each time it is received,
\* and only if it is confirmable.
THEOREM OneAnswer == Spec => []AnsweredOnce
<1>1. TypeOK /\ AnswerCounted => AnsweredOnce
  BY Kinds DEF TypeOK, AnswerCounted, AnsweredOnce
<1> QED
  BY <1>1, TypeCorrect, Invariance, PTL DEF IInv
=============================================================================
