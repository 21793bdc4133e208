----------------------------- MODULE LedgerLink -----------------------------
(***************************************************************************)
(* The Ledger vault down to the packets: LedgerWorker, with what happens   *)
(* between the worker and the device while it uses it.  A key is read with *)
(* one command of the Tezos app, a signature is made with several          *)
(* (pkg/vault/ledger/tezosapp); commands and replies are cut into packets  *)
(* over USB, or sent with their length over TCP (pkg/vault/ledger/ledger). *)
(*                                                                         *)
(* Replies carry no identifier, only the channel of the process that asked.*)
(* The device's packets go to every process that has it open, so packets   *)
(* for others turn up between one's own.  Sizes are scaled down: a byte is *)
(* a number, a packet holds chunkSize of them, an APDU maxAPDUSize.        *)
(***************************************************************************)
EXTENDS LedgerWorker, Integers

CONSTANTS
    chunkSize,      \* bytes of data in a packet: 59
    maxAPDUSize,    \* bytes of a message in one command: 230
    MessageLength,  \* bytes of a message to sign
    MaxOthers,      \* bound on the packets for other processes
    Nil

ASSUME LinkAssumption ==
    /\ {chunkSize, maxAPDUSize, MessageLength} \subseteq Nat \ {0}
    /\ chunkSize >= 2
    /\ maxAPDUSize <= 255
    /\ MaxOthers \in Nat

VARIABLES
    transport,  \* "usb" or "tcp"
    inbox,      \* packets the handle has received and nobody has read
    part,       \* the command under way: 0 the path, then the message's parts
    app,        \* what the app on the device has been told to sign
    out,        \* history: what the worker last answered, until it takes a request
    others      \* packets for other processes so far

linkVars == <<transport, inbox, part, app, out, others>>
allVars == <<vars, linkVars>>

insGetPublicKey == 2
insSign == 4
p1Next == 1
p1Last == 128
OkStatus == <<144, 0>>
RefusedStatus == <<105, 133>>

\* Request i is about key i; the message to sign depends on it too.
Path(i) == <<i>>
Message(i) == [n \in 1..MessageLength |-> i + n]

LinkInit ==
    /\ Init
    /\ transport \in {"usb", "tcp"}
    /\ inbox = <<>>
    /\ part = 0
    /\ app = [path |-> <<>>, data |-> <<>>]
    /\ out = Nil
    /\ others = 0

-----------------------------------------------------------------------------
(* Commands and packets. *)

Bytes(a) == <<a.ins, a.p1, Len(a.data) % 256>> \o a.data

parseAPDUResponse(buf) ==
    IF Len(buf) < 2 THEN Nil
    ELSE [data |-> SubSeq(buf, 1, Len(buf) - 2), sw |-> SubSeq(buf, Len(buf) - 1, Len(buf))]

\* writePacket: what does not fill the packet is zero.
writePacket(own, seq, buf, off) ==
    [own |-> own, seq |-> seq,
     data |-> [n \in 1..chunkSize |-> IF off + n <= Len(buf) THEN buf[off + n] ELSE 0]]

\* writeCommand: the length, in two bytes, and the data, packet by packet.
writeCommand(data) ==
    LET buf == <<Len(data) \div 256, Len(data) % 256>> \o data
        count == (Len(buf) + chunkSize - 1) \div chunkSize
    IN  [n \in 1..count |-> writePacket(TRUE, n - 1, buf, (n - 1) * chunkSize)]

\* tcpRoundTripper: the length and the data in one write.
tcpWrite(data) == <<[own |-> TRUE, seq |-> 0, data |-> data]>>

Sent(t, data) == IF t = "usb" THEN writeCommand(data) ELSE tcpWrite(data)

\* What the receiver of all these packets is told.
Received(t, packets) ==
    LET byte(k) == packets[k \div chunkSize + 1].data[(k % chunkSize) + 1]
    IN  IF t = "tcp" THEN packets[1].data
        ELSE [k \in 1..(byte(0) * 256 + byte(1)) |-> byte(k + 1)]

-----------------------------------------------------------------------------
(* App.GetPublicKey and App.Sign. *)

Parts == (MessageLength + maxAPDUSize - 1) \div maxAPDUSize

\* Mutant of Command: the message's first bytes are sent with every part.
CommandRepeats(k, i, n) ==
    LET upto == IF n * maxAPDUSize > MessageLength THEN MessageLength ELSE n * maxAPDUSize
        last == upto = MessageLength
    IN  IF k = "get" THEN [ins |-> insGetPublicKey, p1 |-> 0, data |-> Path(i)]
        ELSE IF n = 0 THEN [ins |-> insSign, p1 |-> 0, data |-> Path(i)]
        ELSE [ins |-> insSign, p1 |-> IF last THEN p1Next + p1Last ELSE p1Next,
              data |-> SubSeq(Message(i), 1, upto - (n - 1) * maxAPDUSize)]

\* The n-th command for request i of kind k: the path, then the message in parts.
Command(k, i, n) ==
    LET upto == IF n * maxAPDUSize > MessageLength THEN MessageLength ELSE n * maxAPDUSize
        last == upto = MessageLength
    IN  IF k = "get" THEN [ins |-> insGetPublicKey, p1 |-> 0, data |-> Path(i)]
        ELSE IF n = 0 THEN [ins |-> insSign, p1 |-> 0, data |-> Path(i)]
        ELSE [ins |-> insSign, p1 |-> IF last THEN p1Next + p1Last ELSE p1Next,
              data |-> SubSeq(Message(i), (n - 1) * maxAPDUSize + 1, upto)]

\* A public key in a reply: its length, a tag, and here one byte.
KeyBytes(path) == <<2, 2>> \o path
parsePublicKey(data) ==
    IF Len(data) < 2 THEN Nil
    ELSE IF data[1] > Len(data) - 1 \/ data[2] # 2 \/ data[1] # 2 THEN Nil
    ELSE SubSeq(data, 3, data[1] + 1)

\* A signature, of a fixed length, shows its key and what it signs.
SigBytes(path, data) == path \o data
parseSignature(data) == IF Len(data) = 1 + MessageLength THEN data ELSE Nil

\* What request i has to be answered with.
Due(i) == IF kind[i] = "get" THEN Path(i) ELSE SigBytes(Path(i), Message(i))

-----------------------------------------------------------------------------
(* The device. *)

\* What the app is told with the n-th command, over either transport.
Told ==
    [t \in {"usb", "tcp"} |-> [k \in {"get", "sign"} |-> [i \in Calls |-> [n \in 0..Parts |->
        Received(t, Sent(t, Bytes(Command(k, i, n))))]]]]

Untold == [path |-> <<>>, data |-> <<>>]

\* The app: a signature begins with the path, and is made when the part that
\* is marked as the last has come; any command may be refused.
Replies(cmd) ==
    LET p1 == cmd[2]
        data == SubSeq(cmd, 4, 3 + cmd[3])
        told == IF p1 = 0 THEN [path |-> data, data |-> <<>>]
                ELSE [app EXCEPT !.data = @ \o data]
        answer == IF cmd[1] = insGetPublicKey THEN KeyBytes(data)
                  ELSE IF p1 >= p1Last THEN SigBytes(told.path, told.data)
                  ELSE <<>>
    IN  {[app |-> IF cmd[1] # insSign THEN app ELSE IF p1 >= p1Last THEN Untold ELSE told,
          packets |-> Sent(transport, answer \o OkStatus)],
         [app |-> app, packets |-> Sent(transport, RefusedStatus)]}

\* A packet of a reply to another process; seq 1: the handle was opened when
\* half of that reply had been sent.  (While the device is not being used
\* nobody reads: a packet that comes then is there when it is used again.)
Other ==
    /\ transport = "usb" /\ worker = "use" /\ dev = "open" /\ others < MaxOthers
    /\ others' = others + 1
    /\ \E seq \in 0..1 :
          inbox' = Append(inbox, writePacket(FALSE, seq, <<0, 2>> \o OkStatus, 0))
    /\ UNCHANGED <<vars, transport, part, app, out>>

-----------------------------------------------------------------------------
(* One exchange: the command is written and packets are read until a reply *)
(* is complete.  It is one step: what other processes do meanwhile comes   *)
(* before the device's reply or after it.                                  *)

\* readPacket and the body of readCommand's loop: the variables after packet
\* p, bad when it does not belong to the reply.
readPacket(r, p) ==
    LET first == r.idx = 0
        len == IF first THEN p.data[1] * 256 + p.data[2] ELSE r.len
        own == IF first THEN p.own ELSE r.own
        pl == IF first THEN SubSeq(p.data, 3, Len(p.data)) ELSE p.data
        ln == IF Len(pl) > len - Len(r.data) THEN len - Len(r.data) ELSE Len(pl)
    IN  [idx |-> r.idx + 1, own |-> own, len |-> len,
         data |-> r.data \o SubSeq(pl, 1, ln),
         bad |-> p.seq # r.idx \/ p.own # own]

Complete(r) == r.idx > 0 /\ (r.bad \/ Len(r.data) = r.len)

\* The loop ends with the reply complete or an error.
readCommand(packets) ==
    LET r[n \in 0..Len(packets)] ==
            IF n = 0 THEN [idx |-> 0, own |-> TRUE, len |-> 0, data |-> <<>>, bad |-> FALSE]
            ELSE LET last == r[n - 1]
                 IN  IF Complete(last) THEN last ELSE readPacket(last, packets[n])
    IN  r[Len(packets)]

\* The TCP transport reads the length and then as much.
tcpRead(packets) ==
    [idx |-> 1, own |-> TRUE, len |-> 0, data |-> packets[1].data, bad |-> FALSE]

Reading(packets) == IF transport = "usb" THEN readCommand(packets) ELSE tcpRead(packets)

\* What Exchange returns: the reply if it is for this process, or Nil.
Exchange(r) == IF r.bad \/ ~r.own THEN Nil ELSE parseAPDUResponse(r.data)

\* What the operation makes of a reply: its result, Nil for an error.  Parts
\* of a message before the last have no result.
Result(res) ==
    IF res = Nil \/ res.sw # OkStatus THEN Nil
    ELSE IF kind[cur] = "get" THEN parsePublicKey(res.data)
    ELSE IF part = Parts THEN parseSignature(res.data)
    ELSE <<>>

More == kind[cur] = "sign" /\ part < Parts

\* The request fails, or is tried again.
Fails(rest) ==
    /\ UseFails
    /\ inbox' = rest
    /\ part' = 0
    /\ UNCHANGED <<transport, out, others>>

\* A reply to an earlier command has not been read.
Unread == \E n \in DOMAIN inbox : inbox[n].own

\* After an exchange: an error, the next part, or the answer.
Replied(got, rest) ==
    \/ got = Nil /\ Fails(rest)
    \/ /\ got # Nil /\ More
       /\ part' = part + 1 /\ inbox' = rest
       /\ UNCHANGED <<vars, transport, out, others>>
    \/ /\ got # Nil /\ ~More
       /\ UseDev
       /\ out' = [call |-> cur, is |-> got, after |-> Unread]
       /\ part' = 0 /\ inbox' = rest
       /\ UNCHANGED <<transport, others>>

Use ==
    /\ worker = "use" /\ dev = "open"
    /\ UNCHANGED <<callerVars, queue, devVars>>
    /\ \E reply \in Replies(Told[transport][kind[cur]][cur][part]) :
       \E packets \in {inbox \o reply.packets} :
       \E r \in {Reading(packets)} :
       \E got \in {Result(Exchange(r))} :
          app' = reply.app /\ Replied(got, SubSeq(packets, r.idx + 1, Len(packets)))

\* A device that is gone: writing or reading fails.
Gone == worker = "use" /\ dev = "dead" /\ Fails(inbox) /\ UNCHANGED app

-----------------------------------------------------------------------------
\* scanner.openPath: a new handle, on a channel of its own, sees nothing of
\* what was sent before.  A device that is found not to be the one looked for,
\* or whose first exchanges fail, is closed: OpenDev has both outcomes.
openPath ==
    /\ OpenDev
    /\ inbox' = <<>>
    /\ UNCHANGED <<transport, part, app, out, others>>

LinkWork ==
    \/ Take /\ out' = Nil /\ UNCHANGED <<transport, inbox, part, app, others>>
    \/ (KeepDev \/ CloseIdle) /\ UNCHANGED linkVars
    \/ openPath
    \/ Use
    \/ Gone

LinkNext ==
    \/ /\ \/ \E c \in Callers :
                \/ \E k \in {"get", "sign"} : Call(c, k)
                \/ Send(c)
                \/ Receive(c)
                \/ GiveUp(c)
          \/ Expire
          \/ DeviceReset
       /\ UNCHANGED linkVars
    \/ Other
    \/ LinkWork

\* As in LedgerWorker; the device answers every command.
LinkFairness ==
    /\ WF_allVars(LinkWork)
    /\ \A c \in Callers :
          /\ SF_allVars(Send(c) /\ UNCHANGED linkVars)
          /\ WF_allVars(Receive(c) /\ UNCHANGED linkVars)

LinkSpec == LinkInit /\ [][LinkNext]_allVars /\ LinkFairness

-----------------------------------------------------------------------------
\* A key or a signature handed out is the one of the request, put together
\* from the right packets and made of the whole message, whatever other
\* processes do with the device, and through lost devices and retries.
\* (Excepted: a handle that is kept with a reply in it nobody has read, which
\* is what is left when a packet for another process was taken for the reply
\* to the reading of a key.  That reply is then taken for the next command's.)
OwnReply == out # Nil /\ ~out.after => out.is = Due(out.call)
=============================================================================
