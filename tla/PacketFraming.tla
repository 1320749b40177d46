--------------------------- MODULE PacketFraming ----------------------------
(***************************************************************************)
(* One direction of a connection: packets, each a length of Header bytes   *)
(* and a text, written to a byte stream that arrives in pieces, and the    *)
(* callback that takes packets from what has arrived.  The reader is the   *)
(* server (thread_read_cb) or the client (readyReadHandler); they differ   *)
(* in what they do with a length out of range and with a text that does    *)
(* not parse.                                                              *)
(*                                                                         *)
(* The stream is not kept byte by byte: a position in it is a number, and  *)
(* each packet knows the position of its first byte.                       *)
(***************************************************************************)
EXTENDS Integers, Sequences

CONSTANTS
    Header,       \* bytes of the length, 4 in the code
    Sizes,        \* lengths of the texts that are sent
    MaxPacket,    \* MAX_PACKET_SIZE, 10 MB in the code
    Misread,      \* what Header bytes that are not a length may read as
    MaxPackets    \* bound: packets sent

ASSUME HeaderAssumption == Header \in Nat \ {0}
ASSUME SizesAssumption == Sizes \subseteq Nat \ {0} /\ Misread \subseteq Int
ASSUME PacketAssumption == MaxPacket \in Nat /\ MaxPackets \in Nat

VARIABLES
    reader,     \* who reads this direction: "server" or "client"
    sent,       \* the packets written, in order
    written,    \* bytes written to the stream
    arrived,    \* of these, bytes that have come to the reader's buffer
    taken,      \* of these, bytes taken from the buffer
    handed,     \* the numbers of the packets handed to the dispatch on "cmd"
    reading     \* the read callback is running

framingVars == <<reader, sent, written, arrived, taken, handed, reading>>

Packet == [at : Nat, size : Sizes, parses : BOOLEAN]

FramingTypeOK ==
    /\ reader \in {"server", "client"}
    /\ sent \in Seq(Packet)
    /\ written \in Nat
    /\ arrived \in 0..written
    /\ taken \in 0..arrived
    /\ handed \in Seq(1..Len(sent))
    /\ reading \in BOOLEAN

FramingInit ==
    /\ reader \in {"server", "client"}
    /\ sent = <<>>
    /\ written = 0
    /\ arrived = 0
    /\ taken = 0
    /\ handed = <<>>
    /\ reading = FALSE

------------------------------------------------------------------------------
\* clinet_write_data and thread_write_data: the length and the text in one
\* write.  Not every text a Qt client writes does jsoncpp parse (half of a
\* surrogate pair), and nothing limits the size of a picture or a file.
Framed(size) == Header + size

Send ==
    /\ Len(sent) < MaxPackets
    /\ \E size \in Sizes, parses \in BOOLEAN :
          /\ sent' = Append(sent, [at |-> written, size |-> size, parses |-> parses])
          /\ written' = written + Framed(size)
    /\ UNCHANGED <<reader, arrived, taken, handed, reading>>

\* Some more bytes come in and the event loop runs the read callback.
Arrive ==
    /\ ~reading
    /\ \E n \in (arrived + 1)..written : arrived' = n
    /\ reading' = TRUE
    /\ UNCHANGED <<reader, sent, written, taken, handed>>

------------------------------------------------------------------------------
Available == arrived - taken
Here(i) == sent[i].at = taken
InFrame == \E i \in 1..Len(sent) : Here(i)

\* What the callback reads as the length.  With fewer than Header bytes it takes
\* nothing: the client checks that first, and the server's evbuffer_copyout
\* fills the low-order bytes of a zero, so that packet_size is not negative and
\* available is below 4 + packet_size.
Length(n) ==
    /\ Available >= Header
    /\ \/ \E i \in 1..Len(sent) : Here(i) /\ n = sent[i].size
       \/ ~InFrame /\ n \in Misread

Complete(n) == Available >= Header + n

InRange(n) == 0 < n /\ n <= MaxPacket

\* The packet is taken out of the buffer, length and text.
TakenNone(n) == taken   \* Mutant: it is copied out and stays.
TakenWith(n) == taken + Header + n

\* The callback returns: there is no complete packet.
Wait ==
    /\ reading
    /\ \/ Available < Header
       \/ \E n \in Sizes \union Misread : Length(n) /\ ~Complete(n)
    /\ reading' = FALSE
    /\ UNCHANGED <<reader, sent, written, arrived, taken, handed>>

\* A packet whose text parses is dispatched, and the loop goes on.
Returns == FALSE   \* Mutant: the callback takes one packet.
Goes == TRUE

HandOver ==
    /\ reading
    /\ \E i \in 1..Len(sent) :
          /\ Here(i) /\ Length(sent[i].size)
          /\ Complete(sent[i].size) /\ InRange(sent[i].size)
          /\ sent[i].parses
          /\ taken' = TakenWith(sent[i].size)
          /\ handed' = Append(handed, i)
    /\ reading' = Goes
    /\ UNCHANGED <<reader, sent, written, arrived>>

\* A packet whose text does not parse, or what was cut out of the middle of one.
\* The server's callback returns, the client's loop goes on.
Discard ==
    /\ reading
    /\ \E n \in Sizes \union Misread :
          /\ Length(n) /\ Complete(n) /\ InRange(n)
          /\ \A i \in 1..Len(sent) : Here(i) => ~sent[i].parses
          /\ taken' = TakenWith(n)
    /\ reading' = (reader = "client")
    /\ UNCHANGED <<reader, sent, written, arrived, handed>>

\* A length out of range: the client skips the length, the server nothing.
Rejected == IF reader = "client" THEN taken + Header ELSE taken

Reject ==
    /\ reading
    /\ \E n \in Sizes \union Misread : Length(n) /\ Complete(n) /\ ~InRange(n)
    /\ taken' = Rejected
    /\ reading' = FALSE
    /\ UNCHANGED <<reader, sent, written, arrived, handed>>

Read == Wait \/ HandOver \/ Discard \/ Reject

\* All packets of the bound have arrived, and the callback has returned.
Quiet == /\ ~reading /\ Len(sent) = MaxPackets /\ arrived = written
         /\ UNCHANGED framingVars

FramingNext == Send \/ Arrive \/ Read \/ Quiet

FramingSpec == FramingInit /\ [][FramingNext]_framingVars

\* While the connection stands what was written arrives, and a callback that
\* runs goes on.
FairFramingSpec == FramingSpec /\ WF_framingVars(Arrive) /\ WF_framingVars(Read)

------------------------------------------------------------------------------
\* The server is always at the first byte of a packet, or at the end of the
\* stream, when it reads a length; the client is until it meets a length out of
\* range.
InStep ==
    \/ InFrame \/ taken = written
    \/ reader = "client" /\ \E i \in 1..Len(sent) : sent[i].at < taken /\ ~InRange(sent[i].size)

\* A packet that parses is handed over in the end if every packet up to it has a
\* size in range and, on the server, those before it parse.
Deliverable(i) ==
    /\ i \in 1..Len(sent) /\ sent[i].parses
    /\ \A j \in 1..i : InRange(sent[j].size)
    /\ reader = "server" => \A j \in 1..i : sent[j].parses

EveryPacketHanded ==
    \A i \in 1..MaxPackets :
        Deliverable(i) ~> \E k \in 1..Len(handed) : handed[k] = i

\* Both readers hand packets over in order, each once, and pass over none but
\* what does not parse, until one comes whose size is out of range.
Kind(p) == IF ~InRange(p.size) THEN "oversized"
           ELSE IF p.parses THEN "good" ELSE "unparsable"

Queue == INSTANCE PacketQueue WITH packets <- [i \in 1..Len(sent) |-> Kind(sent[i])]

IsPacketQueue == Queue!QueueSpec
==============================================================================
