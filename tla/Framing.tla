------------------------------- MODULE Framing -------------------------------
(***************************************************************************)
(* The layers that shadowsocks puts on a connection: the AEAD records of   *)
(* shadowaead, the key stream of shadowstream, and the TLS or HTTP dress   *)
(* of simple-obfs.  Each is a net.Conn that makes a stream of bytes out of *)
(* another one, so each is modelled alone, over TCP that delivers what was *)
(* sent in pieces of any size, and may break off.                          *)
(*                                                                         *)
(* A cell is the unit that a layer reads with one io.ReadFull, or one byte *)
(* of payload: "k" is the nonce or the position in the key stream that it  *)
(* was sealed with, "n" a length, or the byte's number in the stream.  Our *)
(* writer and our reader of a cipher are the two ends of one stream, the   *)
(* server's being alike.  simple-obfs is asymmetric: our reader is given   *)
(* the frames of a server, and our writer is read by one (external).       *)
(***************************************************************************)
EXTENDS Naturals, Sequences

CONSTANTS
  MaxRecord, \* payloadSizeMask, bufSize of shadowstream, chunkSize of the TLS dress
  MaxBytes   \* bound: bytes of the stream

ASSUME FramingAssumption == MaxRecord \in Nat \ {0} /\ MaxBytes \in Nat

Capacities == {1, MaxRecord + 1} \* a small buffer, and one that holds a record

VARIABLES
  layer,    \* "aead", "stream", "tls" or "http"
  writer,   \* "write", or "readFrom": one ReadFrom call (io.Copy)
  reader,   \* "read", "writeTo": one WriteTo call, or "server" of our obfs writer
  written,  \* bytes that Write was given or ReadFrom has read
  todo,     \* bytes of the Write call that are not sealed yet
  wkey,     \* the writer's nonce or key stream position
  wfirst,   \* it has not sent its salt, IV or first frame
  wire,     \* cells sent and not arrived
  fin,      \* no more will be sent
  broken,   \* the connection broke off before the end
  arrived,  \* cells that the reader can take
  rkey,     \* the reader's nonce or position
  rfirst,   \* it has not read the salt, IV or first frame
  need,     \* aead: size of the record whose payload comes next; tls: remain
  rbuf,     \* decrypted, or read ahead, and not returned
  got,      \* returned by Read, or written by WriteTo
  end,      \* how reading ended
  zeroAt,   \* history: where in the stream a record without payload was sent
  foreign   \* history: the hello that was sent is not, or not only, our own

writerVars == <<written, todo, wkey, wfirst, zeroAt>>
readerVars == <<rkey, rfirst, need, rbuf, got, end>>
modes == <<layer, writer, reader>>
vars == <<modes, writerVars, wire, fin, broken, arrived, readerVars, foreign>>

Obfs == layer \in {"tls", "http"}

Init ==
  /\ layer \in {"aead", "stream", "tls", "http"}
  /\ writer \in {"write", "readFrom"}
  /\ reader \in IF Obfs THEN {"read", "server"} ELSE {"read", "writeTo"}
  /\ Obfs => writer = "write"
  /\ written = 0 /\ todo = 0 /\ wkey = 0 /\ wfirst = TRUE
  /\ wire = <<>> /\ fin = FALSE /\ broken = FALSE /\ arrived = <<>>
  /\ rkey = 0 /\ rfirst = TRUE /\ need = 0 /\ rbuf = <<>> /\ got = <<>> /\ end = "open"
  /\ zeroAt = {} /\ foreign = FALSE

Cell(t, k, n) == [t |-> t, k |-> k, n |-> n]
Bytes(from, n) == [i \in 1..n |-> from + i]
Least(a, b) == IF a < b THEN a ELSE b

-----------------------------------------------------------------------------
(* Writing.  written - todo bytes have been sealed.                        *)

Sealed == written - todo
CanWrite == ~fin /\ todo = 0 /\ written < MaxBytes

(* A Write call of n bytes; the loop over its pieces follows.  For n = 0   *)
(* see AeadWriteEmpty, InitStreamWriter and HTTPWrite; TLSObfs then sends  *)
(* nothing.                                                                *)
Write(n) ==
  /\ writer = "write" /\ CanWrite
  /\ n > 0 /\ written + n <= MaxBytes
  /\ written' = written + n
  /\ todo' = n
  /\ UNCHANGED <<modes, wkey, wfirst, wire, fin, broken, arrived, readerVars, zeroAt, foreign>>

(* initWriter: the salt or the IV, in a Write of its own.                  *)
InitAeadWriter ==
  /\ layer = "aead"
  /\ wfirst /\ (todo > 0 \/ writer = "readFrom") /\ ~fin
  /\ wire' = Append(wire, Cell("salt", 0, 0))
  /\ wfirst' = FALSE
  /\ UNCHANGED <<modes, written, todo, wkey, fin, broken, arrived, readerVars, zeroAt, foreign>>

(* A Write of nothing sends the IV, too, and no more.                      *)
InitStreamWriter ==
  /\ layer = "stream"
  /\ wfirst /\ ~fin
  /\ wire' = Append(wire, Cell("iv", 0, 0))
  /\ wfirst' = FALSE
  /\ UNCHANGED <<modes, written, todo, wkey, fin, broken, arrived, readerVars, zeroAt, foreign>>

(* Size and payload, sealed with consecutive nonces.                       *)
Record(k, from, n) ==
  <<Cell("size", k, n)>> \o [i \in 1..n |-> Cell("data", k + 1, from + i)] \o <<Cell("tag", k + 1, n)>>

AeadWrite ==
  /\ layer = "aead" /\ ~wfirst /\ todo > 0
  /\ LET nr == Least(MaxRecord, todo)
     IN  /\ wire' = wire \o Record(wkey, Sealed, nr)
         /\ todo' = todo - nr
  /\ wkey' = wkey + 2
  /\ UNCHANGED <<modes, written, wfirst, fin, broken, arrived, readerVars, zeroAt, foreign>>

(* Writer.Write of nothing: a size of 0 and no payload, with one nonce.    *)
(* Bound: once at a place of the stream.                                   *)
AeadWriteEmpty ==
  /\ layer = "aead" /\ writer = "write" /\ ~fin /\ todo = 0
  /\ written \notin zeroAt
  /\ wire' = wire \o (IF wfirst THEN <<Cell("salt", 0, 0)>> ELSE <<>>) \o <<Cell("size", wkey, 0)>>
  /\ wfirst' = FALSE
  /\ wkey' = wkey + 1
  /\ zeroAt' = zeroAt \cup {written}
  /\ UNCHANGED <<modes, written, todo, fin, broken, arrived, readerVars, foreign>>

(* One round of ReadFrom: whatever the source's Read returns is a record,  *)
(* one without payload if its end comes alone; the writer is then          *)
(* half-closed.                                                            *)
AeadReadFrom ==
  /\ layer = "aead" /\ writer = "readFrom" /\ ~wfirst /\ ~fin
  /\ \E nr \in 0..Least(MaxRecord, MaxBytes - written) :
       /\ wire' = wire \o Record(wkey, written, nr)
       /\ written' = written + nr
       /\ fin' \in {TRUE, nr = 0}
       /\ zeroAt' = IF nr = 0 THEN zeroAt \cup {written} ELSE zeroAt
  /\ wkey' = wkey + 2
  /\ UNCHANGED <<modes, todo, wfirst, broken, arrived, readerVars, foreign>>

Encrypted(k, from, n) == [i \in 1..n |-> Cell("data", k + i, from + i)]

StreamWrite ==
  /\ layer = "stream" /\ ~wfirst /\ todo > 0
  /\ LET nw == Least(MaxRecord, todo)
     IN  /\ wire' = wire \o Encrypted(wkey, Sealed, nw)
         /\ wkey' = wkey + nw
         /\ todo' = todo - nw
  /\ UNCHANGED <<modes, written, wfirst, fin, broken, arrived, readerVars, zeroAt, foreign>>

StreamReadFrom ==
  /\ layer = "stream" /\ writer = "readFrom" /\ ~wfirst /\ ~fin
  /\ \E nr \in 0..Least(MaxRecord, MaxBytes - written) :
       /\ wire' = wire \o Encrypted(wkey, written, nr)
       /\ wkey' = wkey + nr
       /\ written' = written + nr
       /\ fin' \in {TRUE, nr = 0}
  /\ UNCHANGED <<modes, todo, wfirst, broken, arrived, readerVars, zeroAt, foreign>>

Plain(from, n) == [i \in 1..n |-> Cell("data", 0, from + i)]

(* makeClientHelloMsg: the bytes travel as the session ticket, whose       *)
(* length the server finds in the hello.  The message's buffer is back in  *)
(* the pool before it is sent (bufferpool.Put is deferred there): another  *)
(* connection may have overwritten it with what is no hello.               *)
ClientHello(from, n) ==
  { <<Cell("hello", 0, n)>> \o Plain(from, n),
    [i \in 1..n + 1 |-> Cell("overwritten", 0, 0)] }

(* ... or be writing its own hello there, cut off where ours ended: its    *)
(* length, and bytes of it (0) or still of ours.  No server can tell.      *)
ForeignHello(from, n) ==
  { <<Cell("hello", 0, m)>> \o [i \in 1..n |-> Cell("data", 0, IF i \in own THEN from + i ELSE 0)] :
      m \in 1..MaxRecord, own \in SUBSET (1..n) }

SendHello(from, n) ==
  \/ (\E hello \in ClientHello(from, n) : wire' = wire \o hello) /\ UNCHANGED foreign
  \/ (\E hello \in ForeignHello(from, n) : wire' = wire \o hello) /\ foreign' = TRUE

SendFrame(from, n) ==
  /\ wire' = wire \o <<Cell("type", 0, 0), Cell("len", 0, n)>> \o Plain(from, n)
  /\ UNCHANGED foreign

(* Mutation of TLSWrite: only one chunk is written.                        *)
TLSWriteOneChunk ==
  /\ layer = "tls" /\ reader = "server" /\ todo > 0
  /\ LET n == Least(MaxRecord, todo)
     IN  /\ IF wfirst THEN SendHello(Sealed, n) ELSE SendFrame(Sealed, n)
         /\ todo' = 0
  /\ wfirst' = FALSE
  /\ UNCHANGED <<modes, written, wkey, fin, broken, arrived, readerVars, zeroAt>>

(* TLSObfs.Write: chunk by chunk, the first one in the ClientHello.        *)
TLSWrite ==
  /\ layer = "tls" /\ reader = "server" /\ todo > 0
  /\ LET n == Least(MaxRecord, todo)
     IN  /\ IF wfirst THEN SendHello(Sealed, n) ELSE SendFrame(Sealed, n)
         /\ todo' = todo - n
  /\ wfirst' = FALSE
  /\ UNCHANGED <<modes, written, wkey, fin, broken, arrived, readerVars, zeroAt>>

(* HTTPObfs.Write: the first bytes, or none, are the body of a request.    *)
HTTPWrite ==
  /\ layer = "http" /\ reader = "server"
  /\ todo > 0 \/ (wfirst /\ ~fin)
  /\ wire' = wire \o (IF wfirst THEN <<Cell("request", 0, todo)>> ELSE <<>>) \o Plain(Sealed, todo)
  /\ todo' = 0
  /\ wfirst' = FALSE
  /\ UNCHANGED <<modes, written, wkey, fin, broken, arrived, readerVars, zeroAt, foreign>>

(* The server's frames, of any size (external): type and version, before   *)
(* the first one the whole handshake; or an HTTP response, then raw bytes. *)
ServerFrame ==
  /\ Obfs /\ reader = "read" /\ todo > 0
  /\ \E n \in 1..todo :
       LET head == IF layer = "tls" THEN <<Cell(IF wfirst THEN "handshake" ELSE "type", 0, 0), Cell("len", 0, n)>>
                   ELSE IF wfirst THEN <<Cell("header", 0, 0), Cell("crlf", 0, 0)>>
                   ELSE <<>>
       IN  /\ wire' = wire \o head \o Plain(Sealed, n)
           /\ todo' = todo - n
  /\ wfirst' = FALSE
  /\ UNCHANGED <<modes, written, wkey, fin, broken, arrived, readerVars, zeroAt, foreign>>

CloseWrite ==
  /\ writer = "write" /\ ~fin /\ todo = 0
  /\ fin' = TRUE
  /\ UNCHANGED <<modes, writerVars, wire, broken, arrived, readerVars, foreign>>

-----------------------------------------------------------------------------
(* TCP.                                                                    *)

Arrive ==
  /\ wire # <<>>
  /\ arrived' = Append(arrived, Head(wire))
  /\ wire' = Tail(wire)
  /\ UNCHANGED <<modes, writerVars, fin, broken, readerVars, foreign>>

(* The sender is gone, or a middlebox ends the connection properly: what   *)
(* is on the wire does not arrive, and the reader sees the end.            *)
Break ==
  /\ ~broken
  /\ broken' = TRUE /\ fin' = TRUE
  /\ wire' = <<>>
  /\ todo' = 0
  /\ written' = Sealed
  /\ UNCHANGED <<modes, wkey, wfirst, arrived, readerVars, zeroAt, foreign>>

-----------------------------------------------------------------------------
(* Reading.                                                                *)

Reading == end = "open"
NoMore(k) == fin /\ wire = <<>> /\ Len(arrived) < k
Take(k) == arrived' = SubSeq(arrived, k + 1, Len(arrived))
First(k) == SubSeq(arrived, 1, k)
Numbers(cells) == [i \in 1..Len(cells) |-> cells[i].n]

(* Read returns as much of what is ready as its caller has room for and    *)
(* keeps the rest; WriteTo writes all of it.                               *)
Returns(ready) ==
  \E c \in IF reader = "read" THEN Capacities ELSE {MaxRecord + 1} :
    LET n == Least(c, Len(ready))
    IN  /\ got' = got \o SubSeq(ready, 1, n)
        /\ rbuf' = SubSeq(ready, n + 1, Len(ready))

(* initReader.                                                             *)
InitAeadReader ==
  /\ layer = "aead"
  /\ Reading /\ rfirst /\ arrived # <<>>
  /\ Take(1)
  /\ rfirst' = FALSE
  /\ UNCHANGED <<modes, writerVars, wire, fin, broken, rkey, need, rbuf, got, end, foreign>>

InitStreamReader ==
  /\ layer = "stream"
  /\ Reading /\ rfirst /\ arrived # <<>>
  /\ Take(1)
  /\ rfirst' = FALSE
  /\ UNCHANGED <<modes, writerVars, wire, fin, broken, rkey, need, rbuf, got, end, foreign>>

(* Reader.read up to the size: a nonce is used, and 0 is an error.         *)
AeadReadSize ==
  /\ layer = "aead" /\ Reading /\ ~rfirst /\ rbuf = <<>> /\ need = 0
  /\ arrived # <<>>
  /\ Take(1)
  /\ rkey' = rkey + 1
  /\ LET c == Head(arrived)
     IN  /\ end' = IF c.t # "size" \/ c.k # rkey THEN "garbled" ELSE IF c.n = 0 THEN "zero chunk" ELSE "open"
         /\ need' = c.n
  /\ UNCHANGED <<modes, writerVars, wire, fin, broken, rfirst, rbuf, got, foreign>>

(* Mutation of AeadReadPayload: what does not fit is dropped.              *)
AeadReadPayloadDropping ==
  /\ layer = "aead" /\ Reading /\ need > 0
  /\ Len(arrived) > need
  /\ Take(need + 1)
  /\ rkey' = rkey + 1
  /\ need' = 0
  /\ \E c \in Capacities : got' = got \o Numbers(First(Least(c, need)))
  /\ UNCHANGED <<modes, writerVars, wire, fin, broken, rfirst, rbuf, end, foreign>>

(* ... and the payload with its tag.                                       *)
AeadReadPayload ==
  /\ layer = "aead" /\ Reading /\ need > 0
  /\ Len(arrived) > need
  /\ Take(need + 1)
  /\ rkey' = rkey + 1
  /\ need' = 0
  /\ IF \A i \in 1..need + 1 : arrived[i].k = rkey
     THEN Returns(Numbers(First(need))) /\ UNCHANGED end
     ELSE end' = "garbled" /\ UNCHANGED <<got, rbuf>>
  /\ UNCHANGED <<modes, writerVars, wire, fin, broken, rfirst, foreign>>

(* Read of what an earlier call has left.                                  *)
ReadBuffered ==
  /\ layer = "aead" /\ Reading /\ rbuf # <<>>
  /\ Returns(rbuf)
  /\ UNCHANGED <<modes, writerVars, wire, fin, broken, arrived, rkey, rfirst, need, end, foreign>>

(* One Read of the connection, of any size.                                *)
StreamRead ==
  /\ layer = "stream" /\ Reading /\ ~rfirst
  /\ \E n \in 1..Least(Len(arrived), MaxRecord + 1) :
       /\ Take(n)
       /\ rkey' = rkey + n
       /\ got' = got \o [i \in 1..n |-> IF arrived[i].k = rkey + i THEN arrived[i].n ELSE 0]
  /\ UNCHANGED <<modes, writerVars, wire, fin, broken, rfirst, need, rbuf, end, foreign>>

(* io.ReadFull into the caller's buffer: what came before the end of the   *)
(* connection is returned with the error.                                  *)
ReadFull(n) ==
  LET k == Least(n, Len(arrived))
  IN  /\ k = n \/ (k > 0 /\ NoMore(n))
      /\ got' = got \o Numbers(First(k))
      /\ Take(k)
      /\ end' = IF k = n THEN "open" ELSE "unexpected eof"

(* TLSObfs.read: the head of a frame.  A frame that is longer than b is    *)
(* read once, and remain says what is left of it; a shorter one is read    *)
(* completely.                                                             *)
TLSReadFrame ==
  /\ layer = "tls" /\ reader = "read" /\ Reading /\ need = 0
  /\ Len(arrived) > 2
  /\ \E c \in Capacities :
       LET length == arrived[2].n
           most   == Least(c, Len(arrived) - 2)
       IN  \/ /\ length > c
              /\ \E n \in 1..most :
                   /\ got' = got \o Numbers(SubSeq(arrived, 3, n + 2))
                   /\ need' = length - n
                   /\ Take(n + 2)
              /\ UNCHANGED end
           \/ /\ length <= c
              /\ Len(arrived) >= length + 2 \/ NoMore(length + 2)
              /\ end' = IF Len(arrived) >= length + 2 THEN "open" ELSE "unexpected eof"
              /\ got' = got \o Numbers(SubSeq(arrived, 3, Least(length + 2, Len(arrived))))
              /\ need' = 0
              /\ Take(length + 2)
  /\ rfirst' = FALSE
  /\ UNCHANGED <<modes, writerVars, wire, fin, broken, rkey, rbuf, foreign>>

TLSReadRest ==
  /\ layer = "tls" /\ reader = "read" /\ Reading /\ need > 0
  /\ \E c \in Capacities :
       LET n == Least(c, need)
       IN  /\ ReadFull(n)
           /\ need' = need - Least(n, Len(arrived))
  /\ UNCHANGED <<modes, writerVars, wire, fin, broken, rkey, rfirst, rbuf, foreign>>

(* The server of our obfs writer (external): it takes the hello or the     *)
(* request, then frames or raw bytes, by the lengths it finds in them.     *)
ServerReads ==
  /\ reader = "server" /\ Reading /\ arrived # <<>>
  /\ LET c == Head(arrived)
         misplaced == IF c.t = "data" THEN need = 0 /\ layer = "tls" ELSE need > 0 \* or swallowed
     IN  /\ end' = IF c.t = "overwritten" THEN "overwritten" ELSE IF misplaced THEN "garbled" ELSE "open"
         /\ need' = IF c.t = "data" THEN (IF need > 0 THEN need - 1 ELSE 0) ELSE c.n
         /\ got' = IF c.t = "data" THEN Append(got, c.n) ELSE got
  /\ Take(1)
  /\ UNCHANGED <<modes, writerVars, wire, fin, broken, rkey, rfirst, rbuf, foreign>>

(* HTTPObfs.Read, the first time: one Read, which must hold all of the     *)
(* response's header; otherwise the stream is over.                        *)
HTTPReadHeader ==
  /\ layer = "http" /\ reader = "read" /\ Reading /\ rfirst /\ rbuf = <<>>
  /\ \E n \in 1..Len(arrived) :
       /\ Take(n)
       /\ IF n = 1
          THEN end' = "eof" /\ UNCHANGED <<rfirst, got, rbuf>>
          ELSE rfirst' = FALSE /\ Returns(Numbers(SubSeq(arrived, 3, n))) /\ UNCHANGED end
  /\ UNCHANGED <<modes, writerVars, wire, fin, broken, rkey, need, foreign>>

HTTPReadBuffered ==
  /\ layer = "http" /\ reader = "read" /\ Reading /\ rbuf # <<>>
  /\ Returns(rbuf)
  /\ UNCHANGED <<modes, writerVars, wire, fin, broken, arrived, rkey, rfirst, need, end, foreign>>

HTTPRead ==
  /\ layer = "http" /\ reader = "read" /\ Reading /\ ~rfirst /\ rbuf = <<>>
  /\ \E n \in 1..Least(Len(arrived), MaxRecord + 1) :
       /\ Take(n)
       /\ got' = got \o Numbers(First(n))
  /\ UNCHANGED <<modes, writerVars, wire, fin, broken, rkey, rfirst, need, rbuf, end, foreign>>

(* How many cells the next io.ReadFull or Read waits for.                  *)
Wanted ==
  CASE layer = "aead" /\ need > 0 -> need + 1
    [] layer = "tls" /\ reader = "read" /\ need = 0 -> 3
    [] OTHER -> 1

(* The end of the connection: io.ReadFull says EOF when nothing was read,  *)
(* before a payload too; TLSObfs hides an end before the length and says   *)
(* EOF at the next read.                                                   *)
ReadEnd ==
  /\ Reading /\ rbuf = <<>>
  /\ NoMore(Wanted)
  /\ end' = IF arrived = <<>> \/ (layer = "tls" /\ need = 0) THEN "eof" ELSE "unexpected eof"
  /\ arrived' = <<>>
  /\ UNCHANGED <<modes, writerVars, wire, fin, broken, rkey, rfirst, need, rbuf, got, foreign>>

Writing ==
  \/ \E n \in 1..MaxBytes : Write(n)
  \/ InitAeadWriter \/ AeadWrite \/ AeadWriteEmpty \/ AeadReadFrom
  \/ InitStreamWriter \/ StreamWrite \/ StreamReadFrom
  \/ TLSWrite \/ HTTPWrite
  \/ ServerFrame \/ CloseWrite
Reader ==
  \/ InitAeadReader \/ AeadReadSize \/ AeadReadPayload \/ ReadBuffered
  \/ InitStreamReader \/ StreamRead
  \/ TLSReadFrame \/ TLSReadRest
  \/ HTTPReadHeader \/ HTTPReadBuffered \/ HTTPRead
  \/ ServerReads
  \/ ReadEnd

Next == Writing \/ Arrive \/ Break \/ Reader

(* TCP delivers, the reader's copy reads on, a started Write is finished.  *)
Fairness ==
  /\ WF_vars(Arrive) /\ WF_vars(Reader)
  /\ WF_vars(todo > 0 /\ (InitAeadWriter \/ AeadWrite \/ InitStreamWriter \/ StreamWrite
                          \/ TLSWrite \/ HTTPWrite \/ ServerFrame))
Spec == Init /\ [][Next]_vars /\ Fairness

-----------------------------------------------------------------------------
(* The header of the HTTP response has not come in one piece: HTTPObfs     *)
(* takes the rest of the stream for ended (http.go:46-48).                 *)
HeaderSplit == layer = "http" /\ reader = "read" /\ rfirst /\ end = "eof"

(* A Write of nothing ends the stream of an AEAD reader (stream.go:123).   *)
ZeroChunk == end = "zero chunk" /\ writer = "write"

Truncated == broken \/ HeaderSplit \/ ZeroChunk \/ end = "overwritten" \/ foreign

(* What the other end reads is what was written: every byte once and in    *)
(* its place, whatever the sizes of the records, of the segments and of    *)
(* the callers' buffers (shadowaead and shadowstream Write, ReadFrom, Read *)
(* and WriteTo, both obfs Conns).  Nonces and key stream positions never   *)
(* get out of step, no record is taken for another, and short of a broken  *)
(* connection the reader is told of an end only after the last byte.  A    *)
(* record without payload, which the reader reports as an error, is sent   *)
(* by ReadFrom after everything, and by a Write of nothing just there: the *)
(* reader has every byte before it and stops.  The exception is a stream   *)
(* to a TLS dress's server that began with another connection's hello.     *)
StreamIntact ==
  IF foreign
  THEN layer = "tls" /\ reader = "server"
  ELSE /\ got = Bytes(0, Len(got)) /\ Len(got) <= Sealed
       /\ end # "garbled"
       /\ end = "overwritten" => layer = "tls" /\ reader = "server" /\ got = <<>>
       /\ end = "zero chunk" => Len(got) \in zeroAt
       /\ end = "zero chunk" /\ writer = "readFrom" => Len(got) = written
       /\ end = "unexpected eof" => broken
       /\ end = "eof" => Truncated \/ Len(got) = written

(* Every byte given to a writer that is closed afterwards is read in the   *)
(* end, however the records are cut and without another write having to    *)
(* push it out (no layer keeps a remainder back: the loops of Write, the   *)
(* buffer of Read, remain of TLSObfs).                                     *)
AllDelivered ==
  fin ~> (end # "open" /\ (Truncated \/ Len(got) = written))
=============================================================================
