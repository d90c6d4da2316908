---------------------------- MODULE SocketStream ----------------------------
(***************************************************************************)
(* socketstream: a std::iostream that is its own streambuf, over a copy of *)
(* a basic_socket.  One thread reads and writes it; its peer sends, ends   *)
(* its side or goes away at any time; another handle of the same socket    *)
(* may be closed at any time, since copies share the descriptor.           *)
(*                                                                         *)
(* The program's calls are taken byte by byte, as std::iostream makes them *)
(* of the streambuf (external): a call is made when no error bit is set,   *)
(* clear() resets the bits, a streambuf's EOF sets eofbit for a read and   *)
(* badbit for a write.  Output bytes are their numbers in the order they   *)
(* were written, so that the order they are sent in can be told; input     *)
(* bytes are members of Bytes, of which EOFByte (0xFF) reads as EOF        *)
(* through a signed char.                                                  *)
(*                                                                         *)
(* Left out: the width of a byte, and how long a timeout is.               *)
(***************************************************************************)
EXTENDS Integers, Sequences

CONSTANTS
    Size,           \* m_stream_buffer_size_
    Bytes, EOFByte,
    Timeouts,       \* arguments of set_timeout
    PartialSends,   \* ::send may take a part of what it is given
    Signals,        \* ::poll may be interrupted
    MaxWritten, MaxSent         \* bounds on each side's bytes

ASSUME SizeAssumption == Size \in Nat /\ Size > 1
ASSUME TimeoutsAssumption == Timeouts \subseteq Int
ASSUME BoundsAssumption == MaxWritten \in Nat /\ MaxSent \in Nat

VARIABLES
    put,            \* pbase() .. pptr()
    get,            \* gptr() .. egptr()
    m_hangup_,
    m_timeout_,
    rdstate,        \* the iostream's error bits
    pc,             \* "poll" or "recv" inside underflow
    closed,         \* the shared descriptor is INVALID_SOCKET
    peer,           \* "open", "ended" its side, or "gone"
    incoming,       \* what the kernel has for recv
    outgoing,       \* what the kernel took from send
    written,        \* output bytes the stream accepted (1 .. written)
    lost,           \* those of them that are in no buffer and never sent
    sent,           \* the bytes the peer sent
    received        \* the bytes the program read

output == <<put, outgoing, written, lost>>
input == <<get, incoming, sent, received>>
vars == <<put, get, m_hangup_, m_timeout_, rdstate, pc, closed, peer,
          incoming, outgoing, written, lost, sent, received>>

Init ==
    /\ put = <<>> /\ get = <<>>
    /\ m_hangup_ = FALSE /\ m_timeout_ = -1
    /\ rdstate = {} /\ pc = "idle"
    /\ closed = FALSE /\ peer = "open"
    /\ incoming = <<>> /\ outgoing = <<>>
    /\ written = 0 /\ lost = {}
    /\ sent = <<>> /\ received = <<>>

\* The program's next call; a stream with an error bit set refuses it.
Calls == pc = "idle" /\ rdstate = {}

Elements(s) == {s[i] : i \in DOMAIN s}

-----------------------------------------------------------------------------
(* Output *)

\* Faulty variant: the put area keeps what was sent.
SentStays == put

\* setp after a send: the put area is empty, whatever part of it was taken.
AfterSend == <<>>

\* _M_write_base when send succeeds.  Its result is not looked at, so what it
\* left is lost; so is the byte that overflow got, which is in no buffer.
WriteBase(overflowing) ==
    /\ ~closed /\ ~m_hangup_ /\ peer # "gone"
    /\ \E n \in IF PartialSends /\ put # <<>> THEN 1..Len(put) ELSE {Len(put)} :
        /\ outgoing' = outgoing \o SubSeq(put, 1, n)
        /\ lost' = lost \union Elements(SubSeq(put, n + 1, Len(put)))
                        \union overflowing
    /\ put' = AfterSend
    /\ UNCHANGED rdstate

\* _M_write_base when the stream is closed or hung up, or send fails.
WriteFails ==
    /\ rdstate' = rdstate \union {"badbit"}
    /\ UNCHANGED <<put, outgoing, lost>>

\* sputc with room in the put area.
Buffer ==
    /\ Calls /\ written < MaxWritten
    /\ Len(put) < Size - 1
    /\ put' = Append(put, written + 1)
    /\ written' = written + 1
    /\ UNCHANGED <<m_hangup_, m_timeout_, rdstate, pc, closed, peer, outgoing,
                   lost, input>>

\* sputc with a full put area.  overflow returns its byte: it was accepted.
overflow ==
    /\ Calls /\ written < MaxWritten
    /\ Len(put) = Size - 1
    /\ \/ WriteBase({written + 1}) /\ written' = written + 1
       \/ WriteFails /\ UNCHANGED written
    /\ UNCHANGED <<m_hangup_, m_timeout_, pc, closed, peer, input>>

\* flush()
sync ==
    /\ Calls
    /\ WriteBase({}) \/ WriteFails
    /\ UNCHANGED <<m_hangup_, m_timeout_, pc, closed, peer, written, input>>

-----------------------------------------------------------------------------
(* Input *)

\* The program is given the first byte of the get area.
Give(area) ==
    /\ received' = Append(received, Head(area))
    /\ get' = Tail(area)
    /\ pc' = "idle"
    /\ UNCHANGED rdstate

\* The read meets EOF.
EndOfFile(bits) ==
    /\ rdstate' = rdstate \union bits \union {"eofbit"}
    /\ pc' = "idle"
    /\ UNCHANGED received

\* sbumpc with bytes in the get area.
Unbuffer ==
    /\ Calls /\ get # <<>>
    /\ Give(get)
    /\ UNCHANGED <<m_hangup_, m_timeout_, closed, peer, incoming, sent, output>>

\* sbumpc with an empty get area.
underflow ==
    /\ Calls /\ get = <<>>
    /\ \/ closed /\ EndOfFile({})
       \/ ~closed /\ m_hangup_ /\ EndOfFile({"badbit"})
       \/ ~closed /\ ~m_hangup_ /\ pc' = "poll" /\ UNCHANGED <<rdstate, received>>
    /\ UNCHANGED <<m_hangup_, m_timeout_, closed, peer, get, incoming, sent, output>>

\* What poll may say of the descriptor it was given when the stream was made;
\* once closed, that number may be another connection's.
Events ==
    IF closed THEN SUBSET {"IN", "HANGUP"}
    ELSE {{e \in {"IN", "HANGUP"} :
            \/ e = "IN" /\ (incoming # <<>> \/ peer # "open")
            \/ e = "HANGUP" /\ peer = "gone"}}

\* Faulty variant: an end of the peer's side counts as a hangup.
EndHangsUp(events) == "HANGUP" \in events \/ peer = "ended"

HangsUp(events) == "HANGUP" \in events

PollReturns ==
    /\ pc = "poll"
    /\ \E events \in Events :
        \/ HangsUp(events) /\ m_hangup_' = TRUE /\ EndOfFile({"badbit"})
        \/ /\ ~HangsUp(events) /\ "IN" \in events
           /\ pc' = "recv"
           /\ UNCHANGED <<m_hangup_, rdstate, received>>
    /\ UNCHANGED <<m_timeout_, closed, peer, get, incoming, sent, output>>

\* poll times out, is interrupted, or says that the descriptor is not open.
PollEnds ==
    /\ pc = "poll"
    /\ \/ Signals
       \/ closed
       \/ m_timeout_ # -1 /\ Events = {{}}
    /\ EndOfFile({})
    /\ UNCHANGED <<m_hangup_, m_timeout_, closed, peer, get, incoming, sent, output>>

\* Faulty variant: the get area ends a byte too far.
OffByOne(chunk) == Append(chunk, Head(chunk))

\* setg(eback(), eback(), eback() + bytes_received)
GetArea(chunk) == chunk

\* *eback() as an int is EOF.
ReadsAsEOF(b) == b = EOFByte

\* recv fills the get area; the program gets its first byte, unless it is
\* taken for EOF: then it stays.
Receive ==
    /\ pc = "recv"
    /\ ~closed /\ incoming # <<>>
    /\ LET n == IF Len(incoming) < Size THEN Len(incoming) ELSE Size
           area == GetArea(SubSeq(incoming, 1, n))
       IN  /\ incoming' = SubSeq(incoming, n + 1, Len(incoming))
           /\ \/ ~ReadsAsEOF(Head(incoming)) /\ Give(area)
              \/ ReadsAsEOF(Head(incoming)) /\ EndOfFile({}) /\ get' = area
    /\ UNCHANGED <<m_hangup_, m_timeout_, closed, peer, sent, output>>

\* recv returns 0, or fails on a descriptor closed meanwhile or a lost peer.
ReceiveEnds ==
    /\ pc = "recv"
    /\ closed \/ incoming = <<>>
    /\ EndOfFile({})
    /\ UNCHANGED <<m_hangup_, m_timeout_, closed, peer, get, incoming, sent, output>>

-----------------------------------------------------------------------------
(* The rest of the program, and the peer *)

\* Faulty variant: any negative timeout is kept.
AnyTimeout(milliseconds) == milliseconds

Timeout(milliseconds) == IF milliseconds < -1 THEN -1 ELSE milliseconds

set_timeout(milliseconds) ==
    /\ pc = "idle"
    /\ m_timeout_' = Timeout(milliseconds)
    /\ UNCHANGED <<m_hangup_, rdstate, pc, closed, peer, input, output>>

clear ==
    /\ pc = "idle" /\ rdstate # {}
    /\ rdstate' = {}
    /\ UNCHANGED <<m_hangup_, m_timeout_, pc, closed, peer, input, output>>

\* ~socketstream() frees the buffers and does not flush; the stream's own
\* handle may be the last of its socket.
Destroy ==
    /\ pc = "idle"
    /\ pc' = "destroyed"
    /\ lost' = lost \union Elements(put)
    /\ put' = <<>> /\ get' = <<>>
    /\ closed' \in {closed, TRUE}
    /\ UNCHANGED <<m_hangup_, m_timeout_, rdstate, peer, incoming, outgoing,
                   written, sent, received>>

\* close() on another handle of the socket.
CloseElsewhere ==
    /\ ~closed
    /\ closed' = TRUE
    /\ UNCHANGED <<m_hangup_, m_timeout_, rdstate, pc, peer, input, output>>

PeerSends(b) ==
    /\ peer = "open" /\ Len(sent) < MaxSent
    /\ sent' = Append(sent, b)
    /\ incoming' = Append(incoming, b)
    /\ UNCHANGED <<m_hangup_, m_timeout_, rdstate, pc, closed, peer, get,
                   received, output>>

PeerEnds ==
    /\ peer = "open"
    /\ peer' = "ended"
    /\ UNCHANGED <<m_hangup_, m_timeout_, rdstate, pc, closed, input, output>>

\* The connection is reset, or shut down both ways.
PeerGoes ==
    /\ peer # "gone"
    /\ peer' = "gone"
    /\ UNCHANGED <<m_hangup_, m_timeout_, rdstate, pc, closed, input, output>>

Write == Buffer \/ overflow \/ sync
Read == Unbuffer \/ underflow
Underflow == PollReturns \/ PollEnds \/ Receive \/ ReceiveEnds
Peer == (\E b \in Bytes : PeerSends(b)) \/ PeerEnds \/ PeerGoes

Next ==
    \/ Write \/ Read \/ Underflow
    \/ \E milliseconds \in Timeouts : set_timeout(milliseconds)
    \/ clear \/ Destroy \/ CloseElsewhere
    \/ Peer

Spec == Init /\ [][Next]_vars

\* The program reads again and again, among its other calls, and clears the
\* error bits; poll returns what there is and is not interrupted for ever.
Fairness ==
    /\ SF_vars(Read) /\ WF_vars(clear)
    /\ SF_vars(~closed /\ PollReturns) /\ WF_vars(Receive \/ ReceiveEnds)

FairSpec == Spec /\ Fairness

-----------------------------------------------------------------------------
(* Properties *)

\* Every variable has its type and no area outgrows its buffer.
TypeOK ==
    /\ put \in Seq(Nat) /\ Len(put) <= Size - 1
    /\ get \in Seq(Bytes) /\ Len(get) <= Size
    /\ m_hangup_ \in BOOLEAN /\ m_timeout_ \in Int /\ m_timeout_ >= -1
    /\ rdstate \subseteq {"badbit", "eofbit"}
    /\ pc \in {"idle", "poll", "recv", "destroyed"}
    /\ closed \in BOOLEAN /\ peer \in {"open", "ended", "gone"}
    /\ incoming \in Seq(Bytes) /\ outgoing \in Seq(Nat)
    /\ written \in Nat /\ lost \subseteq 1..written
    /\ sent \in Seq(Bytes) /\ received \in Seq(Bytes)

Flow == outgoing \o put

\* Each byte that was accepted is sent, waits in the put area, or was lost in
\* one of three places: when it met a full put area, when send left it, when
\* the stream was destroyed.  None goes twice, however often sends fail and
\* are tried again, and all go in the order they were written.
AccountedFor ==
    /\ \A i, j \in DOMAIN Flow : i < j => Flow[i] < Flow[j]
    /\ Elements(Flow) = (1..written) \ lost

\* The stream's side of SOCK_STREAM ("sequenced, reliable, two-way" byte
\* streams): what the program wrote is sent or waits to be.
Reliable == pc # "destroyed" => Elements(Flow) = 1..written

\* Reading implements a channel: bytes are read once, in order, without gaps,
\* through short reads, timeouts, an early EOF and a close on another handle.
Channel == INSTANCE ByteChannel WITH hup <- m_hangup_
ReadsChannel == Channel!Spec

\* A program that goes on reading gets every byte the peer sent, also those
\* that are first taken for EOF and those sent before the peer ended its side.
EverythingArrives ==
    \A n \in 1..MaxSent :
        Len(sent) >= n ~> \/ Len(received) >= n
                          \/ peer = "gone" \/ closed \/ pc = "destroyed"
=============================================================================
