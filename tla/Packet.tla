------------------------------- MODULE Packet -------------------------------
(***************************************************************************)
(* packet.rs and its use in engine.rs: the v1 header, the packets the       *)
(* engine builds with its setters, and what process_udp and the extension   *)
(* loop of process_incoming make of a datagram.                             *)
(*                                                                          *)
(* A datagram is a sequence of bytes; the byte at offset i of the code is   *)
(* element i + 1 here.  A byte has BitsPerByte bits, so that the values of  *)
(* the wide fields stay small.                                              *)
(***************************************************************************)
EXTENDS Integers, Sequences

CONSTANTS
  BitsPerByte,    \* 8 in the code, an even number
  ExtBitsLen,     \* length of the extension bits (8)
  MaskLen,        \* bytes of the mask send_ack builds (4)
  Shorts, Words,  \* values of the u16 and u32 fields tried
  Windows,        \* receive windows, usize in the code
  Masks,          \* sets of packets received out of order
  TailBytes, MaxTail \* foreign datagrams: bytes after the header, and how many

HEADER_SIZE == 20

\* The powers of two, and the numbers of values of the fields.
Power[n \in Nat] == IF n = 0 THEN 1 ELSE 2 * Power[n - 1]
Nibble == Power[BitsPerByte \div 2]
Byte   == Power[BitsPerByte]
Short  == Byte * Byte
Word   == Short * Short

\* What the constants must satisfy (assumed by Components).
PacketAssumption ==
  /\ BitsPerByte \in Nat /\ BitsPerByte % 2 = 0 /\ BitsPerByte >= 6
  /\ ExtBitsLen \in Nat /\ MaskLen \in Nat /\ MaxTail \in Nat
  /\ Shorts \subseteq 0 .. Short - 1 /\ Words \subseteq 0 .. Word - 1
  /\ Windows \subseteq Nat /\ TailBytes \subseteq 0 .. Byte - 1
  /\ \A m \in Masks : m \subseteq 0 .. MaskLen * BitsPerByte - 1

ST_DATA  == 0
ST_FIN   == 1
ST_STATE == 2
ST_RESET == 3
ST_SYN   == 4
ST_NUM_STATES == 5

VARIABLES
  buf,      \* the datagram
  want,     \* what the sender meant by it; Foreign for any other datagram
  phase,    \* "idle", "built", "parsing", "done"
  verdict,  \* "ok", "not_utp", "invalid", "panic"
  data_start, extension, selack   \* the locals of the extension loop

loopVars == <<data_start, extension, selack>>
vars == <<buf, want, phase, verdict, loopVars>>

Foreign == [f |-> [type |-> ST_NUM_STATES]]
NoMask  == <<0, 0>>

-----------------------------------------------------------------------------
(* Header: accessors and setters. *)

be2(v) == <<(v \div Byte) % Byte, v % Byte>>
be4(v) == be2(v \div Short) \o be2(v % Short)
short(b, off) == b[off + 1] * Byte + b[off + 2]
word(b, off) == short(b, off) * Short + short(b, off + 2)

version(b)     == b[1] % Nibble
packet_type(b) == b[1] \div Nibble
wire_version(b) == IF packet_type(b) < ST_NUM_STATES /\ b[2] < 3 THEN version(b) ELSE 0

\* The bytes s written from offset off on.
Put(b, off, s) == [i \in 1 .. Len(b) |-> IF i \in off + 1 .. off + Len(s) THEN s[i - off] ELSE b[i]]

set_version_type(b, t)  == Put(b, 0, <<t * Nibble + 1>>)
set_ext(b, e)           == Put(b, 1, <<e>>)
set_conn_id(b, v)       == Put(b, 2, be2(v))
set_tv_usec(b, v)       == Put(b, 4, be4(v))
set_reply_micro(b, v)   == Put(b, 8, be4(v))
set_window_size(b, v)   == Put(b, 12, be4(v))
set_seq_nr(b, v)        == Put(b, 16, be2(v))
set_ack_nr_low(b, v)    == Put(b, 17, be2(v))
set_ack_nr(b, v)        == Put(b, 18, be2(v))

\* What a receiver reads, field by field.
Fields(b) ==
  [type |-> packet_type(b), id |-> short(b, 2), tv |-> word(b, 4), reply |-> word(b, 8),
   window |-> word(b, 12), seq |-> short(b, 16), ack |-> short(b, 18)]

-----------------------------------------------------------------------------
(* The packets the engine builds. *)

Zeros(n) == [i \in 1 .. n |-> 0]

\* The window is cast to u32.
Header(b, f) ==
  set_seq_nr(set_ack_nr(set_window_size(set_conn_id(set_version_type(b, f.type), f.id),
                                        f.window % Word), f.ack), f.seq)

\* send_data stamps the time.
Stamped(b, f) == set_reply_micro(set_tv_usec(b, f.tv), f.reply)

\* Bit i of the mask is bit i % BitsPerByte of byte i \div BitsPerByte; the byte
\* with the bits s, after n turns of the loop that sets them.
SetBits(s) ==
  LET m[n \in 0 .. BitsPerByte] ==
        IF n = 0 THEN 0 ELSE m[n - 1] + (IF n - 1 \in s THEN Power[n - 1] ELSE 0)
  IN  m[BitsPerByte]
ByteOf(mask, k) == SetBits({i \in 0 .. BitsPerByte - 1 : k * BitsPerByte + i \in mask})
to_le_bytes(mask) == [k \in 1 .. MaskLen |-> ByteOf(mask, k - 1)]

\* The extension is there when something was received out of order.
Eack(mask) == IF mask = {} THEN <<>> ELSE <<0, MaskLen>> \o to_le_bytes(mask)

send_ack(f, mask) ==
  Stamped(Header(set_ext(Zeros(HEADER_SIZE), IF mask = {} THEN 0 ELSE 1), f), f) \o Eack(mask)

Build(b, f, mask, payload) ==
  /\ phase = "idle"
  /\ buf' = b
  /\ want' = [f |-> f, mask |-> mask, payload |-> payload]
  /\ phase' = "built"
  /\ UNCHANGED <<verdict, loopVars>>

\* One value of Shorts and one of Words go through all fields of their width,
\* each at another distance so that no two fields agree by chance.
Choice(t, s, w, win) ==
  [type |-> t, id |-> s, tv |-> w, reply |-> (w + 1) % Word, window |-> win,
   seq |-> (s + 2) % Short, ack |-> (s + 3) % Short]

SendAck == \E s \in Shorts, w \in Words, win \in Windows, mask \in Masks :
  LET f == Choice(ST_STATE, s, w, win) IN Build(send_ack(f, mask), f, mask, <<>>)

\* send_rst and the SYN go out without a time; the SYN is stamped when sent.
SendRst == \E s \in Shorts :
  LET f == [Choice(ST_RESET, s, 0, 0) EXCEPT !.reply = 0]
  IN  Build(Header(Zeros(HEADER_SIZE), f), f, {}, <<>>)

SendSyn == \E s \in Shorts, w \in Words, win \in Windows :
  LET f == [Choice(ST_SYN, s, w, win) EXCEPT !.ack = 0]
  IN  Build(Stamped(Header(Zeros(HEADER_SIZE), f), f), f, {}, <<>>)

SendData == \E t \in {ST_DATA, ST_FIN}, s \in Shorts, w \in Words, win \in Windows :
  LET f == Choice(t, s, w, win)
      b == Header(set_ext(Zeros(HEADER_SIZE), 0), f)
      payload == IF t = ST_DATA THEN <<1, 2, 3>> ELSE <<>>
  IN  Build(Stamped(b \o payload, f), f, {}, payload)

\* send_packet_at sends it again: a new ack and new times in the old header.
Resend == \E s \in Shorts, w \in Words :
  /\ phase = "built" /\ want.f.type \in {ST_DATA, ST_FIN, ST_SYN}
  /\ LET f == [want.f EXCEPT !.ack = s, !.tv = w, !.reply = w]
     IN  /\ buf' = Stamped(set_ack_nr(buf, s), f)
         /\ want' = [want EXCEPT !.f = f]
  /\ UNCHANGED <<phase, verdict, loopVars>>

\* A datagram of another origin: cut short, or with any tail.
ForeignDatagram ==
  /\ phase = "idle"
  /\ \/ \E n \in {0, 1, HEADER_SIZE - 1} : buf' = Zeros(n)
     \/ \E t \in {0, ST_NUM_STATES}, e \in 0 .. 3, n \in 0 .. MaxTail :
          \E tail \in [1 .. n -> TailBytes] :
            buf' = set_ext(set_version_type(Zeros(HEADER_SIZE), t), e) \o tail
  /\ want' = Foreign
  /\ phase' = "built"
  /\ UNCHANGED <<verdict, loopVars>>

-----------------------------------------------------------------------------
(* process_udp, and the extension loop of process_incoming. *)

Finish(v) == phase' = "done" /\ verdict' = v

ProcessUdp ==
  /\ phase = "built"
  /\ UNCHANGED <<buf, want>>
  /\ IF Len(buf) < HEADER_SIZE \/ wire_version(buf) # 1
     THEN Finish("not_utp") /\ UNCHANGED loopVars
     ELSE /\ data_start' = HEADER_SIZE
          /\ extension' = buf[2]
          /\ selack' = NoMask
          /\ IF buf[2] = 0 THEN Finish("ok") ELSE phase' = "parsing" /\ UNCHANGED verdict

\* The checks of one round, at offset at behind the extension's two bytes.
Truncated_one_late(at) == at > Len(buf) + 1
Truncated(at) == at > Len(buf)
TooLong(at, elen) == Len(buf) - at < elen

SkipExtension ==
  LET at == data_start + 2
      elen == buf[at]
  IN  /\ phase = "parsing"
      /\ UNCHANGED <<buf, want>>
      /\ IF Truncated(at) THEN Finish("invalid") /\ UNCHANGED loopVars
         ELSE IF at > Len(buf) THEN Finish("panic") /\ UNCHANGED loopVars
         ELSE IF TooLong(at, elen) \/ (extension = 2 /\ elen # ExtBitsLen)
         THEN Finish("invalid") /\ UNCHANGED loopVars
         ELSE /\ selack' = IF extension = 1 THEN <<at, elen>> ELSE selack
              /\ extension' = buf[at - 1]
              /\ data_start' = at + elen
              /\ IF buf[at - 1] # 0 THEN UNCHANGED <<phase, verdict>>
                 ELSE Finish(IF at + elen > Len(buf) THEN "panic" ELSE "ok")

Init ==
  /\ buf = <<>> /\ want = Foreign /\ phase = "idle" /\ verdict = "ok"
  /\ data_start = 0 /\ extension = 0 /\ selack = NoMask

Next ==
  \/ SendAck \/ SendRst \/ SendSyn \/ SendData
  \/ Resend
  \/ ForeignDatagram
  \/ ProcessUdp
  \/ SkipExtension

Spec == Init /\ [][Next]_vars

-----------------------------------------------------------------------------
(* Properties. *)

\* The bits selective_ack finds set in the mask.
bit_set(mask, i) == (mask[i \div BitsPerByte + 1] \div Power[i % BitsPerByte]) % 2 = 1
MaskBytes == SubSeq(buf, selack[1] + 1, selack[1] + selack[2])
Received == {i \in 0 .. Len(MaskBytes) * BitsPerByte - 1 : bit_set(MaskBytes, i)}
Payload == SubSeq(buf, data_start + 1, Len(buf))

Ours == want # Foreign /\ phase = "done"

\* The peer reads every field, bit of the mask and byte of payload of a packet
\* of ours as it was last set, sent once or again with a new ack and new times;
\* the window up to what 32 bits hold.
RoundTrip ==
  Ours =>
    /\ verdict = "ok"
    /\ Fields(buf) = [want.f EXCEPT !.window = @ % Word]
    /\ Received = want.mask /\ Payload = want.payload

\* The grammar of a datagram's tail: a chain of n extensions, the i-th of which
\* ends at ends[i], each with the type of the next, its length and its bytes; the
\* payload follows the last.
Start(ends, i) == IF i = 1 THEN HEADER_SIZE ELSE ends[i - 1]
Kind(ends, i)  == IF i = 1 THEN buf[2] ELSE buf[Start(ends, i - 1) + 1]
Extension(ends, i) ==
  LET size == buf[Start(ends, i) + 2]
  IN  /\ Kind(ends, i) # 0
      /\ Start(ends, i) + 2 <= Len(buf)
      /\ ends[i] = Start(ends, i) + 2 + size
      /\ Kind(ends, i) = 2 => size = ExtBitsLen
WellFormed(n, ends) == (\A i \in 1 .. n : Extension(ends, i)) /\ Kind(ends, n + 1) = 0

\* The mask is that of the last extension of type 1.
LastMask(n, ends, m) ==
  \/ m = NoMask /\ \A i \in 1 .. n : Kind(ends, i) # 1
  \/ \E i \in 1 .. n : /\ Kind(ends, i) = 1
                      /\ m = <<Start(ends, i) + 2, buf[Start(ends, i) + 2]>>
                      /\ \A j \in i + 1 .. n : Kind(ends, j) # 1

MostExtensions == (Len(buf) - HEADER_SIZE) \div 2
Ends(n) == [1 .. n -> HEADER_SIZE + 2 .. Len(buf)]

\* The loop reads no byte behind the datagram, takes exactly the datagrams that
\* follow the grammar, and finds their last mask and their payload.
ParsesTheGrammar ==
  phase = "done" /\ verdict # "not_utp" =>
    \/ /\ verdict = "ok"
       /\ \E n \in 0 .. MostExtensions : \E ends \in Ends(n) :
            /\ WellFormed(n, ends)
            /\ LastMask(n, ends, selack) /\ data_start = Start(ends, n + 1)
    \/ /\ verdict = "invalid"
       /\ \A n \in 0 .. MostExtensions : \A ends \in Ends(n) : ~WellFormed(n, ends)
=============================================================================
