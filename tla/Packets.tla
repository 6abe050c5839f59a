------------------------------- MODULE Packets ------------------------------
(***************************************************************************)
(* Packets as sequences of bytes: the ICMP packets of traceroute, the      *)
(* readers of a capture, and the DNS clients.                              *)
(***************************************************************************)
EXTENDS Integers, Sequences, SequencesExt, TLC

(***************************************************************************)
(* The packets of traceroute.go: encoding, decoding and checksums over     *)
(* sequences of bytes.  Ok wraps a decoded packet, Err is an error.        *)
(***************************************************************************)

Be16(n) == <<n \div 256, n % 256>>
Uint16(b, i) == 256 * b[i + 1] + b[i + 2]
Words32(n) == Be16(n[1]) \o Be16(n[2])          \* an address, as its two halves
Err == [ok |-> FALSE]
Ok(p) == [ok |-> TRUE, p |-> p]

Encode(p) == <<p.Type, p.Code>> \o Be16(p.Checksum) \o Be16(p.ID) \o Be16(p.SequenceNo) \o p.Data
EncodeIPv4(p) ==
  <<p.VersionAndIHL, p.TOS>> \o Be16(p.TotalLen) \o Be16(p.ID) \o Be16(p.Flags) \o <<p.TTL, p.ULProto>>
    \o Be16(p.HeaderChecksum) \o Words32(p.SourceIP) \o Words32(p.DestIP) \o p.Data

\* Mutant: the identifier is read where the sequence number is.
DecodeEchoSwapped(b) ==
  IF Len(b) < 8 THEN Err
  ELSE Ok([Type |-> b[1], Code |-> b[2], Checksum |-> Uint16(b, 2), ID |-> Uint16(b, 6), SequenceNo |-> Uint16(b, 4),
           Data |-> SubSeq(b, 9, Len(b))])
DecodeICMPEchoPacket(b) ==
  IF Len(b) < 8 THEN Err
  ELSE Ok([Type |-> b[1], Code |-> b[2], Checksum |-> Uint16(b, 2), ID |-> Uint16(b, 4), SequenceNo |-> Uint16(b, 6),
           Data |-> SubSeq(b, 9, Len(b))])
\* A header is taken to be 20 bytes long, whatever its length field says.
DecodeIPv4Packet(b) ==
  IF Len(b) < 20 THEN Err
  ELSE Ok([VersionAndIHL |-> b[1], TOS |-> b[2], TotalLen |-> Uint16(b, 2), ID |-> Uint16(b, 4), Flags |-> Uint16(b, 6),
           TTL |-> b[9], ULProto |-> b[10], HeaderChecksum |-> Uint16(b, 10), SourceIP |-> <<Uint16(b, 12), Uint16(b, 14)>>,
           DestIP |-> <<Uint16(b, 16), Uint16(b, 18)>>, Data |-> SubSeq(b, 21, Len(b))])
\* An error message holds the packet it is about: the result is that one's.
RECURSIVE DecodeICMPPacket(_)
DecodeICMPOtherPacket(b) ==
  IF Len(b) < 8 THEN Err
  ELSE LET ip == DecodeIPv4Packet(SubSeq(b, 9, Len(b))) IN IF ip.ok THEN DecodeICMPPacket(ip.p.Data) ELSE Err
DecodeICMPPacket(b) == IF b[1] \in {0, 8} THEN DecodeICMPEchoPacket(b) ELSE DecodeICMPOtherPacket(b)

AddCarry(sum16, cur16) == LET s == sum16 + cur16 IN (s % 65536) + (s \div 65536)
\* Mutant: a last odd byte is taken as the low byte of its word.
DataWordLow(b, i) == IF i + 1 <= Len(b) THEN 256 * b[i] + b[i + 1] ELSE b[i]
DataWord(b, i) == IF i + 1 <= Len(b) THEN 256 * b[i] + b[i + 1] ELSE 256 * b[i]
\* Sequence number and identifier are added without the carry.
ComputeChecksum(p) ==
  LET start == (256 * p.Type + p.Code + ((p.SequenceNo + p.ID) % 65536)) % 65536
      words == [k \in 1..((Len(p.Data) + 1) \div 2) |-> DataWord(p.Data, 2 * k - 1)]
  IN 65535 - FoldLeft(AddCarry, start, words)

\* The sum is not complemented; nothing in the program uses it.
computeHeaderChecksum(p) ==
  FoldLeft(AddCarry, 256 * p.VersionAndIHL + p.TOS,
           <<p.TotalLen, p.ID, p.Flags, 256 * p.TTL + p.ULProto, p.HeaderChecksum, p.SourceIP[2], p.SourceIP[1], p.DestIP[2], p.DestIP[1]>>)
NewIPv4(source, dest, ttl, data) ==
  LET p == [VersionAndIHL |-> 69, TOS |-> 0, TotalLen |-> (20 + Len(data)) % 65536, ID |-> 0, Flags |-> 16384, TTL |-> ttl,
            ULProto |-> 1, HeaderChecksum |-> 0, SourceIP |-> source, DestIP |-> dest, Data |-> <<>>]
  IN [p EXCEPT !.HeaderChecksum = computeHeaderChecksum(p)]
NewICMPPacket(ptype, code, data) ==
  LET p == [Type |-> ptype, Code |-> code, Checksum |-> 0, ID |-> 0, SequenceNo |-> 0, Data |-> data]
  IN [p EXCEPT !.Checksum = ComputeChecksum(p)]
\* The packet Trace sends with this identifier.
Probe(counter, data) ==
  LET p == [NewICMPPacket(8, 0, data) EXCEPT !.ID = counter, !.SequenceNo = counter]
  IN [p EXCEPT !.Checksum = ComputeChecksum(p)]
-----------------------------------------------------------------------------
ByteSum(b) == FoldLeft(LAMBDA s, k : s + (IF k % 2 = 1 THEN 256 * b[k] ELSE b[k]), 0, [k \in 1..Len(b) |-> k])

\* An answer carries the identifier of the probe it answers: the echo reply
\* itself, and a time-exceeded message around the probe, decode to the packet
\* that was encoded; a message cut inside either header is an error.
AnswerDecodes(v) ==
  LET probe == [Probe(v.id, v.data) EXCEPT !.SequenceNo = v.seq]
      ip == [NewIPv4(<<2560, v.id>>, <<2816, 1>>, 1, v.data) EXCEPT !.Data = Encode(probe)]
      exceeded == <<11, 0, 0, 0, 0, 0, 0, 0>> \o EncodeIPv4(ip)
  IN /\ DecodeICMPPacket(Encode(probe)) = Ok(probe)
     /\ DecodeIPv4Packet(EncodeIPv4(ip)) = Ok(ip)
     /\ DecodeICMPPacket(exceeded) = Ok(probe)
     /\ DecodeICMPPacket(SubSeq(exceeded, 1, 27)) = Err /\ DecodeICMPPacket(SubSeq(exceeded, 1, 35)) = Err

\* A probe, its checksum included, sums to zero in ones' complement, as a
\* receiver checks, for every identifier below 31744, where the TTL of a trace
\* has long run out; from there on the carry that is dropped makes it wrong.
ProbeSumsToZero(v) ==
  LET p == Probe(v.id, v.data) IN (v.id < 31744 => ByteSum(Encode(p)) % 65535 = 0) /\ (v.id >= 31744 => ByteSum(Encode(p)) % 65535 # 0)

-----------------------------------------------------------------------------
(***************************************************************************)
(* The two readers of a packet capture: ctf.go, which takes an HTTP        *)
(* response out of it, and the modular parser.  A file is a sequence of    *)
(* bytes; numbers of 32 bits are pairs of halves, the high one first.      *)
(***************************************************************************)

pcapHeaderLength == 24
CR == 13
LF == 10

Uint32(b, i) == <<Uint16(b, i), Uint16(b, i + 2)>>
LittleUint32(b, i) == <<b[i + 3] + 256 * b[i + 4], b[i + 1] + 256 * b[i + 2]>>
From(b, i) == SubSeq(b, i + 1, Len(b))

\* A read that reaches the end of the file gives what there is.
Read(file, off, n) == SubSeq(file, off + 1, IF off + n <= Len(file) THEN off + n ELSE Len(file))
Padded(b, n) == b \o [k \in 1..(n - Len(b)) |-> 0]

ParsePacketRecordHeader(b) ==
  [Timestamp |-> LittleUint32(b, 0), Timestamp2 |-> LittleUint32(b, 4), CapturedLen |-> LittleUint32(b, 8)[2],
   OriginalLen |-> LittleUint32(b, 12)[2]]

ParseEthernet(data) ==
  [MACdest |-> SubSeq(data, 1, 6), MACsource |-> SubSeq(data, 7, 12), TPID |-> SubSeq(data, 13, 14),
   Data |-> From(data, IF data[13] = 129 THEN 16 ELSE 14)]

DataOfIP(data) == From(data, 4 * (data[1] % 16))
ParseIPv4(data) ==
  [Version |-> data[1] \div 16, IHL |-> data[1] % 16, DSCP |-> data[2] \div 4, ECN |-> data[2] % 4, TotalLen |-> Uint16(data, 2),
   Id |-> Uint16(data, 4), Flags |-> data[7] \div 32, FragmentOffset |-> Uint16(data, 6) % 8192, TTL |-> data[9],
   Protocol |-> data[10], SourceIP |-> Uint32(data, 12), DestIP |-> Uint32(data, 16), Data |-> DataOfIP(data)]

ParseTCP(data) ==
  [SourcePort |-> Uint16(data, 0), DestPort |-> Uint16(data, 2), SequenceNo |-> Uint32(data, 4), AckNo |-> Uint32(data, 8),
   DataOffset |-> data[13] \div 16, Reserved |-> data[13] % 16, Flags |-> data[14], WindowSize |-> Uint16(data, 14),
   Data |-> From(data, 4 * (data[13] \div 16))]

\* The offset where each of the three loops of ParseHTTP stops.
At(data, i, s) == i + Len(s) - 1 <= Len(data) /\ SubSeq(data, i, i + Len(s) - 1) = s
StopAt(data, from, s) ==
  LET hits == {i \in from..Len(data) : At(data, i, s)}
  IN IF hits = {} THEN IF from > Len(data) THEN from ELSE Len(data) + 1 ELSE CHOOSE i \in hits : \A k \in hits : i <= k
\* Mutant: the headers end with their first line.
HeaderEndLine == <<CR, LF>>
HeaderEnd == <<CR, LF, CR, LF>>
ParseHTTP(data) ==
  LET t == StopAt(data, 1, <<CR, LF>>)
      h == StopAt(data, t + 2, HeaderEnd)
      b == StopAt(data, h + 4, <<CR, LF>>)
  IN [Title |-> SubSeq(data, 1, t - 1), Headers |-> SubSeq(data, t + 2, h - 1), Body |-> SubSeq(data, h + 4, b - 1)]
-----------------------------------------------------------------------------
\* One turn of the loop of Parse.
\* Mutant: a sequence number that was seen already is taken again.
TakeAgain(st, tcp) == IF tcp.Flags # 18 THEN Append(st.packets, tcp) ELSE st.packets
Take(st, tcp) ==
  IF tcp.Flags # 18 /\ \A k \in DOMAIN st.packets : st.packets[k].SequenceNo # tcp.SequenceNo
  THEN Append(st.packets, tcp) ELSE st.packets
Turn(st, data) ==
  LET ip == ParseIPv4(ParseEthernet(data).Data)
      server == IF st.server = <<0, 0>> THEN ip.DestIP ELSE st.server
  IN [server |-> server, packets |-> IF ip.SourceIP = server THEN Take(st, ParseTCP(ip.Data)) ELSE st.packets]
RECURSIVE Collect(_, _, _)
Collect(file, off, st) ==
  LET header == Read(file, off, 16)
      len == ParsePacketRecordHeader(header).CapturedLen
      data == Read(file, off + 16, len)
  IN IF Len(header) < 16 \/ data = <<>> THEN st.packets
     ELSE Collect(file, off + 16 + Len(data), Turn(st, Padded(data, len)))
Before(a, b) == a[1] < b[1] \/ (a[1] = b[1] /\ a[2] < b[2])
Parse(file) ==
  LET sorted == SortSeq(Collect(file, pcapHeaderLength, [server |-> <<0, 0>>, packets |-> <<>>]),
                        LAMBDA x, y : Before(x.SequenceNo, y.SequenceNo))
  IN FlattenSeq([k \in DOMAIN sorted |-> sorted[k].Data])

\* ReadAt reports the end of the file for a short read, so a record that is
\* cut off is dropped.
\* Mutant: the data that is there is kept.
DataWholeEnough(data, len) == data # <<>>
DataWhole(data, len) == Len(data) = len
RECURSIVE parsePacketRecords(_, _)
parsePacketRecords(file, off) ==
  LET header == Read(file, off, 16)
      rec == ParsePacketRecordHeader(header)
      data == Read(file, off + 16, rec.CapturedLen)
  IN IF Len(header) < 16 \/ ~DataWhole(data, rec.CapturedLen) THEN <<>>
     ELSE <<data>> \o parsePacketRecords(file, off + 16 + Len(data))
-----------------------------------------------------------------------------
\* The modular parser: one turn of its loop reads the four headers and skips
\* the rest; the result is the next offset and what addTCPData is given.
readPacketHeader(file, off) == ParsePacketRecordHeader(Read(file, off, 16))
readIPHeader(file, off) == LET b == Read(file, off, 20) IN [IHL |-> b[1] % 16, Protocol |-> b[10]]
parseTCPHeader(file, off) ==
  LET b == Read(file, off, 20)
      n == 4 * (b[13] \div 16)
  IN [SequenceNumber |-> Uint32(b, 4), HeaderLength |-> n, Buffer |-> Read(file, off, IF n > 20 THEN n ELSE 20)]
\* Mutant: the header of TCP is not subtracted.
remainingWithTCP(captured, ihl, tcplen) == captured - 14 - 4 * ihl
remainingData(captured, ihl, tcplen) == captured - 14 - 4 * ihl - tcplen
NextRecord(file, off) ==
  LET p == readPacketHeader(file, off)
      ip == readIPHeader(file, off + 30)
      tcp == parseTCPHeader(file, off + 50)
  IN [off |-> off + 50 + Len(tcp.Buffer) + remainingData(p.CapturedLen, ip.IHL, tcp.HeaderLength),
      data |-> From(tcp.Buffer, tcp.HeaderLength)]
-----------------------------------------------------------------------------
\* What a capture looks like, for the properties: p has who sent it, its
\* sequence number, its flags, the options of both headers and its data.
Frame(p) ==
  LET ip == <<64 + 5 + p.ipopt, 0, 0, 0, 0, 0, 0, 0, 64, 6, 0, 0>>
            \o (IF p.server THEN <<1, 1, 1, 1, 2, 2, 2, 2>> ELSE <<2, 2, 2, 2, 1, 1, 1, 1>>) \o [k \in 1..(4 * p.ipopt) |-> 1]
      tcp == <<0, 80, 0, 99, 0, 0, p.seq \div 256, p.seq % 256, 0, 0, 0, 0, 16 * (5 + p.tcpopt), p.flags, 0, 0, 0, 0, 0, 0>>
             \o [k \in 1..(4 * p.tcpopt) |-> 1]
  IN [k \in 1..12 |-> k] \o <<8, 0>> \o ip \o tcp \o p.data
Record(p) == LET f == Frame(p) IN [k \in 1..8 |-> 0] \o <<Len(f), 0, 0, 0, Len(f), 0, 0, 0>> \o f
File(ps) == [k \in 1..24 |-> 0] \o FlattenSeq([k \in DOMAIN ps |-> Record(ps[k])])

\* The response is put together in order from segments captured in any order
\* and more than once, when the first packet is the client's; of the packets
\* with one sequence number the first counts, also if it has no data.
Reassembles(ps) ==
  LET mine == {k \in DOMAIN ps : ps[k].server /\ ps[k].flags # 18}
      kept == {ps[k] : k \in {x \in mine : \A y \in mine : ps[x].seq = ps[y].seq => x <= y}}
      order == SetToSortSeq(kept, LAMBDA x, y : x.seq < y.seq)
  IN ps # <<>> /\ ~ps[1].server => Parse(File(ps)) = FlattenSeq([k \in DOMAIN order |-> order[k].data])

\* Of a capture that is cut off anywhere exactly the whole records are read.
WholeRecords(ps) ==
  LET file == File(ps)
      ends == [k \in 0..Len(ps) |-> Len(File(SubSeq(ps, 1, k)))]
  IN \A cut \in {Len(file)} \cup {ends[k] + d : k \in 0..(Len(ps) - 1), d \in {1, 15, 16, 17, 40}} :
       cut <= Len(file) => parsePacketRecords(SubSeq(file, 1, cut), pcapHeaderLength)
                             = [k \in 1..Len(SelectSeq([x \in 1..Len(ps) |-> ends[x]], LAMBDA e : e <= cut)) |-> Frame(ps[k])]

\* The modular parser comes out at the next record when the IP header has no
\* options; it never passes on a byte of data.
ReaderAligned(ps) ==
  \A k \in DOMAIN ps :
    LET file == File(ps)
        r == NextRecord(file, Len(File(SubSeq(ps, 1, k - 1))))
    IN (ps[k].ipopt = 0 => r.off = Len(File(SubSeq(ps, 1, k)))) /\ (r.data # <<>> => ps[k].ipopt > 0)

\* A message falls into its title, its headers and its body up to the first
\* line break in it.  (A body that ends in a carriage return is left out: the
\* code looks at the byte behind it.)
HttpParts(m) ==
  LET no(s, x) == \A i \in 1..Len(s) : ~At(s, i, x)
      body == StopAt(m.body, 1, <<CR, LF>>) - 1
  IN no(m.title \o <<CR>>, <<CR, LF>>) /\ no(m.headers \o <<CR, LF, CR>>, <<CR, LF, CR, LF>>) /\ m.headers # <<>>
       /\ (m.body # <<>> => m.body[Len(m.body)] # CR) =>
       ParseHTTP(m.title \o <<CR, LF>> \o m.headers \o <<CR, LF, CR, LF>> \o m.body)
         = [Title |-> m.title, Headers |-> m.headers, Body |-> SubSeq(m.body, 1, body)]

-----------------------------------------------------------------------------
(***************************************************************************)
(* The two DNS clients: dns.go with parse.go, and dns_client.c.  Messages  *)
(* are sequences of bytes, names sequences of labels.  TTL is a pair of    *)
(* halves.                                                                 *)
(***************************************************************************)


NewDNSMessage(id, recursive, questions) ==
  [Header |-> [ID |-> id, Flags |-> IF recursive THEN 128 ELSE 0, QCount |-> Len(questions), AnsCount |-> 0, RRCount |-> 0, AddnlRRCount |-> 0],
   Questions |-> questions, Answers |-> <<>>]
encodeQuestion(q) == q.Name \o Be16(q.Type) \o Be16(q.Class)
encodeAnswer(a) == a.Name \o Be16(a.Type) \o Be16(a.Class) \o Be16(a.TTL[1]) \o Be16(a.TTL[2]) \o Be16(a.RDLength) \o a.RData
encode(m) ==
  LET h == m.Header
  IN Be16(h.ID) \o Be16(h.Flags) \o Be16(h.QCount) \o Be16(h.AnsCount) \o Be16(h.RRCount) \o Be16(h.AddnlRRCount)
     \o FlattenSeq([i \in DOMAIN m.Questions |-> encodeQuestion(m.Questions[i])])
     \o FlattenSeq([i \in DOMAIN m.Answers |-> encodeAnswer(m.Answers[i])])
-----------------------------------------------------------------------------
\* The bytes of the name at offset, without a look at pointers, and the offset
\* behind it.
RECURSIVE LabelEnd(_, _)
LabelEnd(b, offset) == IF b[offset + 1] = 0 THEN offset ELSE LabelEnd(b, offset + b[offset + 1] + 1)
ParseLabel(b, offset) == LET e == LabelEnd(b, offset) IN <<SubSeq(b, offset + 1, e + 1), e + 1>>
ConvPointerToOffset(b, offset) == Uint16(b, offset) % 16384
\* 46 is the dot.
RECURSIVE LabelsOf(_, _)
LabelsOf(label, offset) ==
  IF label[offset + 1] = 0 THEN <<>>
  ELSE LET n == label[offset + 1] IN <<SubSeq(label, offset + 2, offset + 1 + n)>> \o LabelsOf(label, offset + n + 1)
LabelToString(label) ==
  FoldLeft(LAMBDA res, l : IF res = <<>> THEN l ELSE res \o <<46>> \o l, <<>>, LabelsOf(label, 0))

RECURSIVE ParseDNSQuestions(_, _, _)
ParseDNSQuestions(b, n, offset) ==
  IF n = 0 THEN [list |-> <<>>, offset |-> offset]
  ELSE LET l == ParseLabel(b, offset)
           q == [Name |-> l[1], Type |-> Uint16(b, l[2]), Class |-> Uint16(b, l[2] + 2), Namestr |-> LabelToString(l[1])]
           rest == ParseDNSQuestions(b, n - 1, l[2] + 4)
       IN [rest EXCEPT !.list = <<q>> \o @]
\* A pointer is two bytes long, and the fields are read two bytes behind
\* offset; after a name that is written out they are read there too.
\* Mutant: the next answer is looked for right behind the length field.
AnswerSizeShort(rdlength) == 12
AnswerSize(rdlength) == 12 + rdlength
RECURSIVE ParseDNSAnswers(_, _, _)
ParseDNSAnswers(b, n, offset) ==
  IF n = 0 THEN <<>>
  ELSE LET pointer == b[offset + 1] >= 192
           l == ParseLabel(b, IF pointer THEN ConvPointerToOffset(b, offset) ELSE offset)
           at == IF pointer THEN offset ELSE l[2]
           len == Uint16(b, at + 10)
           a == [Name |-> IF pointer THEN SubSeq(b, offset + 1, offset + 2) ELSE l[1], Namestr |-> LabelToString(l[1]),
                 Type |-> Uint16(b, at + 2), Class |-> Uint16(b, at + 4), TTL |-> <<Uint16(b, at + 6), Uint16(b, at + 8)>>,
                 RDLength |-> len, RData |-> SubSeq(b, at + 13, at + 12 + len)]
       IN <<a>> \o ParseDNSAnswers(b, n - 1, at + AnswerSize(len))
ParseDNSResponse(b) ==
  LET q == ParseDNSQuestions(b, Uint16(b, 4), 12)
  IN [Header |-> [ID |-> Uint16(b, 0), Flags |-> Uint16(b, 2), QCount |-> Uint16(b, 4), AnsCount |-> Uint16(b, 6), RRCount |-> Uint16(b, 8),
                  AddnlRRCount |-> Uint16(b, 10)],
      Questions |-> q.list, Answers |-> ParseDNSAnswers(b, Uint16(b, 6), q.offset)]

\* Mutant: the two flags on recursion are taken for each other.
getFlagMapSwapped(flags) ==
  [QR |-> flags \div 32768, OPCODE |-> (flags \div 2048) % 16, AA |-> (flags \div 1024) % 2, TC |-> (flags \div 512) % 2,
   RD |-> (flags \div 128) % 2, RA |-> (flags \div 256) % 2, Z |-> (flags \div 16) % 8, RCODE |-> flags % 16]
getFlagMap(flags) ==
  [QR |-> flags \div 32768, OPCODE |-> (flags \div 2048) % 16, AA |-> (flags \div 1024) % 2, TC |-> (flags \div 512) % 2,
   RD |-> (flags \div 256) % 2, RA |-> (flags \div 128) % 2, Z |-> (flags \div 16) % 8, RCODE |-> flags % 16]
getSetFlags(flags) == {k \in DOMAIN getFlagMap(flags) \ {"OPCODE", "RCODE"} : getFlagMap(flags)[k] > 0}
-----------------------------------------------------------------------------
\* dns_client.c: the question it builds (strtok leaves out empty labels), and
\* what it prints for a name.
\* Mutant: empty labels are written too.
qnameEmpty(labels) == FlattenSeq([i \in DOMAIN labels |-> <<Len(labels[i])>> \o labels[i]]) \o <<0>>
qname(labels) ==
  FlattenSeq([i \in DOMAIN labels |-> IF labels[i] = <<>> THEN <<>> ELSE <<Len(labels[i])>> \o labels[i]]) \o <<0>>
Jump(buffer, r) == Uint16(buffer, r) - 49152
RECURSIVE Resolve(_, _)
Resolve(buffer, r) ==
  IF buffer[r + 1] = 0 THEN <<>>
  ELSE IF buffer[r + 1] >= 192 THEN Resolve(buffer, Jump(buffer, r))
  ELSE <<buffer[r + 1]>> \o Resolve(buffer, r + 1)
format_name(buffer, r) == LabelToString(Resolve(buffer, r) \o <<0>>)
-----------------------------------------------------------------------------
Name(labels) == FlattenSeq([i \in DOMAIN labels |-> <<Len(labels[i])>> \o labels[i]]) \o <<0>>
Dotted(labels) == FoldLeft(LAMBDA r, l : IF r = <<>> THEN l ELSE r \o <<46>> \o l, <<>>, labels)

\* A response whose answers point at a name in the question is read back as it
\* was written, one answer after the other whatever the length of its data.
\* (After a name that is written out the fields are read two bytes too late.)
ResponseReadBack(v) ==
  LET q == [Name |-> Name(v.labels), Type |-> 2, Class |-> 1]
      answer(d) == [Name |-> <<192, 12>>, Type |-> 258, Class |-> 1, TTL |-> <<1, 515>>, RDLength |-> Len(d), RData |-> d]
      m == [Header |-> [ID |-> 513, Flags |-> 33152, QCount |-> 1, AnsCount |-> Len(v.data), RRCount |-> 0, AddnlRRCount |-> 0],
            Questions |-> <<q>>, Answers |-> [i \in DOMAIN v.data |-> answer(v.data[i])]]
      r == ParseDNSResponse(encode(m) \o [k \in 1..16 |-> 0])
      same(x, y) == \A f \in DOMAIN y : x[f] = y[f]
  IN /\ r.Header = m.Header /\ same(r.Questions[1], q) /\ r.Questions[1].Namestr = Dotted(v.labels)
     /\ Len(r.Answers) = Len(v.data)
     /\ \A i \in DOMAIN r.Answers : same(r.Answers[i], m.Answers[i]) /\ r.Answers[i].Namestr = Dotted(v.labels)

\* Every bit of the flags counts in exactly one field, and the fields put
\* together are the flags again; but a query that asks for recursion is
\* printed with RA, since the constructor sets the bit of the answer's flag.
FlagsExact(v) ==
  LET weight == [QR |-> 32768, OPCODE |-> 2048, AA |-> 1024, TC |-> 512, RD |-> 256, RA |-> 128, Z |-> 16, RCODE |-> 1]
  IN /\ \A n \in 0..15 : \E k \in DOMAIN weight : /\ getFlagMap(2^n)[k] * weight[k] = 2^n
                                              /\ \A other \in DOMAIN weight \ {k} : getFlagMap(2^n)[other] = 0
     /\ getSetFlags(NewDNSMessage(1, v.data # <<>>, <<>>).Header.Flags) = IF v.data # <<>> THEN {"RA"} ELSE {}

\* The C client prints the name it was given, read back from its question or
\* through a pointer to any of its labels.
NamePrinted(v) ==
  LET labels == SelectSeq(v.labels, LAMBDA l : l # <<>>)
      b == [k \in 1..12 |-> 0] \o qname(v.labels)
      start(i) == 12 + Len(qname(SubSeq(labels, 1, i - 1))) - 1
  IN /\ format_name(b, 12) = Dotted(labels)
     /\ \A i \in DOMAIN labels :
          format_name(b \o <<1, 120, 192, start(i), 0>>, Len(b)) = Dotted(<<<<120>>>> \o SubSeq(labels, i, Len(labels)))
=============================================================================
