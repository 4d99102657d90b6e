--------------------------------- MODULE Pcap ---------------------------------
(***************************************************************************)
(* gnet/pcap: a Writer makes a file, which ends when the Writer is closed or *)
(* its process dies; a Reader then reads it, for itself or for FilterCopy,  *)
(* and another Reader what FilterCopy wrote.                                *)
(*                                                                         *)
(* The file is a sequence of units, one for each Write: the file header, and *)
(* for each packet its header and its data.  "ended" says whether a part of  *)
(* the next unit follows the last whole one.                                *)
(***************************************************************************)
EXTENDS Integers, Sequences

CONSTANTS Writers,   \* what NewWriter is called with: [order, resolution, snapLen, network]
          Packets,   \* what WritePacket is called with: [len, inclLen, origLen, time, tsSec, tsUsec]
          MaxPackets

VARIABLES writer,  \* the Writer: an element of Writers
          file,    \* the units written, those in the Writer's buffer included
          ended,   \* "new", "writing", "half", "whole", "cut": "half" between the writes of a packet
          reader,  \* the Reader: [at, order, tsUnit, snapLen, result]
          copied,  \* whether the file is one FilterCopy made
          sent,    \* history: [time, unit, len, inclLen, origLen] of the packets written
          got      \* history: [time, inclLen, origLen] of the packets read

pcapVars == <<writer, file, ended, reader, copied, sent, got>>

Nanosecond == 1
Microsecond == 1000
NoTime == [sec |-> -1, nsec |-> 0]    \* the zero time.Time

newReader == [at |-> 1, order |-> "none", tsUnit |-> 0, snapLen |-> 0, result |-> "none"]
noWriter == [order |-> "none", resolution |-> 0, snapLen |-> 0, network |-> 0]

PcapInit ==
    /\ writer = noWriter /\ file = <<>> /\ ended = "new" /\ reader = newReader
    /\ copied = FALSE /\ sent = <<>> /\ got = <<>>

-------------------------------------------------------------------------------
\* The magic number tells the byte order and the resolution.
selectMagic(order, resolution) == <<order, IF resolution = Nanosecond THEN "nano" ELSE "micro">>
ByteOrder(magic) == magic[1]
TimestampResolution(magic) == IF magic[2] = "nano" THEN Nanosecond ELSE Microsecond

accepted(w) == w.snapLen > 0 /\ w.resolution \in {Microsecond, Nanosecond}

FileHeader(w) == [part |-> "fileHeader", magic |-> selectMagic(w.order, w.resolution), snapLen |-> w.snapLen,
                  network |-> w.network]

NewWriter ==
    /\ ended = "new"
    /\ \E w \in Writers : accepted(w) /\ writer' = w /\ file' = <<FileHeader(w)>>
    /\ ended' = "writing"
    /\ UNCHANGED <<reader, copied, sent, got>>

\* Mutant: nanoseconds whatever the resolution.
SetTimestamp_Nanos(t, resolution) == [tsSec |-> t.sec, tsUsec |-> t.nsec]
SetTimestamp(t, resolution) ==
    [tsSec |-> t.sec, tsUsec |-> IF resolution = Nanosecond THEN t.nsec ELSE t.nsec \div 1000]

\* WritePacket: the header.  A packet with neither a time nor a header gets the
\* present time, which the model has no use for.
PacketHeader(w, p) ==
    LET ts == IF p.time # NoTime THEN SetTimestamp(p.time, w.resolution)
              ELSE [tsSec |-> p.tsSec, tsUsec |-> p.tsUsec]
    IN  [part |-> "header", order |-> w.order, tsSec |-> ts.tsSec, tsUsec |-> ts.tsUsec,
         inclLen |-> IF p.inclLen = 0 THEN p.len ELSE p.inclLen,
         origLen |-> IF p.origLen = 0 THEN p.len ELSE p.origLen]

WriteHeader ==
    /\ ended = "writing" /\ Len(sent) < MaxPackets
    /\ \E p \in Packets :
          /\ p.len >= p.inclLen
          /\ LET h == PacketHeader(writer, p)
             IN  /\ file' = Append(file, h)
                 /\ sent' = Append(sent, [time |-> p.time, unit |-> writer.resolution, tsSec |-> p.tsSec,
                                          tsUsec |-> p.tsUsec, inclLen |-> h.inclLen, origLen |-> h.origLen])
    /\ ended' = "half"
    /\ UNCHANGED <<writer, reader, copied, got>>

WriteData ==
    /\ ended = "half"
    /\ file' = Append(file, [part |-> "data", len |-> file[Len(file)].inclLen])
    /\ ended' = "writing"
    /\ UNCHANGED <<writer, reader, copied, sent, got>>

Close ==
    /\ ended = "writing" /\ ended' = "whole"
    /\ UNCHANGED <<writer, file, reader, copied, sent, got>>

\* The process dies, or a write fails: any part of the bytes is in the file.
Die ==
    /\ ended \in {"writing", "half"}
    /\ \E n \in 0..Len(file) : file' = SubSeq(file, 1, n) /\ ended' \in IF n = Len(file) THEN {"whole"} ELSE {"whole", "cut"}
    /\ UNCHANGED <<writer, reader, copied, sent, got>>

-------------------------------------------------------------------------------
reading == ended \in {"whole", "cut"} /\ reader.result = "none"

NewReader ==
    /\ reading /\ reader.order = "none"
    /\ reader' = IF file = <<>> THEN [reader EXCEPT !.result = "noHeader"]
                 ELSE LET h == file[1]
                      IN  [reader EXCEPT !.at = 2, !.order = ByteOrder(h.magic), !.snapLen = h.snapLen,
                                         !.tsUnit = TimestampResolution(h.magic)]
    /\ UNCHANGED <<writer, file, ended, copied, sent, got>>

\* ReadPacket: a header that is not whole, or without all of its data, is an
\* error; io.EOF is for a file that ends with a packet.  The data of a packet
\* that is too long is left unread.
\* Mutant: the end of the file in front of the data is an end like any other.
Outcome_CleanEnd ==
    LET n == Len(file)
        h == file[reader.at]
    IN  IF reader.at > n THEN (IF ended = "cut" THEN "invalidHeader" ELSE "EOF")
        ELSE IF reader.snapLen > 0 /\ h.inclLen > reader.snapLen THEN "tooLong"
        ELSE IF reader.at + 1 > n THEN (IF ended = "cut" THEN "invalidHeader" ELSE "EOF")
        ELSE "packet"

Outcome ==
    LET n == Len(file)
        h == file[reader.at]
    IN  IF reader.at > n THEN (IF ended = "cut" THEN "invalidHeader" ELSE "EOF")
        ELSE IF reader.snapLen > 0 /\ h.inclLen > reader.snapLen THEN "tooLong"
        ELSE IF reader.at + 1 > n /\ h.inclLen > 0 THEN "invalidHeader"
        ELSE "packet"

Packet(h) ==
    [time |-> [sec |-> h.tsSec, nsec |-> h.tsUsec * reader.tsUnit], inclLen |-> h.inclLen, origLen |-> h.origLen]

ReadPacket ==
    /\ reading /\ reader.order # "none"
    /\ IF Outcome = "packet"
       THEN got' = Append(got, Packet(file[reader.at])) /\ reader' = [reader EXCEPT !.at = @ + 2]
       ELSE reader' = [reader EXCEPT !.result = Outcome] /\ UNCHANGED got
    /\ UNCHANGED <<writer, file, ended, copied, sent>>

\* FilterCopy, to the end of the file or the first error: a file with the same
\* snap length and link type, little-endian and in microseconds, and the packets
\* the filter keeps: keep is an increasing sequence of their numbers.  What was
\* written and what is read from now on is about the copy.
copyWriter ==
    [order |-> "little", resolution |-> Microsecond, snapLen |-> reader.snapLen, network |-> file[1].network]

copyHeader(g) ==
    PacketHeader(copyWriter, [len |-> g.inclLen, inclLen |-> g.inclLen, origLen |-> g.origLen, time |-> g.time,
                              tsSec |-> 0, tsUsec |-> 0])

Copied(keep) ==
    [u \in 1..2 * Len(keep) + 1 |->
        IF u = 1 THEN FileHeader(copyWriter)
        ELSE IF u % 2 = 0 THEN copyHeader(got[keep[u \div 2]])
        ELSE [part |-> "data", len |-> got[keep[u \div 2]].inclLen]]

Choices == UNION {{keep \in [1..n -> DOMAIN got] : \A i, j \in 1..n : i < j => keep[i] < keep[j]} : n \in 0..Len(got)}

FilterCopy ==
    /\ ~copied /\ reader.result \notin {"none", "noHeader"}
    /\ \E keep \in Choices :
          /\ file' = Copied(keep)
          /\ sent' = [i \in DOMAIN keep |->
                        LET g == got[keep[i]]
                        IN  [time |-> g.time, unit |-> Microsecond, tsSec |-> 0, tsUsec |-> 0,
                             inclLen |-> g.inclLen, origLen |-> g.origLen]]
    /\ copied' = TRUE /\ ended' = "whole" /\ reader' = newReader /\ got' = <<>>
    /\ UNCHANGED writer

PcapNext ==
    \/ NewWriter \/ WriteHeader \/ WriteData \/ Close \/ Die
    \/ NewReader \/ ReadPacket \/ FilterCopy

-------------------------------------------------------------------------------
TimeOf(s) ==
    LET t == IF s.time = NoTime THEN [sec |-> s.tsSec, nsec |-> s.tsUsec * s.unit] ELSE s.time
    IN  [sec |-> t.sec, nsec |-> (t.nsec \div s.unit) * s.unit]

LastUnit == file[Len(file)]

\* The Reader returns the packets that were written, in their order, with their
\* lengths and their time rounded to the resolution of the file, FilterCopy in
\* between or not; and io.EOF means that the file ends with a whole packet, also
\* when the writer died between the header and the data (ReadPacket, WritePacket).
PcapReadBack ==
    /\ Len(got) <= Len(sent)
    /\ \A i \in DOMAIN got : /\ got[i].time = TimeOf(sent[i])
                             /\ got[i].inclLen = sent[i].inclLen /\ got[i].origLen = sent[i].origLen
    /\ reader.result = "EOF" => ended = "whole" /\ (LastUnit.part = "header" => LastUnit.inclLen = 0)

===============================================================================
