-------------------------------- MODULE PcapNG --------------------------------
(***************************************************************************)
(* gnet/pcapng: a Writer makes a file, which ends when the Writer is closed *)
(* or its process dies; another section may be put behind a whole file; a   *)
(* Reader then reads it, for itself or for FilterCopy.                      *)
(*                                                                         *)
(* The file is a sequence of blocks, and "ended" says what is left of the   *)
(* block behind the last whole one.  A time is [sec, nsec]; a resolution is *)
(* a number of nanoseconds.                                                 *)
(***************************************************************************)
EXTENDS Integers, Sequences, FiniteSets

CONSTANTS Writers,     \* what NewWriter is called with: [order, defaultRes, buffered]
          Interfaces,  \* what AddInterface is called with: [linkType, snapLen, opts]
          Packets,     \* what WritePacket is called with: [len, sec, nsec]
          MaxBlocks,   \* blocks of a file
          MaxSections  \* sections of a file

VARIABLES writer,  \* the Writer: [order, defaultRes, buffered, interfaces, first], first its first block
          file,    \* the blocks written, those in the Writer's buffer included
          ended,   \* "writing", "whole", "inHeader", "afterHeader", "inBody"
          reader,  \* the Reader: [at, order, interfaces, sections, result]
          copy,    \* FilterCopy: [on, idMap, writer, kept], kept the packets it wrote
          sent,    \* history: the packets written, with what was known of their interface
          got      \* history: the packets ReadPacket returned, with their InterfaceInfo

ngVars == <<writer, file, ended, reader, copy, sent, got>>

Nanosecond == 1
Microsecond == 1000
Second == 1000000000
None == 0    \* no time.Duration

newReader == [at |-> 1, order |-> "none", interfaces |-> <<>>, sections |-> 0, result |-> "none"]
closedWriter == [order |-> "none", defaultRes |-> Microsecond, buffered |-> FALSE, interfaces |-> <<>>, first |-> 1]

PcapNGInit ==
    /\ writer = closedWriter /\ file = <<>> /\ ended = "whole"
    /\ reader = newReader
    /\ copy = [on |-> FALSE, idMap |-> {}, writer |-> closedWriter, kept |-> <<>>]
    /\ sent = <<>> /\ got = <<>>

-------------------------------------------------------------------------------
\* Timestamps.  A code is a number of decimal places, of which 6 and 9 are the ones in
\* use, or 128 and a power of two; the division by one above 10^9 is zero, which
\* stands for "not given".
decimal(raw) == <<Second, 100000000, 10000000, 1000000, 100000, 10000, Microsecond, 100, 10, Nanosecond>>[raw + 1]
binary(raw) == Second \div 2^(raw - 128)

parseTimestampResolution(raw) ==
    IF raw < 128 THEN IF raw \in 0..9 THEN decimal(raw) ELSE Microsecond
    ELSE IF raw - 128 <= 30 THEN binary(raw) ELSE Microsecond

encodeTimestampResolution(d) == CASE d = Nanosecond -> 9 [] d = Microsecond -> 6 [] OTHER -> -1

encodeTimestamp(p, resolution) ==
    CASE resolution = Nanosecond -> p.sec * Second + p.nsec
      [] resolution = Microsecond -> p.sec * 1000000 + p.nsec \div 1000
      [] OTHER -> -1

Timestamp(value, resolution) ==
    IF resolution = Nanosecond THEN [sec |-> value \div Second, nsec |-> value % Second]
    ELSE [sec |-> value \div 1000000, nsec |-> (value % 1000000) * 1000]

\* The first option with the code 9 and a value.
extractTimestampResolution(options) ==
    LET with == {i \in DOMAIN options : options[i].code = 9 /\ options[i].value # <<>>}
    IN  IF with = {} THEN None
        ELSE parseTimestampResolution(options[CHOOSE i \in with : \A j \in with : i <= j].value[1])

-------------------------------------------------------------------------------
\* The options of AddInterface fill an interfaceConfig.
WithInterfaceOption(cfg, code, value) ==
    [options |-> Append(cfg.options, [code |-> code, value |-> value]),
     hasTSOption |-> cfg.hasTSOption \/ code = 9,
     tsResolution |-> IF code = 9 /\ value # <<>> THEN parseTimestampResolution(value[1]) ELSE cfg.tsResolution]

WithInterfaceTimestampResolution(cfg, res) ==
    [options |-> cfg.options, hasTSOption |-> cfg.hasTSOption, tsResolution |-> res]

applied(cfg, o) ==
    IF o.with = "option" THEN WithInterfaceOption(cfg, o.code, o.value)
    ELSE WithInterfaceTimestampResolution(cfg, o.res)

noConfig == [options |-> <<>>, hasTSOption |-> FALSE, tsResolution |-> None]

interfaceConfig(opts) ==
    LET cfg[n \in 0..Len(opts)] == IF n = 0 THEN noConfig ELSE applied(cfg[n - 1], opts[n])
    IN  cfg[Len(opts)]

\* AddInterface: the interface as the Writer keeps it, and its block.  It fails
\* when the resolution has no code.  Mutant: only a default needs the option.
addTSOption_DefaultOnly(cfg, tsRes) == ~cfg.hasTSOption /\ tsRes # Microsecond /\ cfg.tsResolution = None
addTSOption(cfg, tsRes) == ~cfg.hasTSOption /\ (cfg.tsResolution # None \/ tsRes # Microsecond)

AddInterface(w, i) ==
    LET cfg   == interfaceConfig(i.opts)
        tsRes == IF cfg.tsResolution = None THEN w.defaultRes ELSE cfg.tsResolution
        code  == encodeTimestampResolution(tsRes)
        adds  == addTSOption(cfg, tsRes)
    IN  [ok    |-> adds => code # -1,
         info  |-> [linkType |-> i.linkType, snapLen |-> i.snapLen, tsRes |-> tsRes, opts |-> i.opts],
         block |-> [type |-> "interface", order |-> w.order, linkType |-> i.linkType, snapLen |-> i.snapLen,
                    options |-> IF adds THEN Append(cfg.options, [code |-> 9, value |-> <<code>>]) ELSE cfg.options]]

\* WritePacket and writeEnhancedPacket: the block, cut to the snap length.
capturedLen(info, len) == IF info.snapLen > 0 /\ len > info.snapLen THEN info.snapLen ELSE len

EnhancedPacket(w, id, p) ==
    LET info == w.interfaces[id + 1]
    IN  [type |-> "packet", order |-> w.order, interfaceID |-> id, ts |-> encodeTimestamp(p, info.tsRes),
         capturedLen |-> capturedLen(info, p.len), originalLen |-> p.len]

-------------------------------------------------------------------------------
writing == ended = "writing"
PacketsIn(blocks) == Cardinality({i \in DOMAIN blocks : blocks[i].type = "packet"})
SectionsIn(blocks) == Cardinality({i \in DOMAIN blocks : blocks[i].type = "section"})

\* The options of NewWriter: a resolution that has no code is refused.
accepted(w) == w.order \in {"little", "big"} /\ w.defaultRes \in {Microsecond, Nanosecond}

\* NewWriter writes the section header.  A whole file may get another section.
NewWriter ==
    /\ ended = "whole" /\ reader = newReader /\ ~copy.on /\ Len(file) + 2 <= MaxBlocks
    /\ SectionsIn(file) < MaxSections
    /\ \E w \in Writers :
          /\ accepted(w)
          /\ writer' = [order |-> w.order, defaultRes |-> w.defaultRes, buffered |-> w.buffered,
                        interfaces |-> <<>>, first |-> Len(file) + 1]
          /\ file' = Append(file, [type |-> "section", order |-> w.order])
    /\ ended' = "writing"
    /\ UNCHANGED <<reader, copy, sent, got>>

WriteInterface ==
    /\ writing /\ Len(file) < MaxBlocks
    /\ \E i \in Interfaces :
          LET a == AddInterface(writer, i)
          IN  /\ a.ok
              /\ writer' = [writer EXCEPT !.interfaces = Append(@, a.info)]
              /\ file' = Append(file, a.block)
    /\ UNCHANGED <<ended, reader, copy, sent, got>>

\* A packet for an interface that is not there, or whose resolution has no
\* encoding, is refused and changes nothing.
WritePacket ==
    /\ writing /\ Len(file) < MaxBlocks
    /\ \E id \in 0..Len(writer.interfaces) - 1, p \in Packets :
          LET block == EnhancedPacket(writer, id, p)
          IN  /\ block.ts # -1
              /\ file' = Append(file, block)
              /\ sent' = Append(sent, [id |-> id, info |-> writer.interfaces[id + 1], packet |-> p])
    /\ UNCHANGED <<writer, ended, reader, copy, got>>

\* Another program writes blocks this package does not know (one of them here).
WriteForeign ==
    /\ writing /\ Len(file) < MaxBlocks /\ \A i \in DOMAIN file : file[i].type # "other"
    /\ file' = Append(file, [type |-> "other", order |-> writer.order])
    /\ UNCHANGED <<writer, ended, reader, copy, sent, got>>

Close ==
    /\ writing
    /\ ended' = "whole"
    /\ UNCHANGED <<writer, file, reader, copy, sent, got>>

\* The process dies, or the disk is full.  Of a buffer any part may have been
\* flushed; without one each block was a write of its own, the last one perhaps
\* a partial one.
Die ==
    /\ writing
    /\ \E n \in writer.first - 1..Len(file) :
          /\ ~writer.buffered => n >= Len(file) - 1
          /\ file' = SubSeq(file, 1, n)
          /\ ended' \in IF n = Len(file) THEN {"whole"}
                        ELSE {"inHeader", "afterHeader", "inBody"} \cup IF writer.buffered THEN {"whole"} ELSE {}
    /\ sent' = SubSeq(sent, 1, PacketsIn(file'))
    /\ UNCHANGED <<writer, reader, copy, got>>

-------------------------------------------------------------------------------
\* An interface block, as the Reader keeps it.
parseInterface(b) ==
    LET res == extractTimestampResolution(b.options)
    IN  [linkType |-> b.linkType, snapLen |-> b.snapLen, tsRes |-> IF res = None THEN Microsecond ELSE res]

\* NextBlock, on a Reader: what it becomes.  Mutant: a new section keeps the
\* interfaces.
NextBlock_KeepsInterfaces(r) ==
    LET b    == file[r.at]
        next == [r EXCEPT !.at = @ + 1]
    IN  CASE b.type = "section" -> [next EXCEPT !.order = b.order, !.sections = @ + 1]
          [] b.type = "packet" -> next
          [] b.type = "other" -> [next EXCEPT !.result = "unsupported"]
          [] b.type = "interface" -> [next EXCEPT !.interfaces = Append(@, parseInterface(b))]

NextBlock(r) ==
    LET b    == file[r.at]
        next == [r EXCEPT !.at = @ + 1]
    IN  IF b.type # "section" /\ r.order # b.order THEN [r EXCEPT !.result = "invalid"]
        ELSE CASE b.type = "section" -> [next EXCEPT !.order = b.order, !.interfaces = <<>>, !.sections = @ + 1]
               [] b.type = "packet" -> next
               [] b.type = "other" -> [next EXCEPT !.result = "unsupported"]
               [] b.type = "interface" -> [next EXCEPT !.interfaces = Append(@, parseInterface(b))]

\* The header, the byte-order magic and the body are read with ReadFull, which
\* reports io.EOF when there is not a byte of what it should read.
endOfFile == IF ended \in {"whole", "afterHeader"} THEN "EOF" ELSE "unexpectedEOF"

\* ReadPacket: the packet, with the InterfaceInfo of its interface.
Packet(r, b) ==
    LET known == b.interfaceID < Len(r.interfaces)
        info  == IF known THEN r.interfaces[b.interfaceID + 1]
                 ELSE [linkType |-> 1, snapLen |-> 65535, tsRes |-> Microsecond]
    IN  [id |-> b.interfaceID, info |-> info, capturedLen |-> b.capturedLen, originalLen |-> b.originalLen,
         time |-> Timestamp(b.ts, info.tsRes)]

\* FilterCopy writes the packets the filter keeps to an interface of its own
\* Writer, which it adds when idMap has none for the packet's interface.
\* Mutant: interfaces are added with the default resolution.
WithInterface_Default(c, pkt) ==
    LET a == AddInterface(c.writer, [linkType |-> pkt.info.linkType, snapLen |-> pkt.info.snapLen, opts |-> <<>>])
    IN  IF \E m \in c.idMap : m[1] = pkt.id THEN [ok |-> TRUE, c |-> c]
        ELSE [ok |-> a.ok,
              c |-> [c EXCEPT !.idMap = @ \cup {<<pkt.id, Len(c.writer.interfaces)>>},
                              !.writer.interfaces = Append(@, a.info)]]

WithInterface(c, pkt) ==
    LET a == AddInterface(c.writer, [linkType |-> pkt.info.linkType, snapLen |-> pkt.info.snapLen,
                                     opts |-> <<[with |-> "resolution", res |-> pkt.info.tsRes]>>])
    IN  IF \E m \in c.idMap : m[1] = pkt.id THEN [ok |-> TRUE, c |-> c]
        ELSE [ok |-> a.ok,
              c |-> [c EXCEPT !.idMap = @ \cup {<<pkt.id, Len(c.writer.interfaces)>>},
                              !.writer.interfaces = Append(@, a.info)]]

FilterCopy(c, pkt, keep) ==
    LET newID == (CHOOSE m \in c.idMap : m[1] = pkt.id)[2]
        block == EnhancedPacket(c.writer, newID, [len |-> pkt.capturedLen, sec |-> pkt.time.sec, nsec |-> pkt.time.nsec])
    IN  IF keep THEN [c EXCEPT !.kept = Append(@, [of |-> Len(got) + 1, block |-> block])] ELSE c

StartFilterCopy ==
    /\ ended # "writing" /\ reader = newReader /\ ~copy.on
    /\ copy' = [copy EXCEPT !.on = TRUE, !.writer.order = "little"]
    /\ UNCHANGED <<writer, file, ended, reader, sent, got>>

reading == /\ ended # "writing" /\ file # <<>>
           /\ reader.result = "none" \/ (reader.result = "unsupported" /\ ~copy.on)

ReadBlock ==
    /\ reading /\ reader.at <= Len(file)
    /\ LET next == NextBlock([reader EXCEPT !.result = "none"])
           b    == file[reader.at]
           pkt  == Packet(next, b)
           with == WithInterface(copy, pkt)
       IN  IF b.type # "packet" \/ next.result # "none" THEN reader' = next /\ UNCHANGED <<copy, got>>
           ELSE /\ got' = Append(got, pkt)
                /\ IF ~copy.on THEN reader' = next /\ UNCHANGED copy
                   ELSE IF ~with.ok THEN reader' = [next EXCEPT !.result = "refused"] /\ UNCHANGED copy
                   ELSE reader' = next /\ \E keep \in BOOLEAN : copy' = FilterCopy(with.c, pkt, keep)
    /\ UNCHANGED <<writer, file, ended, sent>>

ReadEnd ==
    /\ reading /\ reader.at > Len(file)
    /\ reader' = [reader EXCEPT !.result = endOfFile]
    /\ UNCHANGED <<writer, file, ended, copy, sent, got>>

PcapNGNext ==
    \/ NewWriter \/ WriteInterface \/ WritePacket \/ WriteForeign \/ Close \/ Die
    \/ StartFilterCopy \/ ReadBlock \/ ReadEnd

-------------------------------------------------------------------------------
\* The caller wrote an option 9 by hand that says something else than the Writer
\* does: another resolution follows it, or it names none and the default is not
\* the Reader's.
Contradicted(info) ==
    LET cfg == interfaceConfig(info.opts)
        res == extractTimestampResolution(cfg.options)
    IN  cfg.hasTSOption /\ (IF res = None THEN Microsecond ELSE res) # info.tsRes

\* The Reader returns the packets that were written, in their order and from the
\* right interface, cut to its snap length and with the time rounded to its
\* resolution, over all sections, byte orders and places where the file was cut;
\* and io.EOF after the last of them (ReadPacket, NextBlock, AddInterface).
ReadBack ==
    /\ Len(got) <= Len(sent)
    /\ \A i \in DOMAIN got :
          LET g == got[i]  s == sent[i]
          IN  /\ g.id = s.id /\ g.info.linkType = s.info.linkType
              /\ g.capturedLen = capturedLen(s.info, s.packet.len) /\ g.originalLen = s.packet.len
              /\ ~Contradicted(s.info) =>
                    g.time = [sec |-> s.packet.sec, nsec |-> (s.packet.nsec \div s.info.tsRes) * s.info.tsRes]
    /\ reader.result \in {"EOF", "unexpectedEOF"} => Len(got) = PacketsIn(file)

Kept(k) == copy.writer.interfaces[k.block.interfaceID + 1]

\* A packet FilterCopy keeps has the time and the link type it had, as long as
\* the file has had a single section (FilterCopy, idMap).
FilterKeeps ==
    reader.sections = 1 => \A i \in DOMAIN copy.kept :
        LET k == copy.kept[i]
        IN  /\ Kept(k).linkType = got[k.of].info.linkType
            /\ Timestamp(k.block.ts, Kept(k).tsRes) = got[k.of].time

===============================================================================
