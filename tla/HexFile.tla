------------------------------ MODULE HexFile ------------------------------
(***************************************************************************)
(* The class HexFile of hexfile.cpp: memory read from hex files, put       *)
(* together to one contiguous binary and dumped as lines again. A hex file *)
(* on disk is a function from addresses to bytes; a file that is missing,  *)
(* faulty or read with warnings has no address at all, and a file without  *)
(* data counts as one of those. A line is a record of its type, its 16 bit *)
(* address and its data; checksums are left out.                           *)
(***************************************************************************)
EXTENDS Integers, Sequences, SequencesExt, FiniteSetsExt

CONSTANTS
  Segment,      \* 2^16, the addresses a data line can tell apart
  MAXHEXLINE    \* bytes of a data line, 16

ASSUME HexFileAssumption == Segment \in Nat \ {0} /\ MAXHEXLINE \in Nat \ {0}

\* HexFile::clear
ClearedHex == [binary_m |-> <<>>, start_address_m |-> 0]

Zeros(n) == [k \in 1 .. n |-> 0]
LastAddress(data, start) == start + Len(data) - 1

\* The three places of data that does not overlap, or lies within.
Behind(h, data, start) ==
  [h EXCEPT !.binary_m =
     @ \o Zeros(start - 1 - LastAddress(h.binary_m, h.start_address_m)) \o data]
\* The gap is filled up to the old start, one byte too many.
InFront(h, data, start) ==
  [binary_m |-> data \o Zeros(h.start_address_m - LastAddress(data, start)) \o h.binary_m,
   start_address_m |-> start]
Within(h, data, start) ==
  LET offset == start - h.start_address_m
  IN [h EXCEPT !.binary_m =
        [n \in DOMAIN @ |-> IF n \in offset + 1 .. offset + Len(data)
                            THEN data[n - offset] ELSE @[n]]]

\* Data that overlaps is reported to the user and left out.
append_binary_(h, data, start, overwrite) ==
  LET actual_end == LastAddress(h.binary_m, h.start_address_m)
      new_end    == LastAddress(data, start)
  IN IF h.binary_m = <<>> THEN [binary_m |-> data, start_address_m |-> start]
     ELSE IF start > actual_end THEN Behind(h, data, start)
     ELSE IF new_end < h.start_address_m THEN InFront(h, data, start)
     ELSE IF overwrite /\ start > h.start_address_m /\ new_end < actual_end
          THEN Within(h, data, start)
     ELSE h

append_binary(h, data, start)    == append_binary_(h, data, start, FALSE)
overwrite_binary(h, data, start) == append_binary_(h, data, start, TRUE)

\* Gaps between the bytes of the file are read as zeros.
Contiguous(file) ==
  LET first == Min(DOMAIN file)
  IN [n \in 1 .. Max(DOMAIN file) - first + 1 |->
        IF first + n - 1 \in DOMAIN file THEN file[first + n - 1] ELSE 0]

Readable(file) == DOMAIN file # {}

append_hex_file(h, file) ==
  IF Readable(file) THEN append_binary(h, Contiguous(file), Min(DOMAIN file)) ELSE h

-----------------------------------------------------------------------------
get_extended_linear_address(address) ==
  [type |-> "04", address |-> address \div Segment, data |-> <<>>]

EndOfFile == [type |-> "01", address |-> 0, data |-> <<>>]

\* Mutated form of dump_data_line: no line for the upper half of an address.
dump_data_lineMutant(data, old_address, actual_address) ==
  <<[type |-> "00", address |-> actual_address % Segment, data |-> data]>>

dump_data_line(data, old_address, actual_address) ==
  (IF old_address \div Segment # actual_address \div Segment
   THEN <<get_extended_linear_address(actual_address)>> ELSE <<>>)
  \o <<[type |-> "00", address |-> actual_address % Segment, data |-> data]>>

\* Lines of MAXHEXLINE bytes, the last one shorter
get_hex_file(h) ==
  LET size    == Len(h.binary_m)
      lines   == (size + MAXHEXLINE - 1) \div MAXHEXLINE
      start(n) == (n - 1) * MAXHEXLINE
      upto(n) == IF n * MAXHEXLINE < size THEN n * MAXHEXLINE ELSE size
      line(n) == dump_data_line(
                   SubSeq(h.binary_m, start(n) + 1, upto(n)),
                   IF n = 1 THEN 0 ELSE h.start_address_m + start(n - 1),
                   h.start_address_m + start(n))
  IN FlattenSeq([n \in 1 .. lines |-> line(n)]) \o <<EndOfFile>>

\* What a reader of hex files makes of the lines: the bytes by address.
ReadBack(lines) ==
  LET upper(n) == LET before == {k \in 1 .. n : lines[k].type = "04"}
                  IN IF before = {} THEN 0 ELSE lines[Max(before)].address * Segment
  IN UNION {{<<upper(n) + lines[n].address + k - 1, lines[n].data[k]>> :
               k \in DOMAIN lines[n].data} :
            n \in {m \in DOMAIN lines : lines[m].type = "00"}}
=============================================================================
