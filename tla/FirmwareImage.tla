---------------------------- MODULE FirmwareImage ----------------------------
(***************************************************************************)
(* The classes FirmwareImage and FirmwareMetaData, which creator and host  *)
(* share: what is taken from the sources of a firmware, what an image file *)
(* holds and when it is valid.                                             *)
(*                                                                         *)
(* Equal hashes stand for equal contents: sha256 is the plain binary, the  *)
(* checksum of a file is what is hashed. A text or a number that cannot be *)
(* read is Bad, an empty one is 0.                                         *)
(***************************************************************************)
EXTENDS HexFile

CONSTANTS NoKey, NoIV,
          ZeroIV,       \* QByteArray(16, 0)
          CryptBlock    \* bytes encrypted at once, 32

ASSUME ImageAssumption == CryptBlock \in Nat \ {0}

Bad == -1

\* The attributes of the node "meta" in the order they are read; Texts are
\* never refused.
Attributes == <<"githash", "gitdate", "version", "name",
                "entryPoint", "size", "creation_date", "crypto">>
Texts == {"version", "name"}

\* The meta data of a new image
ClearedMeta == [f \in Range(Attributes) |-> IF f = "crypto" THEN "plain" ELSE 0]

NoBinary == [key |-> NoKey, iv |-> NoIV, plain |-> <<>>]
Plaintext(plain) == [NoBinary EXCEPT !.plain = plain]

\* The plain binary is what the creator reads from the hex file.
ClearedImage ==
  [meta |-> ClearedMeta, descriptorAddress |-> 0, binary_plain |-> <<>>,
   aes128_iv |-> NoIV, sha256 |-> <<>>, binary_encoded |-> NoBinary,
   consistent |-> FALSE]

\* FirmwareImage::clear and FirmwareMetaData::clear: the vector and the date
\* of creation are left as they are.
clear(fw) ==
  [ClearedImage EXCEPT !.aes128_iv = fw.aes128_iv,
                       !.meta.creation_date = fw.meta.creation_date]

\* An encrypted binary is filled up to whole blocks.
EncodedSize(binary) ==
  IF binary.key = NoKey THEN Len(binary.plain)
  ELSE ((Len(binary.plain) + CryptBlock - 1) \div CryptBlock) * CryptBlock

is_valid(meta) == \A f \in {"githash", "gitdate", "entryPoint", "size"} : meta[f] # 0

isValid(fw) ==
  /\ is_valid(fw.meta)
  /\ fw.binary_encoded.plain # <<>>
  /\ fw.meta.crypto = "plain" => fw.meta.size = EncodedSize(fw.binary_encoded)
  /\ fw.sha256 # <<>>

-----------------------------------------------------------------------------
(* The sources of a firmware: header files are sequences of definitions     *)
(* <<attribute, value>>, those that concern the image; Missing is a file    *)
(* that cannot be opened. A symbol file names the address of the descriptor *)
(* or not.                                                                  *)

Missing == <<<<"missing", 0>>>>

\* The second definition of an attribute still counts and is the last one
\* that is read; a missing file ends it all, but only if it is reached.
load_meta_data_from_source(headers, symbols) ==
  LET gone   == {n \in DOMAIN headers : headers[n] = Missing}
      upto   == IF gone = {} THEN Len(headers) ELSE Min(gone) - 1
      lines  == FlattenSeq(SubSeq(headers, 1, upto))
      doubled == {n \in DOMAIN lines : \E k \in 1 .. n - 1 : lines[k][1] = lines[n][1]}
      last   == IF doubled = {} THEN Len(lines) ELSE Min(doubled)
      of(f)  == {n \in 1 .. last : lines[n][1] = f}
  IN [ok      |-> (gone # {} => doubled # {}) /\ symbols # Missing,
      meta    |-> [f \in Range(Attributes) |->
                     IF of(f) = {} THEN ClearedMeta[f] ELSE lines[Max(of(f))][2]],
      address |-> IF symbols \in {Missing, <<>>} THEN 0 ELSE symbols[1][2]]

\* readHexFile and the rest of load_plain_image
load_plain_image(headers, symbols, hex) ==
  LET found  == load_meta_data_from_source(headers, symbols)
      read   == append_hex_file(ClearedHex, hex)
      binary == read.binary_m
      named  == [ClearedImage EXCEPT !.meta = found.meta, !.descriptorAddress = found.address]
  IN IF ~found.ok \/ ~Readable(hex) THEN named
     ELSE [named EXCEPT
             !.meta.entryPoint = read.start_address_m, !.meta.size = Len(binary),
             !.binary_plain = binary, !.binary_encoded = Plaintext(binary),
             !.sha256 = <<binary>>, !.aes128_iv = ZeroIV]

\* The descriptor the bundle puts into the bootloader, one number for each
\* field the device reads.
compile_firmware_descriptor_binary(fw) ==
  <<IF fw.meta.crypto = "aes" THEN 1 ELSE 0, fw.meta.githash, fw.meta.size, fw.meta.entryPoint>>

-----------------------------------------------------------------------------
(* Image files                                                              *)

Nodes == {"data", "meta", "aes128_iv", "sha256_for_verify", "binary", "check"}

\* Mutated form of createXML_for_checksum: the binary is not hashed.
createXML_for_checksumMutant(fw) ==
  [meta |-> fw.meta, iv |-> fw.aes128_iv, sha |-> fw.sha256, binary |-> NoBinary]

\* What the checksum of a file is computed from.
createXML_for_checksum(fw) ==
  [meta |-> fw.meta, iv |-> fw.aes128_iv, sha |-> fw.sha256, binary |-> fw.binary_encoded]

NoFile == [nodes |-> {}, data |-> createXML_for_checksum(ClearedImage),
           check |-> createXML_for_checksum(ClearedImage)]

\* The file save_compiled_image writes; the date is always a valid one.
save_compiled_image(fw) ==
  LET dated == [fw EXCEPT !.meta.creation_date = 1]
  IN [nodes |-> Nodes, data |-> [createXML_for_checksum(dated) EXCEPT !.binary = fw.binary_encoded],
      check |-> createXML_for_checksum(dated)]

\* Reading stops at the first attribute that is no number, no date or no
\* crypto; what was read before stays, what follows is left as it was, and
\* the caller does not hear of it.
load_meta_data_from_xml(meta, xml) ==
  LET refused == {n \in DOMAIN Attributes :
                    /\ Attributes[n] \notin Texts
                    /\ IF Attributes[n] = "crypto" THEN xml.crypto \notin {"plain", "aes"}
                       ELSE xml[Attributes[n]] = Bad}
      stop == IF refused = {} THEN Len(Attributes) + 1 ELSE Min(refused)
      position(f) == CHOOSE n \in DOMAIN Attributes : Attributes[n] = f
  IN [f \in Range(Attributes) |->
        IF position(f) < stop THEN (IF f \in Texts /\ xml[f] = Bad THEN 0 ELSE xml[f])
        ELSE IF position(f) = stop /\ f # "crypto" THEN 0
        ELSE meta[f]]

\* The image after load_compiled_image. Fields of an earlier image are not
\* cleared before. A node that is missing ends it in the middle; its only
\* caller then clears the image.
load_compiled_image(fw, file) ==
  LET meta == IF "meta" \in file.nodes THEN load_meta_data_from_xml(fw.meta, file.data.meta)
              ELSE fw.meta
      aes  == meta.crypto = "aes"
      loaded == [fw EXCEPT !.meta = meta, !.sha256 = file.data.sha,
                   !.aes128_iv = IF aes THEN file.data.iv ELSE ZeroIV,
                   !.binary_encoded = file.data.binary]
      needed == {"data", "sha256_for_verify", "binary", "check"}
                  \union (IF aes THEN {"aes128_iv"} ELSE {})
      result == [loaded EXCEPT !.consistent = createXML_for_checksum(loaded) = file.check]
  IN [ok |-> needed \subseteq file.nodes /\ isValid(result), image |-> result]
=============================================================================
