-------------------------- MODULE ImageFilesProofs --------------------------
(***************************************************************************)
(* The image file between creator and host, for every content of the       *)
(* creator's directories, every key, any number of damages and every       *)
(* device.                                                                 *)
(***************************************************************************)
EXTENDS ImageFiles, ImageCreatorProofs

-----------------------------------------------------------------------------
(* What a creator makes of its sources                                      *)

\* A hex file that can be read alone yields its bytes from the first to the
\* last, no byte more.
LEMMA BinaryOfHexFile ==
  ASSUME NEW r \in Roots, NEW n \in AppNames, Readable(AppHex[r][n])
  PROVE  LET hex  == AppHex[r][n]
             read == append_hex_file(ClearedHex, hex)
         IN /\ read.start_address_m \in Nat
            /\ Len(read.binary_m) \in Nat
            /\ read.start_address_m + Len(read.binary_m) <= AddressSpace
<1> DEFINE hex   == AppHex[r][n]
           D     == DOMAIN hex
           first == Min(D)
           last  == Max(D)
           read  == append_hex_file(ClearedHex, hex)
<1>1. D # {} /\ D \subseteq 0 .. AddressSpace - 1 /\ AddressSpace - 1 \in Nat
  BY FilesAssumption, AddressSpaceAssumption DEF Readable
<1>2. first \in D /\ last \in D /\ first <= last
  <2>1. D \subseteq Nat
    BY <1>1
  <2> HIDE DEF D
  <2>2. first \in D /\ \A y \in D : first <= y
    BY <1>1, <2>1, LeastOfNaturals
  <2>3. last \in D
    BY <1>1, GreatestOfBounded
  <2> QED BY <2>2, <2>3
<1> HIDE DEF D, first, last
<1>3. read = [binary_m |-> Contiguous(hex), start_address_m |-> first]
  BY DEF append_hex_file, append_binary, append_binary_, ClearedHex, first, D, Readable
<1>4. Len(Contiguous(hex)) = last - first + 1
  <2>1. last - first + 1 \in Nat
    BY <1>1, <1>2
  <2> DEFINE byte(k) == IF first + k - 1 \in D THEN hex[first + k - 1] ELSE 0
  <2>2. Contiguous(hex) = [k \in 1 .. last - first + 1 |-> byte(k)]
    BY DEF Contiguous, first, last, D
  <2> HIDE DEF byte
  <2> QED BY <2>1, <2>2
<1>5. first \in Nat /\ last - first + 1 \in Nat /\ first + (last - first + 1) <= AddressSpace
  <2>1. first \in Int /\ last \in Int /\ 0 <= first /\ last <= AddressSpace - 1
    BY <1>1, <1>2
  <2> QED BY <2>1, <1>2, AddressSpaceAssumption
<1> HIDE DEF hex, read
<1>6. read.start_address_m = first /\ Len(read.binary_m) = last - first + 1
  BY <1>3, <1>4
<1> QED BY <1>5, <1>6 DEF read, hex

\* Whatever the sources hold, what is read of them has the fields of an
\* image, and a hash only of a binary that ends within the address space.
LEMMA SourceImage ==
  ASSUME NEW headers, NEW symbols, NEW hex
  PROVE  LET fw   == load_plain_image(headers, symbols, hex)
             read == append_hex_file(ClearedHex, hex)
         IN /\ DOMAIN fw = DOMAIN ClearedImage
            /\ DOMAIN fw.meta = Range(Attributes)
            /\ \/ fw.sha256 = <<>>
               \/ /\ Readable(hex) /\ fw.sha256 = <<read.binary_m>>
                  /\ fw.meta.entryPoint = read.start_address_m
                  /\ fw.meta.size = Len(read.binary_m)
<1> DEFINE found == load_meta_data_from_source(headers, symbols)
           read  == append_hex_file(ClearedHex, hex)
           named == [ClearedImage EXCEPT !.meta = found.meta,
                                         !.descriptorAddress = found.address]
           fw    == load_plain_image(headers, symbols, hex)
           whole == [named EXCEPT
                       !.meta.entryPoint = read.start_address_m, !.meta.size = Len(read.binary_m),
                       !.binary_plain = read.binary_m,
                       !.binary_encoded = Plaintext(read.binary_m),
                       !.sha256 = <<read.binary_m>>, !.aes128_iv = ZeroIV]
<1>1. DOMAIN found.meta = Range(Attributes)
  BY DEF load_meta_data_from_source
<1>2. fw = named \/ (Readable(hex) /\ fw = whole)
  BY DEF load_plain_image
<1>3. "entryPoint" \in Range(Attributes) /\ "size" \in Range(Attributes)
  <2>1. /\ Attributes[5] = "entryPoint" /\ Attributes[6] = "size"
        /\ 5 \in DOMAIN Attributes /\ 6 \in DOMAIN Attributes
    BY DEF Attributes
  <2> QED BY <2>1 DEF Range
<1> DEFINE Fields ==
      /\ DOMAIN fw = DOMAIN ClearedImage
      /\ DOMAIN fw.meta = Range(Attributes)
      /\ \/ fw.sha256 = <<>>
         \/ /\ Readable(hex) /\ fw.sha256 = <<read.binary_m>>
            /\ fw.meta.entryPoint = read.start_address_m
            /\ fw.meta.size = Len(read.binary_m)
<1>4. ASSUME fw = named PROVE Fields
  <2> HIDE DEF found, read, fw
  <2> QED BY <1>1, <1>4 DEF ClearedImage
<1>5. ASSUME Readable(hex), fw = whole PROVE Fields
  <2> HIDE DEF found, read, fw
  <2> QED BY <1>1, <1>3, <1>5 DEF ClearedImage
<1>6. Fields
  BY <1>2, <1>4, <1>5
<1> QED BY <1>6

\* The images of CreatorImages are those of the sources, encrypted or not.
LEMMA CreatorImageFields ==
  ASSUME NEW r \in Roots, NEW n \in AppNames, NEW fw,
         LET plain == load_plain_image(Headers[r], Symbols[r], AppHex[r][n])
         IN fw \in {plain} \union {Encrypted(plain, k, ZeroIV) : k \in Keys}
  PROVE  /\ DOMAIN fw = DOMAIN ClearedImage
         /\ DOMAIN fw.meta = Range(Attributes)
         /\ \/ fw.sha256 = <<>>
            \/ /\ fw.meta.entryPoint \in Nat /\ fw.meta.size \in Nat
               /\ fw.meta.entryPoint + fw.meta.size <= AddressSpace
         /\ Len(fw.sha256) \in {0, 1}
<1> DEFINE plain == load_plain_image(Headers[r], Symbols[r], AppHex[r][n])
           Fields(i) ==
             /\ DOMAIN i = DOMAIN ClearedImage
             /\ DOMAIN i.meta = Range(Attributes)
             /\ \/ i.sha256 = <<>>
                \/ /\ i.meta.entryPoint \in Nat /\ i.meta.size \in Nat
                   /\ i.meta.entryPoint + i.meta.size <= AddressSpace
             /\ Len(i.sha256) \in {0, 1}
<1>1. Fields(plain)
  <2> DEFINE read == append_hex_file(ClearedHex, AppHex[r][n])
  <2>1. /\ DOMAIN plain = DOMAIN ClearedImage
        /\ DOMAIN plain.meta = Range(Attributes)
        /\ \/ plain.sha256 = <<>>
           \/ /\ Readable(AppHex[r][n]) /\ plain.sha256 = <<read.binary_m>>
              /\ plain.meta.entryPoint = read.start_address_m
              /\ plain.meta.size = Len(read.binary_m)
    BY SourceImage
  <2>2. Readable(AppHex[r][n]) =>
          /\ read.start_address_m \in Nat /\ Len(read.binary_m) \in Nat
          /\ read.start_address_m + Len(read.binary_m) <= AddressSpace
    BY BinaryOfHexFile
  <2> HIDE DEF plain, read
  <2> QED BY <2>1, <2>2
<1>2. ASSUME NEW k \in Keys, fw = Encrypted(plain, k, ZeroIV)
      PROVE  Fields(fw)
  <2> HIDE DEF plain
  <2>1. /\ DOMAIN fw = DOMAIN plain /\ DOMAIN fw.meta = DOMAIN plain.meta
        /\ fw.meta.entryPoint = plain.meta.entryPoint /\ fw.meta.size = plain.meta.size
        /\ fw.sha256 = plain.sha256
    <3>1. /\ "entryPoint" \in Range(Attributes) /\ "size" \in Range(Attributes)
          /\ {"meta", "sha256"} \subseteq DOMAIN ClearedImage
      <4>1. /\ Attributes[5] = "entryPoint" /\ Attributes[6] = "size"
            /\ 5 \in DOMAIN Attributes /\ 6 \in DOMAIN Attributes
        BY DEF Attributes
      <4> QED BY <4>1 DEF Range, ClearedImage
    <3> QED BY <1>1, <1>2, <3>1 DEF Encrypted
  <2> QED BY <1>1, <2>1
<1> HIDE DEF Fields
<1>3. Fields(fw)
  BY <1>1, <1>2
<1> QED BY <1>3 DEF Fields

\* Of an image with all its fields, file and checksum hold the same.
LEMMA SavedFile ==
  ASSUME NEW fw, DOMAIN fw = DOMAIN ClearedImage, DOMAIN fw.meta = Range(Attributes)
  PROVE  LET saved == save_compiled_image(fw)
         IN /\ DOMAIN saved = {"nodes", "data", "check"}
            /\ DOMAIN saved.data = {"meta", "iv", "sha", "binary"}
            /\ saved.check = saved.data /\ saved.data.sha = fw.sha256
            /\ saved.data.meta.entryPoint = fw.meta.entryPoint
            /\ saved.data.meta.size = fw.meta.size
<1> DEFINE dated == [fw EXCEPT !.meta.creation_date = 1]
           saved == save_compiled_image(fw)
           hashed == createXML_for_checksum(dated)
<1>1. /\ "entryPoint" \in Range(Attributes) /\ "size" \in Range(Attributes)
      /\ {"meta", "sha256", "binary_encoded"} \subseteq DOMAIN ClearedImage
  <2>1. /\ Attributes[5] = "entryPoint" /\ Attributes[6] = "size"
        /\ 5 \in DOMAIN Attributes /\ 6 \in DOMAIN Attributes
    BY DEF Attributes
  <2> QED BY <2>1 DEF Range, ClearedImage
<1>2. /\ dated.binary_encoded = fw.binary_encoded /\ dated.sha256 = fw.sha256
      /\ dated.meta.entryPoint = fw.meta.entryPoint /\ dated.meta.size = fw.meta.size
  BY <1>1
<1> HIDE DEF dated
<1>3. hashed = [meta |-> dated.meta, iv |-> dated.aes128_iv, sha |-> fw.sha256,
                binary |-> fw.binary_encoded]
  BY <1>2 DEF createXML_for_checksum
<1>4. saved = [nodes |-> Nodes, data |-> [hashed EXCEPT !.binary = fw.binary_encoded],
               check |-> hashed]
  BY DEF save_compiled_image, dated
<1> HIDE DEF saved, hashed
<1>5. [hashed EXCEPT !.binary = fw.binary_encoded] = hashed
  BY <1>3
<1>6. saved.data = hashed /\ saved.check = hashed
      /\ DOMAIN saved = {"nodes", "data", "check"}
  BY <1>4, <1>5
<1>7. DOMAIN hashed = {"meta", "iv", "sha", "binary"} /\ hashed.sha = fw.sha256
      /\ hashed.meta = dated.meta
  BY <1>3
<1> QED BY <1>2, <1>6, <1>7 DEF saved

LEMMA CreatorImageSaved ==
  ASSUME NEW r \in Roots, NEW n \in AppNames, NEW fw,
         LET plain == load_plain_image(Headers[r], Symbols[r], AppHex[r][n])
         IN fw \in {plain} \union {Encrypted(plain, k, ZeroIV) : k \in Keys}
  PROVE  save_compiled_image(fw).data \in CreatorImages
<1> DEFINE Made(q, m) ==
             LET plain == load_plain_image(Headers[q], Symbols[q], AppHex[q][m])
             IN {plain} \union {Encrypted(plain, k, ZeroIV) : k \in Keys}
           Images == UNION {Made(q, m) : q \in Roots, m \in AppNames}
<1>1. fw \in Made(r, n)
  OBVIOUS
<1>2. CreatorImages = {save_compiled_image(i).data : i \in Images}
  BY DEF CreatorImages
<1> HIDE DEF Made
<1>3. fw \in Images
  BY <1>1
<1> QED BY <1>2, <1>3

\* Where an image made by a creator lies, if it has a hash at all.
LEMMA CreatorImagesFit ==
  ASSUME NEW data \in CreatorImages, data.sha # <<>>
  PROVE  /\ data.meta.entryPoint \in Nat /\ data.meta.size \in Nat
         /\ data.meta.entryPoint + data.meta.size <= AddressSpace
<1>1. PICK r \in Roots, n \in AppNames :
        \E fw \in LET plain == load_plain_image(Headers[r], Symbols[r], AppHex[r][n])
                  IN {plain} \union {Encrypted(plain, k, ZeroIV) : k \in Keys} :
           data = save_compiled_image(fw).data
  BY DEF CreatorImages
<1> DEFINE plain == load_plain_image(Headers[r], Symbols[r], AppHex[r][n])
<1>2. PICK fw \in {plain} \union {Encrypted(plain, k, ZeroIV) : k \in Keys} :
        data = save_compiled_image(fw).data
  BY <1>1
<1>3. /\ DOMAIN fw = DOMAIN ClearedImage /\ DOMAIN fw.meta = Range(Attributes)
      /\ \/ fw.sha256 = <<>>
         \/ /\ fw.meta.entryPoint \in Nat /\ fw.meta.size \in Nat
            /\ fw.meta.entryPoint + fw.meta.size <= AddressSpace
  BY CreatorImageFields
<1> QED BY <1>2, <1>3, SavedFile

-----------------------------------------------------------------------------
(* The invariant                                                            *)

Contents == {"meta", "iv", "sha", "binary"}

\* A checksum on disk is that of an image a creator makes, or no image that
\* could be loaded has it.
FileInv ==
  /\ DOMAIN file = {"nodes", "data", "check"}
  /\ DOMAIN file.data = Contents /\ DOMAIN file.check = Contents
  /\ Len(file.data.sha) \in {0, 1}
  /\ file.check.sha \in {<<>>, NoHash} \/ file.check \in CreatorImages

FilesInv ==
  /\ FilesTypeOK
  /\ FileInv
  /\ DOMAIN fwImage = DOMAIN ClearedImage
  /\ LoadedIsGenuine

\* An image the creator saves has a hash only if its sources could be read,
\* and then it is one of CreatorImages.
LEMMA WrittenFiles ==
  ASSUME NEW f \in Written
  PROVE  /\ DOMAIN f = {"nodes", "data", "check"}
         /\ DOMAIN f.data = Contents /\ DOMAIN f.check = Contents
         /\ Len(f.data.sha) \in {0, 1}
         /\ f.check.sha = <<>> \/ f.check \in CreatorImages
<1>1. PICK s \in [chosen : [crypto : {"plain", "aes"}], absolute : Paths],
           key \in Keys \union {NoKey} : f = save_compiled_image(Prepared(s, key, ZeroIV))
  BY DEF Written
<1> DEFINE fw == Prepared(s, key, ZeroIV)
           r  == s.absolute.root
           n  == s.absolute.app
           plain == FromSources(s)
<1>2. r \in Roots /\ n \in AppNames \union {NoName}
  BY DEF Paths
<1>3. fw \in {plain} \union {Encrypted(plain, k, ZeroIV) : k \in Keys}
  BY DEF Prepared, Succeeds, KeyAt
<1>4. CASE n = NoName
  <2>1. ~Readable(AppAt(s))
    BY <1>4 DEF AppAt, Readable
  <2>2. /\ DOMAIN plain = DOMAIN ClearedImage /\ DOMAIN plain.meta = Range(Attributes)
        /\ plain.sha256 = <<>>
    BY <2>1, SourceImage DEF FromSources
  <2> HIDE DEF plain, fw
  <2>3. "crypto" \in Range(Attributes)
    <3>1. Attributes[8] = "crypto" /\ 8 \in DOMAIN Attributes
      BY DEF Attributes
    <3> QED BY <3>1 DEF Range
  <2>4. /\ DOMAIN fw = DOMAIN ClearedImage /\ DOMAIN fw.meta = Range(Attributes)
        /\ fw.sha256 = <<>>
    <3>1. {"meta", "sha256", "binary_encoded", "aes128_iv"} \subseteq DOMAIN ClearedImage
      BY DEF ClearedImage
    <3>2. ASSUME NEW k \in Keys, fw = Encrypted(plain, k, ZeroIV)
          PROVE  /\ DOMAIN fw = DOMAIN plain /\ DOMAIN fw.meta = DOMAIN plain.meta
                 /\ fw.sha256 = plain.sha256
      BY <2>2, <2>3, <3>1, <3>2 DEF Encrypted
    <3> QED BY <1>3, <2>2, <3>2
  <2> QED BY <1>1, <2>4, SavedFile DEF Contents, fw
<1>5. CASE n # NoName
  <2>1. n \in AppNames /\ plain = load_plain_image(Headers[r], Symbols[r], AppHex[r][n])
    BY <1>2, <1>5 DEF FromSources, AppAt
  <2>2. /\ DOMAIN fw = DOMAIN ClearedImage /\ DOMAIN fw.meta = Range(Attributes)
        /\ Len(fw.sha256) \in {0, 1}
    <3> HIDE DEF plain, fw, r, n
    <3> QED BY <1>2, <1>3, <2>1, CreatorImageFields
  <2>3. save_compiled_image(fw).data \in CreatorImages
    <3> HIDE DEF plain, fw, r, n
    <3> QED BY <1>2, <1>3, <2>1, CreatorImageSaved
  <2> HIDE DEF fw
  <2> QED BY <1>1, <2>2, <2>3, SavedFile DEF Contents, fw
<1> QED BY <1>4, <1>5

\* Loading takes the hash from the file, and calls the image consistent only
\* if all that is hashed is what the checksum was computed from.
LEMMA LoadedFields ==
  ASSUME NEW fw, DOMAIN fw = DOMAIN ClearedImage, NEW f
  PROVE  LET loaded == load_compiled_image(fw, f)
         IN /\ DOMAIN loaded.image = DOMAIN ClearedImage
            /\ loaded.ok => isValid(loaded.image)
            /\ loaded.image.sha256 = f.data.sha
            /\ loaded.image.consistent => createXML_for_checksum(loaded.image) = f.check
<1> DEFINE meta == IF "meta" \in f.nodes THEN load_meta_data_from_xml(fw.meta, f.data.meta)
                   ELSE fw.meta
           iv   == IF meta.crypto = "aes" THEN f.data.iv ELSE ZeroIV
           part == [fw EXCEPT !.meta = meta, !.sha256 = f.data.sha, !.aes128_iv = iv,
                              !.binary_encoded = f.data.binary]
           same == createXML_for_checksum(part) = f.check
           result == [part EXCEPT !.consistent = same]
           loaded == load_compiled_image(fw, f)
<1>1. loaded.image = result /\ (loaded.ok => isValid(result))
  BY DEF load_compiled_image
<1> HIDE DEF meta, iv, loaded
<1>2. {"meta", "sha256", "aes128_iv", "binary_encoded", "consistent"} \subseteq DOMAIN ClearedImage
  BY DEF ClearedImage
<1>3. /\ DOMAIN part = DOMAIN ClearedImage
      /\ part.sha256 = f.data.sha
  BY <1>2
<1> HIDE DEF part
<1>4. /\ DOMAIN result = DOMAIN ClearedImage /\ result.sha256 = part.sha256
      /\ result.meta = part.meta /\ result.aes128_iv = part.aes128_iv
      /\ result.binary_encoded = part.binary_encoded /\ result.consistent = same
  BY <1>2, <1>3
<1> HIDE DEF result, same
<1>5. createXML_for_checksum(result) = createXML_for_checksum(part)
  BY <1>4 DEF createXML_for_checksum
<1>6. result.consistent => createXML_for_checksum(result) = f.check
  <2>1. CASE same
    BY <1>5, <2>1 DEF same
  <2>2. CASE ~same
    BY <1>4, <2>2, Zenon
  <2> QED BY <2>1, <2>2
<1> QED BY <1>1, <1>3, <1>4, <1>6 DEF loaded, result

LEMMA FilesStart == FilesInit => FilesInv
<1> SUFFICES ASSUME FilesInit PROVE FilesInv
  OBVIOUS
<1>1. FilesTypeOK
  <2>1. damaged \in 0 .. MaxDamage
    BY FilesAssumption DEF FilesInit
  <2>2. fileLoaded \in BOOLEAN /\ (fileLoaded => isValid(fwImage))
    BY Zenon DEF FilesInit
  <2> QED BY <2>1, <2>2, Zenon DEF FilesTypeOK
<1>2. FileInv
  BY DEF FilesInit, FileInv, NoFile, createXML_for_checksum, ClearedImage, Contents
<1>3. LoadedIsGenuine
  BY DEF FilesInit, LoadedIsGenuine
<1> QED BY <1>1, <1>2, <1>3 DEF FilesInv, FilesInit

\* Whatever is damaged, the file keeps its parts, and its checksum fits the
\* image it was computed from or none at all.
LEMMA DamagedFile ==
  ASSUME FilesInv, Damage
  PROVE  FileInv'
<1> USE DEF FilesInv, FileInv, Contents
<1>1. ASSUME NEW node \in file.nodes, file' = [file EXCEPT !.nodes = @ \ {node}]
      PROVE  FileInv'
  <2>1. file'.data = file.data /\ file'.check = file.check /\ DOMAIN file' = DOMAIN file
    BY <1>1
  <2> QED BY <2>1
<1>2. ASSUME NEW f, NEW v, file' = [file EXCEPT !.data.meta[f] = v]
      PROVE  FileInv'
  <2>1. /\ DOMAIN file'.data = DOMAIN file.data /\ file'.data.sha = file.data.sha
        /\ file'.check = file.check /\ DOMAIN file' = DOMAIN file
    BY <1>2
  <2> QED BY <2>1
<1>3. ASSUME NEW c, file' = [file EXCEPT !.data.meta.crypto = c]
      PROVE  FileInv'
  <2>1. /\ DOMAIN file'.data = DOMAIN file.data /\ file'.data.sha = file.data.sha
        /\ file'.check = file.check /\ DOMAIN file' = DOMAIN file
    BY <1>3
  <2> QED BY <2>1
<1>4. ASSUME file' = [file EXCEPT !.data.iv = NoIV]
      PROVE  FileInv'
  <2>1. /\ DOMAIN file'.data = DOMAIN file.data /\ file'.data.sha = file.data.sha
        /\ file'.check = file.check /\ DOMAIN file' = DOMAIN file
    BY <1>4
  <2> QED BY <2>1
<1>5. ASSUME file' = [file EXCEPT !.data.sha = <<<<Other>>>>]
      PROVE  FileInv'
  <2>1. /\ DOMAIN file'.data = DOMAIN file.data /\ file'.data.sha = <<<<Other>>>>
        /\ file'.check = file.check /\ DOMAIN file' = DOMAIN file
    BY <1>5
  <2>2. Len(file'.data.sha) = 1
    BY <2>1
  <2> QED BY <2>1, <2>2
<1>6. ASSUME file' = [file EXCEPT !.data.binary.plain = [@ EXCEPT ![1] = Other]]
      PROVE  FileInv'
  <2>1. /\ DOMAIN file'.data = DOMAIN file.data /\ file'.data.sha = file.data.sha
        /\ file'.check = file.check /\ DOMAIN file' = DOMAIN file
    BY <1>6
  <2> QED BY <2>1
<1>7. ASSUME file' = [file EXCEPT !.check.sha = NoHash]
      PROVE  FileInv'
  <2>1. /\ DOMAIN file'.check = DOMAIN file.check /\ file'.check.sha = NoHash
        /\ file'.data = file.data /\ DOMAIN file' = DOMAIN file
    BY <1>7
  <2> QED BY <2>1
<1> QED BY <1>1, <1>2, <1>3, <1>4, <1>5, <1>6, <1>7 DEF Damage

\* An image that is loaded and consistent has a hash, and so has the checksum
\* it agrees with.
LEMMA LoadKeepsGenuine ==
  ASSUME FilesInv, loadFile
  PROVE  FilesInv'
<1> DEFINE loaded == load_compiled_image(fwImage, file)
<1>1. /\ DOMAIN loaded.image = DOMAIN ClearedImage
      /\ loaded.ok => isValid(loaded.image)
      /\ loaded.image.sha256 = file.data.sha
      /\ loaded.image.consistent => createXML_for_checksum(loaded.image) = file.check
  BY LoadedFields DEF FilesInv
<1>2. /\ fileLoaded' = loaded.ok /\ UNCHANGED <<file, damaged>>
      /\ fwImage' = IF loaded.ok THEN loaded.image ELSE clear(loaded.image)
  BY DEF loadFile
<1>3. loaded.ok \in BOOLEAN
  BY DEF load_compiled_image
<1> HIDE DEF loaded
<1>4. /\ DOMAIN fwImage' = DOMAIN ClearedImage
      /\ ~loaded.ok => ~fwImage'.consistent
  BY <1>1, <1>2 DEF clear, ClearedImage
<1>5. FilesTypeOK'
  BY <1>1, <1>2, <1>3 DEF FilesInv, FilesTypeOK
<1>6. LoadedIsGenuine'
  <2> SUFFICES ASSUME fileLoaded', fwImage'.consistent
               PROVE  createXML_for_checksum(fwImage') \in CreatorImages
    BY DEF LoadedIsGenuine
  <2>1. loaded.ok
    BY <1>4
  <2>2. fwImage' = loaded.image
    BY <1>2, <2>1
  <2>3. file.data.sha # <<>>
    BY <1>1, <2>1 DEF isValid
  <2>4. createXML_for_checksum(loaded.image) = file.check /\ file.check.sha = file.data.sha
    BY <1>1, <2>2 DEF createXML_for_checksum
  <2>5. file.data.sha # NoHash
    <3>1. Len(file.data.sha) \in {0, 1}
      BY DEF FilesInv, FileInv
    <3>2. Len(NoHash) = 2
      BY DEF NoHash
    <3>3. 2 \notin {0, 1}
      OBVIOUS
    <3> QED BY <3>1, <3>2, <3>3, Zenon
  <2> QED BY <2>2, <2>3, <2>4, <2>5 DEF FilesInv, FileInv
<1>7. FileInv'
  BY <1>2 DEF FilesInv, FileInv
<1> QED BY <1>4, <1>5, <1>6, <1>7 DEF FilesInv

LEMMA FilesStep ==
  ASSUME FilesInv, [FilesNext]_filesVars
  PROVE  FilesInv'
<1>1. CASE Create
  <2>1. UNCHANGED <<fwImage, fileLoaded>> /\ damaged' = 0
    BY <1>1 DEF Create
  <2>2. FileInv'
    BY <1>1, WrittenFiles DEF Create, FileInv
  <2>3. FilesTypeOK' /\ LoadedIsGenuine'
    BY <2>1, FilesAssumption DEF FilesInv, FilesTypeOK, LoadedIsGenuine
  <2> QED BY <2>1, <2>2, <2>3 DEF FilesInv
<1>2. CASE Damage
  <2>1. /\ UNCHANGED <<fwImage, fileLoaded>>
        /\ damaged < MaxDamage /\ damaged' = damaged + 1
    BY <1>2 DEF Damage
  <2>2. FileInv'
    BY <1>2, DamagedFile
  <2>3. damaged' \in 0 .. MaxDamage
    BY <2>1, FilesAssumption DEF FilesInv, FilesTypeOK
  <2>4. FilesTypeOK' /\ LoadedIsGenuine'
    BY <2>1, <2>3 DEF FilesInv, FilesTypeOK, LoadedIsGenuine
  <2> QED BY <2>1, <2>2, <2>4 DEF FilesInv
<1>3. CASE loadFile
  BY <1>3, LoadKeepsGenuine
<1>4. CASE UNCHANGED filesVars
  BY <1>4 DEF filesVars, FilesInv, FilesTypeOK, FileInv, LoadedIsGenuine
<1> QED BY <1>1, <1>2, <1>3, <1>4 DEF FilesNext

LEMMA FilesInvariant == FilesSpec => []FilesInv
<1>1. FilesInv /\ [FilesNext]_filesVars => FilesInv'
  BY FilesStep
<1> QED BY <1>1, FilesStart, PTL DEF FilesSpec

-----------------------------------------------------------------------------
(* What follows of it                                                       *)

\* The variables have their types, and an image that counts as loaded is valid.
THEOREM FilesTypeCorrect == FilesSpec => []FilesTypeOK
<1>1. FilesInv => FilesTypeOK
  BY DEF FilesInv
<1> QED BY <1>1, FilesInvariant, PTL

\* However often and wherever a file is damaged and whatever was loaded before
\* it: what the host holds as a consistent image is one a creator has made.
THEOREM ConsistentImageIsGenuine == FilesSpec => []LoadedIsGenuine
<1>1. FilesInv => LoadedIsGenuine
  BY DEF FilesInv
<1> QED BY <1>1, FilesInvariant, PTL

\* A consistent image ends within the address space: this is what the sums of
\* addresses in 32 bits on both sides rely on.
LEMMA LoadedImageFits ==
  ASSUME FilesInv, fileLoaded, fwImage.consistent
  PROVE  /\ fwImage.meta.entryPoint \in Nat /\ fwImage.meta.size \in Nat
         /\ fwImage.meta.entryPoint + fwImage.meta.size <= AddressSpace
<1> DEFINE data == createXML_for_checksum(fwImage)
<1>1. data \in CreatorImages
  BY DEF FilesInv, LoadedIsGenuine
<1>2. data.sha # <<>> /\ data.meta = fwImage.meta
  BY DEF FilesInv, FilesTypeOK, isValid, createXML_for_checksum
<1> HIDE DEF data
<1> QED BY <1>1, <1>2, CreatorImagesFit

LEMMA PlausibleImage ==
  ASSUME NEW dev, NEW fw,
         \A r \in checkPlausibility(dev, MetaDataOf(fw)) : ~plausibilityResultIsError(r)
  PROVE  /\ fw.consistent
         /\ ~((fw.meta.entryPoint + fw.meta.size) % AddressSpace
                > (dev.minimalFirmwareEntryPoint + dev.availFlashSize) % AddressSpace)
         /\ ~(fw.meta.entryPoint < dev.minimalFirmwareEntryPoint)
         /\ ~(fw.meta.crypto = "plain" /\ dev.cryptoRequired)
<1> DEFINE image_ == MetaDataOf(fw)
<1>1. /\ "error_inconsistency" \notin checkPlausibility(dev, image_)
      /\ "error_firmwareimage_too_big" \notin checkPlausibility(dev, image_)
      /\ "error_wrong_entrypoint" \notin checkPlausibility(dev, image_)
      /\ "error_crypto_required" \notin checkPlausibility(dev, image_)
  BY DEF plausibilityResultIsError
<1>2. /\ ~image_.consistent => "error_inconsistency" \in checkPlausibility(dev, image_)
      /\ TooBig(dev, image_) => "error_firmwareimage_too_big" \in checkPlausibility(dev, image_)
      /\ WrongEntryPoint(dev, image_) => "error_wrong_entrypoint" \in checkPlausibility(dev, image_)
      /\ image_.crypto = "Plain" /\ dev.cryptoRequired
           => "error_crypto_required" \in checkPlausibility(dev, image_)
  <2> HIDE DEF image_
  <2> QED BY DEF checkPlausibility, When
<1>3. image_.consistent /\ ~TooBig(dev, image_) /\ ~WrongEntryPoint(dev, image_)
      /\ ~(image_.crypto = "Plain" /\ dev.cryptoRequired)
  BY <1>1, <1>2
<1> QED BY <1>3 DEF MetaDataOf, TooBig, WrongEntryPoint

\* For every device and every image that is plausible for it: the device will
\* not refuse the image, and the image lies between bootloader and end of the
\* flash, unless its end is that of the address space.
THEOREM PlausibleImageIsAccepted == FilesSpec => []PlausibleIsAccepted
<1>1. ASSUME FilesInv, NEW dev \in Devices, fileLoaded,
             \A r \in checkPlausibility(dev, MetaDataOf(fwImage)) : ~plausibilityResultIsError(r)
      PROVE  /\ ~RefusedByDevice(dev, fwImage.meta)
             /\ \/ fwImage.meta.entryPoint + fwImage.meta.size
                     <= dev.minimalFirmwareEntryPoint + dev.availFlashSize
                \/ fwImage.meta.entryPoint + fwImage.meta.size = AddressSpace
  <2> DEFINE end   == fwImage.meta.entryPoint + fwImage.meta.size
             limit == dev.minimalFirmwareEntryPoint + dev.availFlashSize
  <2>1. /\ fwImage.consistent /\ ~(end % AddressSpace > limit % AddressSpace)
        /\ ~RefusedByDevice(dev, fwImage.meta)
    BY <1>1, PlausibleImage DEF RefusedByDevice
  <2>2. end \in Nat /\ end <= AddressSpace
    BY <1>1, <2>1, LoadedImageFits
  <2>3. limit \in Nat
    BY FilesAssumption
  <2> HIDE DEF end, limit
  <2>4. CASE end < AddressSpace
    <3>1. end % AddressSpace = end
      BY <2>2, <2>4, AddressSpaceAssumption
    <3>2. limit % AddressSpace <= limit
      BY <2>3, AddressSpaceAssumption
    <3>3. limit % AddressSpace \in Int
      BY <2>3, AddressSpaceAssumption
    <3>4. end <= limit
      BY <2>1, <2>2, <2>3, <3>1, <3>2, <3>3
    <3> QED BY <2>1, <3>4 DEF end, limit
  <2>5. CASE end = AddressSpace
    BY <2>1, <2>5 DEF end
  <2> QED BY <2>2, <2>4, <2>5, AddressSpaceAssumption
<1>2. FilesInv => PlausibleIsAccepted
  BY <1>1 DEF PlausibleIsAccepted
<1> QED BY <1>2, FilesInvariant, PTL
=============================================================================
